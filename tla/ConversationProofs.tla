-------------------------- MODULE ConversationProofs --------------------------
(* What Conversation keeps for any number of turns, questions, links and       *)
(* deaths: the slot, the transcript, and the viewer's access.                  *)
EXTENDS Conversation, FiniteSetTheorems, SequenceTheorems, TLAPS

Place == {"idle", "read", "ready", "claimed", "knows", "streaming", "over"}
Text == Questions \cup {"blank", "some"}
Messages == [role : {"user", "assistant"}, text : Text, of : Turns, cut : BOOLEAN]

Conversations ==
  [there : BOOLEAN, claim : {"free", "held", "stale"}, holder : Turns \cup {NoTurn},
   count : Nat, messages : Seq(Messages)]
Requests ==
  [at : Place, q : Questions \cup {""}, last : Seq(Messages), text : {"none", "blank", "some"}]

(* The shape of the state.  A request that is under way has its question.      *)
Shape ==
  /\ conv \in Conversations
  /\ turn \in [Turns -> Requests]
  /\ \A t \in Turns : turn[t].at # "idle" => turn[t].q \in Questions

(* While the conversation is there, whoever runs has the slot.                 *)
HasTheSlot == conv.there => \A t \in Turns : Running(t) => conv.claim = "held" /\ conv.holder = t

(* Nobody runs beside another: not even in a conversation deleted under them,  *)
(* which nobody can claim again.                                               *)
RunsAlone == \A s, t \in Turns : Running(s) /\ Running(t) => s = t

SlotInv == Shape /\ HasTheSlot /\ RunsAlone

(* The last message, if there is one.                                          *)
LastOf(messages) == IF messages = <<>> THEN <<>> ELSE <<messages[Len(messages)]>>

(* While the conversation is there, what a turn read before it stores its      *)
(* question is still the last message, ...                                     *)
SeenIsLast ==
  conv.there => \A t \in Turns : turn[t].at = "knows" => turn[t].last = LastOf(conv.messages)

(* ... an answer streams under its own question, whoever stored that, ...      *)
AsksLast(ask) ==
  LET last == LastOf(conv.messages)
  IN  last # <<>> /\ last[1].role = "user" /\ last[1].text = ask.q
StreamsUnderQuestion ==
  conv.there => \A t \in Turns : turn[t].at = "streaming" => AsksLast(turn[t])

(* ... and what was answered is not asked again by the same request.           *)
AnsweredIsOver ==
  \A i \in 1..Len(conv.messages) :
    conv.messages[i].role = "assistant" => turn[conv.messages[i].of].at = "over"

LogInv == SeenIsLast /\ StreamsUnderQuestion /\ AnsweredIsOver /\ TranscriptHolds

-----------------------------------------------------------------------------
LEMMA ShapeInit == Init => Shape
<1> SUFFICES ASSUME Init PROVE Shape
  OBVIOUS
<1> DEFINE r == [at |-> "idle", q |-> "", last |-> <<>>, text |-> "none"]
<1>0. <<>> \in Seq(Messages)
  OBVIOUS
<1>1. conv \in Conversations
  BY <1>0 DEF Init, Conversations
<1>2. r \in Requests
  BY <1>0 DEF Requests, Place
<1>3. turn = [t \in Turns |-> r]
  BY DEF Init
<1>4. \A t \in Turns : turn[t].at = "idle"
  BY <1>3
<1> QED
  BY <1>1, <1>2, <1>3, <1>4 DEF Shape

(* What is written and what is freed is a conversation again.                  *)
LEMMA WrittenFields ==
  ASSUME NEW c \in Conversations, NEW m \in Messages
  PROVE  /\ Written(c, m) \in Conversations
         /\ Written(c, m).there = c.there /\ Written(c, m).claim = c.claim
         /\ Written(c, m).holder = c.holder /\ Written(c, m).count = c.count + 1
         /\ Written(c, m).messages = Append(c.messages, m)
<1> DEFINE d == [c EXCEPT !.messages = Append(@, m)]
<1>1. Append(c.messages, m) \in Seq(Messages) /\ c.count \in Nat
  BY DEF Conversations
<1>2. /\ d \in Conversations /\ d.there = c.there /\ d.claim = c.claim /\ d.holder = c.holder
      /\ d.count = c.count /\ d.messages = Append(c.messages, m)
  BY <1>1 DEF Conversations
<1>3. Written(c, m) = [d EXCEPT !.count = @ + 1]
  BY DEF Written
<1> HIDE DEF d
<1> QED
  BY <1>1, <1>2, <1>3 DEF Conversations

LEMMA FreedFields ==
  ASSUME NEW c \in Conversations
  PROVE  /\ Freed(c) \in Conversations
         /\ Freed(c).there = c.there /\ Freed(c).claim = "free"
         /\ Freed(c).count = c.count /\ Freed(c).messages = c.messages
BY DEF Freed, Conversations

LEMMA DeletedFields ==
  ASSUME Shape, DeleteConversation
  PROVE  /\ conv' \in Conversations /\ conv'.there = FALSE
         /\ conv'.count = 0 /\ conv'.messages = <<>>
<1>1. Freed(conv) \in Conversations
  BY FreedFields DEF Shape
<1>2. <<>> \in Seq(Messages)
  OBVIOUS
<1> QED
  BY <1>1, <1>2 DEF DeleteConversation, Conversations

(* A turn moves on, the others stay where they are.                            *)
LEMMA MoveFields ==
  ASSUME Shape, NEW t \in Turns, NEW place \in Place, At(t, place)
  PROVE  /\ turn' \in [Turns -> Requests]
         /\ turn'[t].at = place /\ turn'[t].q = turn[t].q
         /\ turn'[t].last = turn[t].last /\ turn'[t].text = turn[t].text
         /\ \A s \in Turns \ {t} : turn'[s] = turn[s]
BY DEF Shape, At, Requests

LEMMA MoveShape ==
  ASSUME Shape, NEW t \in Turns, NEW place \in Place, At(t, place),
         turn[t].at # "idle" \/ place = "idle", conv' \in Conversations
  PROVE  Shape'
BY MoveFields DEF Shape

(* What one transaction at a stream's end leaves.                              *)
LEMMA FinishFields ==
  ASSUME Shape, NEW t \in Turns, turn[t].at = "streaming", NEW cut \in BOOLEAN,
         finish_stream(t, cut)
  PROVE  /\ conv' \in Conversations /\ conv'.there = conv.there
         /\ conv.there => conv'.claim = "free"
         /\ \/ conv'.messages = conv.messages /\ conv'.count = conv.count
            \/ \E m \in Messages :
                 /\ conv.there /\ m.role = "assistant" /\ m.of = t
                 /\ conv'.messages = Append(conv.messages, m) /\ conv'.count = conv.count + 1
<1> DEFINE m == Message("assistant", turn[t].text, t, cut)
<1>1. turn[t].text \in {"none", "blank", "some"} /\ conv \in Conversations
  BY DEF Shape, Requests
<1>2. CASE ~conv.there
  BY <1>1, <1>2 DEF finish_stream
<1>3. CASE conv.there /\ turn[t].text = "none"
  BY <1>1, <1>3, FreedFields DEF finish_stream
<1>4. CASE conv.there /\ turn[t].text # "none"
  <2>1. m \in Messages /\ m.role = "assistant" /\ m.of = t
    BY <1>1, <1>4 DEF Message, Messages, Text
  <2>2. conv' = Freed(Written(conv, m))
    BY <1>4 DEF finish_stream
  <2> HIDE DEF m
  <2>3. /\ Written(conv, m) \in Conversations /\ Written(conv, m).there = conv.there
        /\ Written(conv, m).count = conv.count + 1
        /\ Written(conv, m).messages = Append(conv.messages, m)
    BY <1>1, <2>1, WrittenFields
  <2>4. /\ conv' \in Conversations /\ conv'.there = conv.there /\ conv'.claim = "free"
        /\ conv'.count = conv.count + 1 /\ conv'.messages = Append(conv.messages, m)
    BY <2>2, <2>3, FreedFields
  <2> QED  BY <1>4, <2>1, <2>4
<1> QED
  BY <1>2, <1>3, <1>4

(* What StoreQuestion does besides moving its turn.                            *)
LEMMA StoreFields ==
  ASSUME Shape, NEW t \in Turns, StoreQuestion(t)
  PROVE  /\ conv' \in Conversations /\ conv'.there = conv.there
         /\ conv'.claim = conv.claim /\ conv'.holder = conv.holder
         /\ turn[t].at = "knows"
         /\ \/ Orphaned(t) /\ At(t, "streaming") /\ conv' = conv
            \/ ~Orphaned(t) /\ ~conv.there /\ At(t, "over") /\ conv' = conv
            \/ /\ ~Orphaned(t) /\ conv.there /\ At(t, "streaming")
               /\ \E m \in Messages :
                    /\ m.role = "user" /\ m.text = turn[t].q
                    /\ conv'.messages = Append(conv.messages, m) /\ conv'.count = conv.count + 1
<1> DEFINE m == Message("user", turn[t].q, t, FALSE)
<1>1. turn[t].q \in Questions /\ conv \in Conversations /\ turn[t].at = "knows"
  BY DEF Shape, StoreQuestion
<1>2. CASE Orphaned(t) \/ ~conv.there
  BY <1>1, <1>2 DEF StoreQuestion
<1>3. CASE ~Orphaned(t) /\ conv.there
  <2>1. m \in Messages /\ m.role = "user" /\ m.text = turn[t].q
    BY <1>1 DEF Message, Messages, Text
  <2>2. conv' = Written(conv, m) /\ At(t, "streaming")
    BY <1>3 DEF StoreQuestion
  <2> HIDE DEF m
  <2> QED  BY <1>1, <1>3, <2>1, <2>2, WrittenFields
<1> QED
  BY <1>2, <1>3

-----------------------------------------------------------------------------
LEMMA ShapeStep == Shape /\ [Next]_vars => Shape'
<1> SUFFICES ASSUME Shape, [Next]_vars PROVE Shape'
  OBVIOUS
<1> USE DEF Place
<1>c. conv \in Conversations
  BY DEF Shape
<1>1. ASSUME NEW t \in Turns, NEW q \in Questions, Ask(t, q) PROVE Shape'
  <2>1. /\ turn' = [turn EXCEPT ![t].at = "read", ![t].q = q] /\ conv' = conv
        /\ turn \in [Turns -> Requests] /\ turn[t] \in Requests
    BY <1>1 DEF Ask, Shape
  <2>2. [turn[t] EXCEPT !.at = "read", !.q = q] \in Requests
    BY <2>1 DEF Requests
  <2>3. turn' = [turn EXCEPT ![t] = [turn[t] EXCEPT !.at = "read", !.q = q]]
    BY ONLY <2>1
  <2>4. turn' \in [Turns -> Requests]
    BY ONLY <2>1, <2>2, <2>3
  <2>5. [turn[t] EXCEPT !.at = "read", !.q = q].q = q
    BY <2>1 DEF Requests
  <2>6. turn'[t].q = q /\ \A u \in Turns \ {t} : turn'[u] = turn[u]
    BY <2>1, <2>3, <2>5
  <2>7. \A u \in Turns : turn'[u].at # "idle" => turn'[u].q \in Questions
    BY <2>6 DEF Shape
  <2> QED  BY <2>1, <2>4, <2>7 DEF Shape
<1>2. ASSUME NEW t \in Turns, CheckReadiness(t) PROVE Shape'
  BY <1>2, <1>c, MoveShape DEF CheckReadiness
<1>3. ASSUME NEW t \in Turns, claim_stream(t) PROVE Shape'
  <2>1. CASE conv.there /\ Claimable
    <3>1. conv' = [conv EXCEPT !.claim = "held", !.holder = t] /\ At(t, "claimed")
      BY <1>3, <2>1 DEF claim_stream
    <3>2. conv' \in Conversations
      BY <1>c, <3>1 DEF Conversations
    <3> QED  BY <1>3, <3>1, <3>2, MoveShape DEF claim_stream
  <2>2. CASE ~(conv.there /\ Claimable)
    BY <1>3, <1>c, <2>2, MoveShape DEF claim_stream
  <2> QED  BY <2>1, <2>2
<1>4. ASSUME NEW t \in Turns, recent_history(t) PROVE Shape'
  <2> DEFINE seen == IF conv.messages = <<>> THEN <<>> ELSE <<conv.messages[Len(conv.messages)]>>
  <2>1. conv.messages \in Seq(Messages)
    BY <1>c DEF Conversations
  <2>2. seen \in Seq(Messages)
    BY <2>1
  <2>3. turn' = [turn EXCEPT ![t].at = "knows", ![t].last = seen] /\ conv' = conv
        /\ turn[t].at = "claimed"
    BY <1>4 DEF recent_history
  <2> HIDE DEF seen
  <2>4. turn \in [Turns -> Requests] /\ turn[t] \in Requests
    BY DEF Shape
  <2>5. [turn[t] EXCEPT !.at = "knows", !.last = seen] \in Requests
    BY <2>2, <2>4 DEF Requests
  <2>6. turn' = [turn EXCEPT ![t] = [turn[t] EXCEPT !.at = "knows", !.last = seen]]
    BY ONLY <2>3
  <2>7. turn' \in [Turns -> Requests]
    BY ONLY <2>4, <2>5, <2>6
  <2>8. [turn[t] EXCEPT !.at = "knows", !.last = seen].q = turn[t].q
    BY <2>4 DEF Requests
  <2>9. turn'[t].q = turn[t].q /\ \A u \in Turns \ {t} : turn'[u] = turn[u]
    BY <2>4, <2>6, <2>8
  <2>10. \A u \in Turns : turn'[u].at # "idle" => turn'[u].q \in Questions
    BY <2>3, <2>9 DEF Shape
  <2> QED  BY <1>c, <2>3, <2>7, <2>10 DEF Shape
<1>5. ASSUME NEW t \in Turns, StoreQuestion(t) PROVE Shape'
  BY <1>5, StoreFields, MoveShape
<1>6. ASSUME NEW t \in Turns, StoreFails(t) PROVE Shape'
  BY <1>6, <1>c, FreedFields, MoveShape DEF StoreFails
<1>7. ASSUME NEW t \in Turns, NEW kind \in {"blank", "some"}, Token(t, kind) PROVE Shape'
  BY <1>7 DEF Shape, Token, Requests
<1>8. ASSUME NEW t \in Turns, Ends(t) PROVE Shape'
  <2>1. PICK cut \in BOOLEAN : finish_stream(t, cut)
    BY <1>8 DEF Ends
  <2> QED  BY <1>8, <2>1, FinishFields, MoveShape DEF Ends
<1>9. ASSUME NEW t \in Turns, Breaks(t) PROVE Shape'
  BY <1>9, FinishFields, MoveShape DEF Breaks
<1>10. ASSUME NEW t \in Turns, Dies(t) PROVE Shape'
  BY <1>10, <1>c, MoveShape DEF Dies, Running
<1>11. CASE ClaimGoesStale
  BY <1>11, <1>c DEF ClaimGoesStale, Shape, Conversations
<1>12. CASE DeleteConversation
  BY <1>12, DeletedFields DEF DeleteConversation, Shape
<1>13. CASE UNCHANGED <<conv, turn>>
  BY <1>13 DEF Shape
<1> QED
  BY <1>1, <1>2, <1>3, <1>4, <1>5, <1>6, <1>7, <1>8, <1>9, <1>10, <1>11, <1>12, <1>13
  DEF Next, Step, enable, reset, disable, grant, remove_access, ReadinessChanges, vars

-----------------------------------------------------------------------------
(* A turn that stops running, or one that runs on with the slot as it is.      *)
LEMMA SlotStays ==
  ASSUME HasTheSlot, RunsAlone, NEW t \in Turns,
         \A s \in Turns \ {t} : Running(s)' => Running(s),
         Running(t)' => Running(t) /\ conv'.claim = conv.claim /\ conv'.holder = conv.holder,
         conv'.there => conv.there,
         Running(t) \/ conv' = conv
  PROVE  HasTheSlot' /\ RunsAlone'
<1>1. RunsAlone'
  BY DEF RunsAlone
<1>2. ASSUME conv'.there, NEW s \in Turns, Running(s)'
      PROVE  conv'.claim = "held" /\ conv'.holder = s
  <2>1. CASE s = t
    BY <1>2, <2>1 DEF HasTheSlot
  <2>2. CASE s # t
    <3>1. Running(s) /\ ~Running(t)
      BY <1>2, <2>2 DEF RunsAlone
    <3> QED  BY <1>2, <3>1 DEF HasTheSlot
  <2> QED  BY <2>1, <2>2
<1> QED
  BY <1>1, <1>2 DEF HasTheSlot

LEMMA SlotStep ==
  ASSUME ~SlowStreams, SlotInv, [Next]_vars
  PROVE  HasTheSlot' /\ RunsAlone'
<1> USE DEF Place
<1>s. Shape /\ HasTheSlot /\ RunsAlone
  BY DEF SlotInv
<1>1. ASSUME NEW t \in Turns, NEW q \in Questions, Ask(t, q) PROVE HasTheSlot' /\ RunsAlone'
  <2>1. ~Running(t)' /\ conv' = conv /\ \A s \in Turns \ {t} : turn'[s] = turn[s]
    BY <1>1, <1>s DEF Ask, Running, Shape, Requests
  <2> QED  BY <1>s, <2>1, SlotStays DEF Running
<1>2. ASSUME NEW t \in Turns, CheckReadiness(t) PROVE HasTheSlot' /\ RunsAlone'
  <2>1. ~Running(t)' /\ conv' = conv /\ \A s \in Turns \ {t} : turn'[s] = turn[s]
    BY <1>2, <1>s, MoveFields DEF CheckReadiness, Running
  <2> QED  BY <1>s, <2>1, SlotStays DEF Running
<1>3. ASSUME NEW t \in Turns, claim_stream(t) PROVE HasTheSlot' /\ RunsAlone'
  <2>1. CASE conv.there /\ Claimable
    <3>1. conv' = [conv EXCEPT !.claim = "held", !.holder = t] /\ At(t, "claimed")
      BY <1>3, <2>1 DEF claim_stream
    <3>2. conv'.claim = "held" /\ conv'.holder = t
      BY <1>s, <3>1 DEF Shape, Conversations
    <3>3. \A s \in Turns : ~Running(s)
      BY <1>s, <2>1 DEF HasTheSlot, Claimable
    <3>4. \A s \in Turns \ {t} : ~Running(s)'
      BY <1>s, <3>1, <3>3, MoveFields DEF Running
    <3> QED  BY <3>2, <3>4 DEF HasTheSlot, RunsAlone
  <2>2. CASE ~(conv.there /\ Claimable)
    <3>1. ~Running(t)' /\ conv' = conv /\ \A s \in Turns \ {t} : turn'[s] = turn[s]
      BY <1>3, <1>s, <2>2, MoveFields DEF claim_stream, Running
    <3> QED  BY <1>s, <3>1, SlotStays DEF Running
  <2> QED  BY <2>1, <2>2
<1>4. ASSUME NEW t \in Turns, recent_history(t) PROVE HasTheSlot' /\ RunsAlone'
  <2>1. Running(t) /\ conv' = conv /\ \A s \in Turns \ {t} : turn'[s] = turn[s]
    BY <1>4, <1>s DEF recent_history, Running, Shape
  <2> QED  BY <1>s, <2>1, SlotStays DEF Running
<1>5. ASSUME NEW t \in Turns, StoreQuestion(t) PROVE HasTheSlot' /\ RunsAlone'
  <2>1. /\ Running(t) /\ conv'.there = conv.there
        /\ conv'.claim = conv.claim /\ conv'.holder = conv.holder
        /\ \A s \in Turns \ {t} : turn'[s] = turn[s]
    BY <1>5, <1>s, StoreFields, MoveFields DEF Running
  <2> QED  BY <1>s, <2>1, SlotStays DEF Running
<1>6. ASSUME NEW t \in Turns, StoreFails(t) PROVE HasTheSlot' /\ RunsAlone'
  <2>1. /\ Running(t) /\ ~Running(t)' /\ conv'.there = conv.there
        /\ \A s \in Turns \ {t} : turn'[s] = turn[s]
    BY <1>6, <1>s, FreedFields, MoveFields DEF StoreFails, Running, Shape
  <2> QED  BY <1>s, <2>1, SlotStays DEF Running
<1>7. ASSUME NEW t \in Turns, NEW kind \in {"blank", "some"}, Token(t, kind)
      PROVE HasTheSlot' /\ RunsAlone'
  <2>1. Running(t) /\ conv' = conv /\ \A s \in Turns \ {t} : turn'[s] = turn[s]
    BY <1>7, <1>s DEF Token, Running, Shape
  <2> QED  BY <1>s, <2>1, SlotStays DEF Running
<1>8. ASSUME NEW t \in Turns, Ends(t) \/ Breaks(t) PROVE HasTheSlot' /\ RunsAlone'
  <2>1. turn[t].at = "streaming" /\ At(t, "over") /\ \E cut \in BOOLEAN : finish_stream(t, cut)
    BY <1>8 DEF Ends, Breaks
  <2>2. /\ Running(t) /\ ~Running(t)' /\ conv'.there = conv.there
        /\ \A s \in Turns \ {t} : turn'[s] = turn[s]
    BY <1>s, <2>1, FinishFields, MoveFields DEF Running
  <2> QED  BY <1>s, <2>2, SlotStays DEF Running
<1>9. ASSUME NEW t \in Turns, Dies(t) PROVE HasTheSlot' /\ RunsAlone'
  <2>1. ~Running(t)' /\ conv' = conv /\ \A s \in Turns \ {t} : turn'[s] = turn[s]
    BY <1>9, <1>s, MoveFields DEF Dies, Running
  <2> QED  BY <1>s, <2>1, SlotStays DEF Running
<1>10. CASE ClaimGoesStale
  <2>1. conv.there /\ conv.claim = "held" /\ ~Running(conv.holder) /\ turn' = turn
    BY <1>10 DEF ClaimGoesStale
  <2>2. \A s \in Turns : ~Running(s)
    BY <1>s, <2>1 DEF HasTheSlot
  <2> QED  BY <2>1, <2>2 DEF HasTheSlot, RunsAlone, Running
<1>11. CASE DeleteConversation
  <2>1. conv'.there = FALSE /\ turn' = turn
    BY <1>11, <1>s, DeletedFields DEF DeleteConversation
  <2> QED  BY <1>s, <2>1 DEF HasTheSlot, RunsAlone, Running
<1>12. CASE UNCHANGED <<conv, turn>>
  BY <1>s, <1>12 DEF HasTheSlot, RunsAlone, Running
<1> QED
  BY <1>1, <1>2, <1>3, <1>4, <1>5, <1>6, <1>7, <1>8, <1>9, <1>10, <1>11, <1>12
  DEF Next, Step, enable, reset, disable, grant, remove_access, ReadinessChanges, vars

LEMMA SlotInvariance == ~SlowStreams => (Spec => []SlotInv)
<1> SUFFICES ASSUME ~SlowStreams PROVE Spec => []SlotInv
  OBVIOUS
<1>1. Init => SlotInv
  <2> SUFFICES ASSUME Init PROVE SlotInv
    OBVIOUS
  <2>1. \A t \in Turns : ~Running(t)
    BY DEF Init, Running
  <2> QED  BY <2>1, ShapeInit DEF SlotInv, HasTheSlot, RunsAlone
<1>2. SlotInv /\ [Next]_vars => SlotInv'
  BY ShapeStep, SlotStep DEF SlotInv
<1> QED
  BY <1>1, <1>2, PTL DEF Spec

(* However turns interleave, die and fail, and whenever the conversation is    *)
(* deleted under them, no two of them are ever between their claim and their   *)
(* last write: the slot of claim_stream excludes, as long as no answer streams *)
(* past the minutes after which a claim is stale.                              *)
THEOREM OneAnswer == ~SlowStreams => (Spec => []OneAnswerAtATime)
<1> SUFFICES ASSUME ~SlowStreams PROVE Spec => []OneAnswerAtATime
  OBVIOUS
<1>1. SlotInv => OneAnswerAtATime
  <2> SUFFICES ASSUME SlotInv PROVE OneAnswerAtATime
    OBVIOUS
  <2> DEFINE R == {t \in Turns : Running(t)}
  <2>1. CASE R = {}
    <3>1. Cardinality(R) = 0
      BY <2>1, FS_EmptySet
    <3> QED  BY <3>1 DEF OneAnswerAtATime
  <2>2. CASE R # {}
    <3>1. PICK t \in Turns : R = {t}
      BY <2>2 DEF SlotInv, RunsAlone
    <3>2. Cardinality({t}) = 1
      BY FS_Singleton
    <3> QED  BY <3>1, <3>2 DEF OneAnswerAtATime
  <2> QED  BY <2>1, <2>2
<1> QED
  BY <1>1, SlotInvariance, PTL

-----------------------------------------------------------------------------
LEMMA Authors ==
  ASSUME NEW ms \in Seq(Messages), NEW i \in 1..Len(ms)
  PROVE  ms[i].of \in Turns
<1>1. ms[i] \in Messages
  OBVIOUS
<1> QED
  BY <1>1 DEF Messages

(* A step of one turn that writes nothing.                                     *)
LEMMA LogStays ==
  ASSUME Shape, Shape', LogInv, NEW t \in Turns,
         conv'.messages = conv.messages, conv'.count = conv.count, conv'.there => conv.there,
         \A s \in Turns \ {t} : turn'[s] = turn[s],
         turn[t].at = "over" => turn'[t].at = "over" /\ turn'[t].q = turn[t].q,
         conv'.there /\ turn'[t].at = "knows" => turn'[t].last = LastOf(conv.messages),
         conv'.there /\ turn'[t].at = "streaming" => AsksLast(turn'[t])
  PROVE  LogInv'
<1> DEFINE ms == conv.messages
<1>1. ms \in Seq(Messages)
  BY DEF Shape, Conversations
<1>2. \A i \in 1..Len(ms) : ms[i].of \in Turns
  BY <1>1, Authors
<1>3. \A i \in 1..Len(ms) : ms[i].role = "assistant" =>
        turn'[ms[i].of].at = "over" /\ turn'[ms[i].of].q = turn[ms[i].of].q
  BY <1>2 DEF LogInv, AnsweredIsOver
<1>4. AnsweredIsOver'
  BY <1>3 DEF AnsweredIsOver
<1>5. AnswersUnderQuestions'
  BY <1>3 DEF LogInv, TranscriptHolds, AnswersUnderQuestions
<1>6. AskedOnce' /\ CountIsTrue'
  BY DEF LogInv, TranscriptHolds, AskedOnce, CountIsTrue
<1>7. SeenIsLast'
  BY DEF LogInv, SeenIsLast
<1>8. StreamsUnderQuestion'
  BY DEF LogInv, StreamsUnderQuestion, AsksLast
<1> QED
  BY <1>4, <1>5, <1>6, <1>7, <1>8 DEF LogInv, TranscriptHolds

(* A step of the turn that has the slot and writes one message.                *)
LEMMA LogGrows ==
  ASSUME SlotInv, Shape', LogInv, NEW t \in Turns, Running(t), conv.there, NEW m \in Messages,
         conv'.messages = Append(conv.messages, m), conv'.count = conv.count + 1,
         \A s \in Turns \ {t} : turn'[s] = turn[s],
         turn'[t].q = turn[t].q, turn'[t].at # "knows",
         m.role = "user" => /\ turn'[t].at = "streaming" /\ m.text = turn[t].q
                            /\ ~AsksLast(turn[t]),
         m.role = "assistant" => /\ turn'[t].at = "over" /\ m.of = t /\ AsksLast(turn[t])
  PROVE  LogInv'
<1> DEFINE ms == conv.messages
           new == Append(ms, m)
<1>1. ms \in Seq(Messages) /\ conv.count \in Nat
  BY DEF SlotInv, Shape, Conversations
<1>2. /\ Len(ms) \in Nat /\ Len(new) = Len(ms) + 1 /\ new # <<>>
      /\ new[Len(ms) + 1] = m /\ \A i \in 1..Len(ms) : new[i] = ms[i]
  BY <1>1
<1>3. \A i \in 1..Len(ms) : ms[i].of \in Turns
  BY <1>1, Authors
<1>4. m.role \in {"user", "assistant"} /\ m.of \in Turns
  BY DEF Messages
<1>5. \A i \in 1..Len(ms) : ms[i].role = "assistant" => ms[i].of # t
  BY DEF LogInv, AnsweredIsOver, Running
<1>6. \A i \in 1..Len(ms) : ms[i].role = "assistant" => turn'[ms[i].of] = turn[ms[i].of]
  BY <1>3, <1>5
<1>7. /\ ms = <<>> <=> Len(ms) = 0
      /\ ms # <<>> => Len(ms) \in 1..Len(ms) /\ LastOf(ms) = <<ms[Len(ms)]>>
  BY <1>1, <1>2, EmptySeq DEF LastOf
<1>8. AsksLast(turn[t]) <=> /\ ms # <<>> /\ ms[Len(ms)].role = "user"
                            /\ ms[Len(ms)].text = turn[t].q
  BY <1>7 DEF AsksLast, LastOf
<1> HIDE DEF ms, new
<1>n. conv'.messages = new /\ conv.messages = ms
  BY DEF ms, new
<1>9. AnsweredIsOver'
  <2> SUFFICES ASSUME NEW i \in 1..(Len(ms) + 1), new[i].role = "assistant"
               PROVE  turn'[new[i].of].at = "over"
    BY <1>2, <1>n DEF AnsweredIsOver
  <2>1. CASE i = Len(ms) + 1
    BY <2>1, <1>2
  <2>2. CASE i \in 1..Len(ms)
    BY <2>2, <1>2, <1>6, <1>n DEF LogInv, AnsweredIsOver
  <2> QED  BY <1>2, <2>1, <2>2
<1>10. AnswersUnderQuestions'
  <2> SUFFICES ASSUME NEW i \in 1..(Len(ms) + 1), new[i].role = "assistant"
               PROVE  /\ i > 1 /\ new[i - 1].role = "user"
                      /\ new[i - 1].text = turn'[new[i].of].q
    BY <1>2, <1>n DEF AnswersUnderQuestions
  <2>1. CASE i = Len(ms) + 1
    <3>1. m.role = "assistant" /\ ms # <<>> /\ ms[Len(ms)].role = "user"
          /\ ms[Len(ms)].text = turn'[m.of].q
      BY <1>2, <1>8, <2>1
    <3> QED  BY <1>2, <1>7, <2>1, <3>1
  <2>2. CASE i \in 1..Len(ms)
    <3>1. i > 1 /\ ms[i - 1].role = "user" /\ ms[i - 1].text = turn[ms[i].of].q
      BY <1>2, <1>n, <2>2 DEF LogInv, TranscriptHolds, AnswersUnderQuestions
    <3>2. i - 1 \in 1..Len(ms) /\ ms[i].role = "assistant"
      BY <1>2, <2>2, <3>1
    <3> QED  BY <1>2, <1>6, <2>2, <3>1, <3>2
  <2> QED  BY <1>2, <2>1, <2>2
<1>11. AskedOnce'
  <2> SUFFICES ASSUME NEW i \in 2..(Len(ms) + 1), new[i].role = "user",
                      new[i - 1].role = "user", new[i].text = new[i - 1].text
               PROVE  FALSE
    BY <1>2, <1>n DEF AskedOnce
  <2>a. new[i].role = "user" /\ new[i - 1].role = "user" /\ new[i].text = new[i - 1].text
    OBVIOUS
  <2>1. i - 1 \in 1..Len(ms)
    BY <1>2
  <2>2. CASE i = Len(ms) + 1
    BY <1>2, <1>7, <1>8, <2>1, <2>2
  <2>3. CASE i \in 2..Len(ms)
    <3>1. i \in 2..Len(ms) /\ i \in 1..Len(ms) /\ new[i] = ms[i] /\ new[i - 1] = ms[i - 1]
      BY <1>2, <2>1, <2>3
    <3>2. \A k \in 2..Len(ms) : ~(/\ ms[k].role = "user" /\ ms[k - 1].role = "user"
                                 /\ ms[k].text = ms[k - 1].text)
      BY <1>n DEF LogInv, TranscriptHolds, AskedOnce
    <3> QED  BY ONLY <2>a, <3>1, <3>2
  <2> QED  BY <1>2, <2>2, <2>3
<1>12. CountIsTrue'
  BY <1>1, <1>2, <1>n DEF LogInv, TranscriptHolds, CountIsTrue
<1>13. \A s \in Turns \ {t} : ~Running(s)
  BY DEF SlotInv, RunsAlone
<1>14. SeenIsLast'
  BY <1>13 DEF SeenIsLast, Running
<1>15. StreamsUnderQuestion'
  <2>1. LastOf(new) = <<m>>
    BY <1>2 DEF LastOf
  <2>2. turn'[t].at = "streaming" => m.role = "user" /\ m.text = turn'[t].q
    BY <1>4
  <2> QED  BY <1>13, <1>n, <2>1, <2>2 DEF StreamsUnderQuestion, AsksLast, Running
<1> QED
  BY <1>9, <1>10, <1>11, <1>12, <1>14, <1>15 DEF LogInv, TranscriptHolds

LEMMA LogStep ==
  ASSUME SlotInv, Shape', LogInv, [Next]_vars
  PROVE  LogInv'
<1> USE DEF Place
<1>s. Shape /\ HasTheSlot /\ RunsAlone
  BY DEF SlotInv
<1>1. ASSUME NEW t \in Turns, NEW q \in Questions, Ask(t, q) PROVE LogInv'
  <2>1. /\ conv' = conv /\ turn[t].at = "idle" /\ turn'[t].at = "read"
        /\ \A s \in Turns \ {t} : turn'[s] = turn[s]
    BY <1>1, <1>s DEF Ask, Shape, Requests
  <2> QED  BY <1>s, <2>1, LogStays
<1>2. ASSUME NEW t \in Turns, CheckReadiness(t) PROVE LogInv'
  <2>1. /\ conv' = conv /\ turn[t].at = "read" /\ turn'[t].at \in {"ready", "idle"}
        /\ \A s \in Turns \ {t} : turn'[s] = turn[s]
    BY <1>2, <1>s, MoveFields DEF CheckReadiness
  <2> QED  BY <1>s, <2>1, LogStays
<1>3. ASSUME NEW t \in Turns, claim_stream(t) PROVE LogInv'
  <2>1. /\ conv'.messages = conv.messages /\ conv'.count = conv.count
        /\ conv'.there = conv.there
    BY <1>3, <1>s DEF claim_stream, Shape, Conversations
  <2>2. /\ turn[t].at = "ready" /\ turn'[t].at \in {"claimed", "idle"}
        /\ \A s \in Turns \ {t} : turn'[s] = turn[s]
    BY <1>3, <1>s, MoveFields DEF claim_stream
  <2> QED  BY <1>s, <2>1, <2>2, LogStays
<1>4. ASSUME NEW t \in Turns, recent_history(t) PROVE LogInv'
  <2>1. /\ conv' = conv /\ turn[t].at = "claimed" /\ turn'[t].at = "knows"
        /\ turn'[t].last = LastOf(conv.messages)
        /\ \A s \in Turns \ {t} : turn'[s] = turn[s]
    BY <1>4, <1>s DEF recent_history, Shape, Requests, LastOf
  <2> QED  BY <1>s, <2>1, LogStays
<1>5. ASSUME NEW t \in Turns, StoreQuestion(t) PROVE LogInv'
  <2>1. turn[t].at = "knows" /\ Running(t)
    BY <1>5, <1>s, StoreFields DEF Running
  <2>2. conv.there => (Orphaned(t) <=> AsksLast(turn[t]))
    BY <2>1 DEF LogInv, SeenIsLast, Orphaned, AsksLast
  <2>3. CASE Orphaned(t)
    <3>1. conv' = conv /\ At(t, "streaming")
      BY <1>5, <1>s, <2>3, StoreFields
    <3>2. conv.there => AsksLast(turn'[t])
      BY <1>s, <2>2, <2>3, <3>1, MoveFields DEF AsksLast
    <3> QED  BY <1>s, <2>1, <3>1, <3>2, MoveFields, LogStays
  <2>4. CASE ~Orphaned(t) /\ ~conv.there
    <3>1. conv' = conv /\ At(t, "over")
      BY <1>5, <1>s, <2>4, StoreFields
    <3> QED  BY <1>s, <2>1, <3>1, MoveFields, LogStays
  <2>5. CASE ~Orphaned(t) /\ conv.there
    <3>1. PICK m \in Messages :
            /\ At(t, "streaming") /\ m.role = "user" /\ m.text = turn[t].q
            /\ conv'.messages = Append(conv.messages, m) /\ conv'.count = conv.count + 1
      BY <1>5, <1>s, <2>5, StoreFields
    <3>2. /\ \A s \in Turns \ {t} : turn'[s] = turn[s]
          /\ turn'[t].at = "streaming" /\ turn'[t].q = turn[t].q
      BY <1>s, <3>1, MoveFields
    <3> QED  BY <2>1, <2>2, <2>5, <3>1, <3>2, LogGrows
  <2> QED  BY <2>3, <2>4, <2>5
<1>6. ASSUME NEW t \in Turns, StoreFails(t) PROVE LogInv'
  <2>1. /\ conv'.messages = conv.messages /\ conv'.count = conv.count
        /\ conv'.there = conv.there
    BY <1>6, <1>s, FreedFields DEF StoreFails, Shape
  <2>2. /\ turn[t].at # "over" /\ turn'[t].at = "over"
        /\ \A s \in Turns \ {t} : turn'[s] = turn[s]
    BY <1>6, <1>s, MoveFields DEF StoreFails
  <2> QED  BY <1>s, <2>1, <2>2, LogStays
<1>7. ASSUME NEW t \in Turns, NEW kind \in {"blank", "some"}, Token(t, kind) PROVE LogInv'
  <2>0. /\ conv' = conv /\ turn[t].at = "streaming"
        /\ turn' = [turn EXCEPT ![t] = [turn[t] EXCEPT !.text = kind]]
        /\ turn \in [Turns -> Requests] /\ turn[t] \in Requests
    BY <1>7, <1>s DEF Token, Shape
  <2>a. /\ [turn[t] EXCEPT !.text = kind].at = turn[t].at
        /\ [turn[t] EXCEPT !.text = kind].q = turn[t].q
    BY <2>0 DEF Requests
  <2>1. /\ conv' = conv /\ turn[t].at = "streaming" /\ turn'[t].at = "streaming"
        /\ turn'[t].q = turn[t].q
        /\ \A s \in Turns \ {t} : turn'[s] = turn[s]
    BY <2>0, <2>a
  <2>2. conv.there => AsksLast(turn'[t])
    BY <2>1 DEF LogInv, StreamsUnderQuestion, AsksLast
  <2> QED  BY <1>s, <2>1, <2>2, LogStays
<1>8. ASSUME NEW t \in Turns, Ends(t) \/ Breaks(t) PROVE LogInv'
  <2>1. turn[t].at = "streaming" /\ At(t, "over") /\ \E cut \in BOOLEAN : finish_stream(t, cut)
    BY <1>8 DEF Ends, Breaks
  <2>2. /\ turn'[t].at = "over" /\ turn'[t].q = turn[t].q
        /\ \A s \in Turns \ {t} : turn'[s] = turn[s]
    BY <1>s, <2>1, MoveFields
  <2>3. PICK cut \in BOOLEAN : finish_stream(t, cut)
    BY <2>1
  <2>4. CASE conv'.messages = conv.messages /\ conv'.count = conv.count
    <3>1. conv'.there = conv.there
      BY <1>s, <2>1, <2>3, FinishFields
    <3> QED  BY <1>s, <2>1, <2>2, <2>4, <3>1, LogStays
  <2>5. CASE \E m \in Messages :
               /\ conv.there /\ m.role = "assistant" /\ m.of = t
               /\ conv'.messages = Append(conv.messages, m) /\ conv'.count = conv.count + 1
    <3>1. Running(t) /\ (conv.there => AsksLast(turn[t]))
      BY <2>1 DEF Running, LogInv, StreamsUnderQuestion
    <3> QED  BY <2>2, <2>5, <3>1, LogGrows
  <2> QED  BY <1>s, <2>1, <2>3, <2>4, <2>5, FinishFields
<1>9. ASSUME NEW t \in Turns, Dies(t) PROVE LogInv'
  <2>1. /\ conv' = conv /\ turn[t].at # "over" /\ turn'[t].at = "over"
        /\ \A s \in Turns \ {t} : turn'[s] = turn[s]
    BY <1>9, <1>s, MoveFields DEF Dies, Running
  <2> QED  BY <1>s, <2>1, LogStays
<1>10. CASE ClaimGoesStale
  <2>1. /\ conv'.messages = conv.messages /\ conv'.count = conv.count
        /\ conv'.there = conv.there /\ turn' = turn
    BY <1>10, <1>s DEF ClaimGoesStale, Shape, Conversations
  <2> QED  BY <2>1 DEF LogInv, SeenIsLast, StreamsUnderQuestion, AsksLast, AnsweredIsOver,
                       TranscriptHolds, AnswersUnderQuestions, AskedOnce, CountIsTrue
<1>11. CASE DeleteConversation
  <2>1. conv'.there = FALSE /\ conv'.count = 0 /\ conv'.messages = <<>>
    BY <1>11, <1>s, DeletedFields
  <2>2. Len(conv'.messages) = 0
    BY <2>1
  <2>3. SeenIsLast' /\ StreamsUnderQuestion' /\ AnsweredIsOver'
    BY <2>1, <2>2 DEF SeenIsLast, StreamsUnderQuestion, AnsweredIsOver
  <2>4. AnswersUnderQuestions' /\ AskedOnce' /\ CountIsTrue'
    BY <2>1, <2>2 DEF AnswersUnderQuestions, AskedOnce, CountIsTrue
  <2> QED  BY <2>3, <2>4 DEF LogInv, TranscriptHolds
<1>12. CASE UNCHANGED <<conv, turn>>
  BY <1>12 DEF LogInv, SeenIsLast, StreamsUnderQuestion, AsksLast, AnsweredIsOver,
               TranscriptHolds, AnswersUnderQuestions, AskedOnce, CountIsTrue
<1> QED
  BY <1>1, <1>2, <1>3, <1>4, <1>5, <1>6, <1>7, <1>8, <1>9, <1>10, <1>11, <1>12
  DEF Next, Step, enable, reset, disable, grant, remove_access, ReadinessChanges, vars

(* Through every retry, death, disconnection and deletion, answers stand       *)
(* directly under their questions, a retried question is not stored twice, and *)
(* the listed count is the number of messages, as long as no answer streams    *)
(* past the minutes after which a claim is stale.                              *)
THEOREM Transcript == ~SlowStreams => (Spec => []TranscriptHolds)
<1> SUFFICES ASSUME ~SlowStreams PROVE Spec => []TranscriptHolds
  OBVIOUS
<1>1. Init => LogInv
  <2> SUFFICES ASSUME Init PROVE LogInv
    OBVIOUS
  <2>1. conv.messages = <<>> /\ conv.count = 0 /\ Len(conv.messages) = 0
    BY DEF Init
  <2>2. \A t \in Turns : turn[t].at = "idle"
    BY DEF Init
  <2>3. SeenIsLast /\ StreamsUnderQuestion /\ AnsweredIsOver
    BY <2>1, <2>2 DEF SeenIsLast, StreamsUnderQuestion, AnsweredIsOver
  <2>4. AnswersUnderQuestions /\ AskedOnce /\ CountIsTrue
    BY <2>1 DEF AnswersUnderQuestions, AskedOnce, CountIsTrue
  <2> QED  BY <2>3, <2>4 DEF LogInv, TranscriptHolds
<1>2. SlotInv /\ SlotInv' /\ LogInv /\ [Next]_vars => LogInv'
  BY LogStep DEF SlotInv
<1>3. LogInv => TranscriptHolds
  BY DEF LogInv
<1> QED
  BY <1>1, <1>2, <1>3, SlotInvariance, PTL DEF Spec

-----------------------------------------------------------------------------
(* Only links that were minted are opened, and the live one is the last.       *)
LinksInv ==
  /\ share \in [live : Nat, minted : Nat, opened : SUBSET Nat]
  /\ share.live <= share.minted
  /\ \A n \in share.opened : n <= share.minted

LEMMA FreshFields ==
  ASSUME LinksInv, share' = Fresh
  PROVE  LinksInv' /\ ~Readable'
<1> DEFINE n == share.minted + 1
<1>1. n \in Nat /\ n > share.minted
  BY DEF LinksInv
<1>2. share' = [[share EXCEPT !.live = n] EXCEPT !.minted = n]
  BY DEF Fresh
<1> HIDE DEF n
<1>3. /\ share' \in [live : Nat, minted : Nat, opened : SUBSET Nat]
      /\ share'.live = n /\ share'.minted = n /\ share'.opened = share.opened
  BY <1>1, <1>2 DEF LinksInv
<1>4. \A k \in share.opened : k \in Nat /\ k < n
  BY <1>1 DEF LinksInv
<1> QED
  BY <1>1, <1>3, <1>4 DEF LinksInv, Readable

LEMMA LinksStep == LinksInv /\ [Next]_vars => LinksInv' /\ (~Readable /\ Readable' => grant)
<1> SUFFICES ASSUME LinksInv, [Next]_vars PROVE LinksInv' /\ (~Readable /\ Readable' => grant)
  OBVIOUS
<1>1. CASE enable \/ reset
  BY <1>1, FreshFields DEF enable, reset
<1>2. CASE disable
  BY <1>2 DEF disable, LinksInv, Readable
<1>3. CASE grant
  BY <1>3 DEF grant, LinksInv
<1>4. CASE remove_access
  BY <1>4 DEF remove_access, LinksInv, Readable
<1>5. CASE UNCHANGED share
  BY <1>5 DEF LinksInv, Readable
<1> QED
  BY <1>1, <1>2, <1>3, <1>4, <1>5
  DEF Next, Step, Ask, CheckReadiness, claim_stream, recent_history, StoreQuestion, StoreFails,
      Token, Ends, Breaks, Dies, ClaimGoesStale, DeleteConversation, ReadinessChanges, vars

(* Whoever lost the expert, by a disabled or a reset link or by their own      *)
(* removal, reads it again only by opening the link that is live then: no      *)
(* later enabling or reset revives a link they had opened.                     *)
THEOREM Revocation == Spec => RevokedStaysOut
<1>1. Init => LinksInv
  <2> SUFFICES ASSUME Init PROVE LinksInv
    OBVIOUS
  <2>1. share = [live |-> 1, minted |-> 1, opened |-> {1}]
    BY DEF Init
  <2>2. share.live = 1 /\ share.minted = 1 /\ share.opened = {1}
    BY <2>1
  <2>3. share \in [live : Nat, minted : Nat, opened : SUBSET Nat]
    <3> DEFINE one == {1}
    <3>1. one \in SUBSET Nat
      OBVIOUS
    <3>2. share = [live |-> 1, minted |-> 1, opened |-> one]
      BY <2>1
    <3> HIDE DEF one
    <3> QED  BY <3>1, <3>2
  <2> QED  BY <2>2, <2>3 DEF LinksInv
<1>2. LinksInv /\ [Next]_vars => LinksInv' /\ [~Readable /\ Readable' => grant]_vars
  BY LinksStep
<1> QED
  BY <1>1, <1>2, PTL DEF Spec, RevokedStaysOut
=============================================================================
