---------------------------- MODULE Conversation ----------------------------
(***************************************************************************)
(* One stored conversation of a viewer with a shared expert: the turns     *)
(* that ask in it (api/routes/conversations.py), the slot that lets one    *)
(* answer stream at a time (chat/conversation_repository.py), the answer   *)
(* stream with the write that ends it on every exit path                   *)
(* (chat/streaming.py), and the share link the viewer reads the expert     *)
(* through (experts/share_repository.py).  Tabs and retries are turns that *)
(* interleave at every await.                                              *)
(***************************************************************************)
EXTENDS Integers, Sequences, FiniteSets

CONSTANTS
  Turns,        \* the requests that post a question
  Questions,    \* the texts they post
  MaxLinks,     \* bound: share links the owner mints
  MaxDeaths,    \* bound: turns whose process dies, or whose write fails
  SlowStreams,  \* whether an answer may outlast STREAM_CLAIM_STALE_MINUTES
  NoTurn

ASSUME TurnsAssumption ==
  /\ NoTurn \notin Turns
  /\ MaxLinks \in Nat
  /\ MaxDeaths \in Nat
  /\ SlowStreams \in BOOLEAN

VARIABLES
  conv,       \* the row and its messages
  turn,       \* each request's progress
  share,      \* the expert's links and the viewer's grants
  chattable,  \* readiness.can_chat of the expert
  deaths      \* bound on failures

vars == <<conv, turn, share, chattable, deaths>>

\* A message; `of` is the turn that wrote it, which no column records.
Message(role, text, of, cut) == [role |-> role, text |-> text, of |-> of, cut |-> cut]

Running(t) == turn[t].at \in {"claimed", "knows", "streaming"}
Readable == share.live # 0 /\ share.live \in share.opened
\* Mutant. The stale arm of the claim is dropped.
ClaimableWhenFree == conv.claim = "free"

Claimable == conv.claim \in {"free", "stale"}

TypeOK ==
  /\ conv.there \in BOOLEAN /\ conv.count \in Nat
  /\ conv.claim \in {"free", "held", "stale"} /\ conv.holder \in Turns \cup {NoTurn}
  /\ \A t \in Turns : turn[t].text \in {"none", "blank", "some"}
  /\ share.opened \subseteq 1..MaxLinks /\ share.live \in 0..share.minted
  /\ chattable \in BOOLEAN /\ deaths \in 0..MaxDeaths

Init ==
  /\ conv = [there |-> TRUE, claim |-> "free", holder |-> NoTurn, count |-> 0, messages |-> <<>>]
  /\ turn = [t \in Turns |-> [at |-> "idle", q |-> "", last |-> <<>>, text |-> "none"]]
  /\ share = [live |-> 1, minted |-> 1, opened |-> {1}]
  /\ chattable = TRUE
  /\ deaths = 0

At(t, place) == turn' = [turn EXCEPT ![t].at = place]
Freed(c) == [c EXCEPT !.claim = "free", !.holder = NoTurn]
Written(c, m) == [c EXCEPT !.messages = Append(@, m), !.count = @ + 1]

----------------------------------------------------------------------------
(* send_message: a check, an await, a check ...                            *)

Ask(t, q) ==
  /\ turn[t].at = "idle"
  /\ conv.there
  /\ Readable
  /\ turn' = [turn EXCEPT ![t].at = "read", ![t].q = q]
  /\ UNCHANGED <<conv, share, chattable, deaths>>

CheckReadiness(t) ==
  /\ turn[t].at = "read"
  /\ At(t, IF chattable THEN "ready" ELSE "idle")
  /\ UNCHANGED <<conv, share, chattable, deaths>>

\* Mutant. A claim that is not conditional.
claim_stream_always(t) ==
  /\ turn[t].at = "ready"
  /\ conv' = IF conv.there THEN [conv EXCEPT !.claim = "held", !.holder = t] ELSE conv
  /\ At(t, "claimed")
  /\ UNCHANGED <<share, chattable, deaths>>

claim_stream(t) ==
  /\ turn[t].at = "ready"
  /\ IF conv.there /\ Claimable
     THEN /\ conv' = [conv EXCEPT !.claim = "held", !.holder = t]
          /\ At(t, "claimed")
     ELSE /\ At(t, "idle")
          /\ UNCHANGED conv
  /\ UNCHANGED <<share, chattable, deaths>>

\* Of the history a turn reads, what decides its next step is the last message.
recent_history(t) ==
  /\ turn[t].at = "claimed"
  /\ turn' = [turn EXCEPT ![t].at = "knows",
                          ![t].last = IF conv.messages = <<>> THEN <<>>
                                      ELSE <<conv.messages[Len(conv.messages)]>>]
  /\ UNCHANGED <<conv, share, chattable, deaths>>

\* Mutant. The reuse test looks at the role and forgets to compare the text.
OrphanedByRole(t) == turn[t].last # <<>> /\ turn[t].last[1].role = "user"

\* A question whose stream died before any token is reused, never stored twice.
Orphaned(t) ==
  /\ turn[t].last # <<>>
  /\ turn[t].last[1].role = "user"
  /\ turn[t].last[1].text = turn[t].q

StoreQuestion(t) ==
  /\ turn[t].at = "knows"
  /\ IF Orphaned(t) THEN At(t, "streaming") /\ UNCHANGED conv
     ELSE IF conv.there
          THEN /\ conv' = Written(conv, Message("user", turn[t].q, t, FALSE))
               /\ At(t, "streaming")
          ELSE At(t, "over") /\ UNCHANGED conv    \* no row to insert under
  /\ UNCHANGED <<share, chattable, deaths>>

\* A database error after the claim gives the slot back, whoever holds it now.
StoreFails(t) ==
  /\ turn[t].at \in {"claimed", "knows"}
  /\ deaths < MaxDeaths
  /\ conv' = Freed(conv)
  /\ At(t, "over")
  /\ deaths' = deaths + 1
  /\ UNCHANGED <<share, chattable>>

----------------------------------------------------------------------------
(* The stream.                                                             *)

\* Blank text is whitespace: it is sent and kept like any other token.
Token(t, kind) ==
  /\ turn[t].at = "streaming"
  /\ turn[t].text # "some" /\ turn[t].text # kind
  /\ turn' = [turn EXCEPT ![t].text = kind]
  /\ UNCHANGED <<conv, share, chattable, deaths>>

\* One transaction: the answer, if any text came, and the slot.
finish_stream(t, cut) ==
  conv' = IF ~conv.there THEN conv
          ELSE IF turn[t].text = "none" THEN Freed(conv)
          ELSE Freed(Written(conv, Message("assistant", turn[t].text, t, cut)))

\* The model stops: an answer without text is an error, a truncated one is cut.
Ends(t) ==
  /\ turn[t].at = "streaming"
  /\ \E truncated \in BOOLEAN : finish_stream(t, truncated \/ turn[t].text # "some")
  /\ At(t, "over")
  /\ UNCHANGED <<share, chattable, deaths>>

\* Retrieval or composition raises, or the reader goes away: the shielded write.
Breaks(t) ==
  /\ turn[t].at = "streaming"
  /\ finish_stream(t, TRUE)
  /\ At(t, "over")
  /\ UNCHANGED <<share, chattable, deaths>>

\* The process dies, the response never starts, or the last write fails: it is
\* never tried again (`finalized` is set before it), and the slot stays taken.
Dies(t) ==
  /\ Running(t)
  /\ deaths < MaxDeaths
  /\ At(t, "over")
  /\ deaths' = deaths + 1
  /\ UNCHANGED <<conv, share, chattable>>

\* STREAM_CLAIM_STALE_MINUTES pass.
ClaimGoesStale ==
  /\ conv.there
  /\ conv.claim = "held"
  /\ SlowStreams \/ ~Running(conv.holder)
  /\ conv' = [conv EXCEPT !.claim = "stale"]
  /\ UNCHANGED <<turn, share, chattable, deaths>>

\* delete, here or by the cascade of the expert's; the messages go with the row.
DeleteConversation ==
  /\ conv.there
  /\ conv' = [Freed(conv) EXCEPT !.there = FALSE, !.count = 0, !.messages = <<>>]
  /\ UNCHANGED <<turn, share, chattable, deaths>>

----------------------------------------------------------------------------
(* The owner's link, the viewer's grant, and the expert's readiness.       *)

Fresh == [share EXCEPT !.live = share.minted + 1, !.minted = @ + 1]

\* Mutant. Enabling the link again revives the last one instead of minting.
enable_last ==
  /\ share.live = 0
  /\ share.minted < MaxLinks
  /\ share' = [share EXCEPT !.live = share.minted]
  /\ UNCHANGED <<conv, turn, chattable, deaths>>

enable ==
  /\ share.live = 0
  /\ share.minted < MaxLinks
  /\ share' = Fresh
  /\ UNCHANGED <<conv, turn, chattable, deaths>>

reset ==
  /\ share.minted < MaxLinks
  /\ share' = Fresh
  /\ UNCHANGED <<conv, turn, chattable, deaths>>

disable ==
  /\ share.live # 0
  /\ share' = [share EXCEPT !.live = 0]
  /\ UNCHANGED <<conv, turn, chattable, deaths>>

\* The viewer opens the link that is live now.
grant ==
  /\ share.live # 0 /\ ~Readable
  /\ share' = [share EXCEPT !.opened = @ \cup {share.live}]
  /\ UNCHANGED <<conv, turn, chattable, deaths>>

\* "Remove from my experts": every grant on this expert goes, live or revoked.
remove_access ==
  /\ Readable
  /\ share' = [share EXCEPT !.opened = {}]
  /\ UNCHANGED <<conv, turn, chattable, deaths>>

\* A rebuild takes the corpus away, or a finished one brings it.
ReadinessChanges ==
  /\ \E t \in Turns : turn[t].at = "read"
  /\ chattable' = ~chattable
  /\ UNCHANGED <<conv, turn, share, deaths>>

Step(t) ==
  \/ \E q \in Questions : Ask(t, q)
  \/ CheckReadiness(t)
  \/ claim_stream(t)
  \/ recent_history(t)
  \/ StoreQuestion(t)
  \/ StoreFails(t)
  \/ \E kind \in {"blank", "some"} : Token(t, kind)
  \/ Ends(t)
  \/ Breaks(t)
  \/ Dies(t)

Next ==
  \/ \E t \in Turns : Step(t)
  \/ ClaimGoesStale
  \/ DeleteConversation
  \/ enable \/ reset \/ disable
  \/ grant \/ remove_access
  \/ ReadinessChanges

\* An admitted turn is a coroutine the event loop runs on, a stream ends (the
\* client library times a silent one out), and a clock runs.
Fairness ==
  /\ \A t \in Turns : WF_vars(recent_history(t) \/ StoreQuestion(t) \/ Ends(t))
  /\ WF_vars(ClaimGoesStale)

Spec == Init /\ [][Next]_vars /\ Fairness

----------------------------------------------------------------------------
\* claim_stream: "the one-streaming-answer-at-a-time slot".
OneAnswerAtATime == Cardinality({t \in Turns : Running(t)}) <= 1

\* An answer stands directly under the question it answers, although a dead
\* turn's question may be answered by another turn that asked the same.
AnswersUnderQuestions ==
  \A i \in 1..Len(conv.messages) :
    conv.messages[i].role = "assistant" =>
      /\ i > 1
      /\ conv.messages[i - 1].role = "user"
      /\ conv.messages[i - 1].text = turn[conv.messages[i].of].q

\* A retried question is not stored again under itself.
AskedOnce ==
  \A i \in 2..Len(conv.messages) :
    ~ /\ conv.messages[i].role = "user" /\ conv.messages[i - 1].role = "user"
      /\ conv.messages[i].text = conv.messages[i - 1].text

CountIsTrue == conv.count = Len(conv.messages)

\* What a reader of the transcript relies on, through every death and retry:
\* answers under their questions, no question twice, and the listed count.
TranscriptHolds == AnswersUnderQuestions /\ AskedOnce /\ CountIsTrue

\* routes/sharing.py, disable_share and reset_share: whoever lost the expert
\* reads it again only by opening the link that is live then.
RevokedStaysOut == [][(~Readable /\ Readable') => grant]_vars

\* claim_stream: a claim orphaned by a crash heals by itself, so that "a
\* conversation can never be locked out of new answers permanently".
SlotComesBack == (conv.there /\ ~Claimable) ~> (Claimable \/ ~conv.there)

\* chat/streaming.py, EmptyAnswerError: of an answer without a single token of
\* text "the caller persists nothing".
BlankIsNotStored ==
  \A i \in 1..Len(conv.messages) : conv.messages[i].text # "blank"

=============================================================================
