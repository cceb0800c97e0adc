------------------------------ MODULE Validation ------------------------------
(* sources/validator.py: fetched sources are judged in batches by a fast model *)
(* and, where the verdict is close or missing, one at a time by a careful one. *)
(* Answers come in any order, or not at all.                                   *)
EXTENDS Integers, Sequences, FiniteSets, SequencesExt, Functions, TLC

CONSTANTS Batches,          \* sequence of batches, each a sequence of sources
          Entries,          \* what an answer may say of one source (below)
          SecondOpinion     \* VALIDATE_SECOND_OPINION

PassQ == 5                          \* _PASS_THRESHOLD_Q
PassR == 6                          \* _PASS_THRESHOLD_R
InBand(x, low, high) == low <= x /\ x < high

Sources == FlattenSeq(Batches)
Nothing == [q |-> -1, r |-> -1]

(* An entry of an answer is [q, r, whole]: scores for one source, and whether  *)
(* the fields the build reads of a source it keeps are there (a model may leave*)
(* them out).  Or it is something that is not an object.                       *)
NotAnObject == [q |-> -1, r |-> -1, whole |-> FALSE]

Missing == [q |-> 0, r |-> 0, whole |-> TRUE, reason |-> "missing validation"]
Unjudged == [q |-> 0, r |-> 0, whole |-> TRUE, reason |-> "validation error"]

(* _parse_validate_response: an entry is taken for the source at its place; a  *)
(* short answer is filled up and a long one cut.                               *)
Parse(answer, size) ==
    [i \in 1..size |->
        IF i <= Len(answer.entries) /\ answer.entries[i] # NotAnObject
        THEN [q |-> answer.entries[i].q, r |-> answer.entries[i].r,
              whole |-> answer.entries[i].whole, reason |-> "model"]
        ELSE Missing]

(* _finalise *)
Drops(v) == v.q < PassQ \/ v.r < PassR
Finalise(v, model) ==
    [q |-> v.q, r |-> v.r, whole |-> v.whole, reason |-> v.reason,
     drop |-> Drops(v), model |-> model, first |-> Nothing]

needs_second_opinion(v) ==
    \/ v.reason \in {"validation error", "missing validation"}
    \/ InBand(v.q, PassQ - 1, PassQ + 1)
    \/ InBand(v.r, PassR - 1, PassR + 1)

VARIABLES
    phase,      \* "batches", "reviews", "judged" or "lost" (an exception)
    asked,      \* the calls still out: batch numbers, then sources
    verdicts,   \* all_pairs: source -> its verdict
    reviews,    \* source -> the reviewer's verdict
    told,       \* source -> did the last progress event say it passed
    answers     \* (history) source -> what the reviewer's call came to

vars == <<phase, asked, verdicts, reviews, told, answers>>

Init ==
    /\ phase = "batches"
    /\ asked = DOMAIN Batches
    /\ verdicts = <<>>
    /\ reviews = <<>>
    /\ told = <<>>
    /\ answers = <<>>

Put(f, new) == [s \in DOMAIN f \cup DOMAIN new |->
                   IF s \in DOMAIN new THEN new[s] ELSE f[s]]

(* What a call may bring: an answer of any length, or none that can be read    *)
(* (no response after the retries, or one that raises when it is parsed).      *)
Unreadable == [read |-> FALSE, entries |-> <<>>]
AnswersFor(size) ==
    {Unreadable} \cup
    [read : {TRUE}, entries : UNION {[1..n -> Entries \cup {NotAnObject}] : n \in 0..size}]

(* _on_batch_result *)
BatchAnswered(b, answer) ==
    LET batch == Batches[b]
        raw == IF answer = Unreadable THEN [i \in DOMAIN batch |-> Unjudged]
               ELSE Parse(answer, Len(batch))
        Judged(s) == Finalise(raw[CHOOSE i \in DOMAIN batch : batch[i] = s], "fast")
    IN  /\ phase = "batches"
        /\ b \in asked
        /\ asked' = asked \ {b}
        /\ verdicts' = Put(verdicts, [s \in Range(batch) |-> Judged(s)])
        /\ told' = Put(told, [s \in Range(batch) |-> ~Judged(s).drop])
        /\ UNCHANGED <<phase, reviews, answers>>

(* gather_claude_calls has returned: _second_opinion asks again about the      *)
(* verdicts that are close or missing.                                         *)
AskAgain ==
    /\ phase = "batches"
    /\ asked = {}
    /\ phase' = "reviews"
    /\ asked' = IF SecondOpinion
                THEN {s \in DOMAIN verdicts : needs_second_opinion(verdicts[s])}
                ELSE {}
    /\ UNCHANGED <<verdicts, reviews, told, answers>>

(* _on_review *)
ReviewAnswered(s, answer) ==
    /\ phase = "reviews"
    /\ s \in asked
    /\ asked' = asked \ {s}
    /\ reviews' = IF answer = Unreadable THEN reviews
                  ELSE Put(reviews, (s :> Finalise(Parse(answer, 1)[1], "careful")))
    /\ answers' = Put(answers, (s :> answer))
    /\ UNCHANGED <<phase, verdicts, told>>

(* The verdict that stands, with the first pass's scores beside it.            *)
Standing(s) ==
    LET first == verdicts[s]
        scores == IF first.reason = "validation error" THEN Nothing
                  ELSE [q |-> first.q, r |-> first.r]
    IN  IF s \in DOMAIN reviews THEN [reviews[s] EXCEPT !.first = scores] ELSE first

Reversed(s) ==
    /\ s \in DOMAIN reviews
    /\ verdicts[s].reason # "validation error"
    /\ verdicts[s].drop # reviews[s].drop

(* The end of validate_sources: it reads the fields of every source it keeps.  *)
Finish ==
    LET standing == [s \in DOMAIN verdicts |-> Standing(s)]
    IN  /\ phase = "reviews"
        /\ asked = {}
        /\ verdicts' = standing
        /\ told' = Put(told, [s \in DOMAIN reviews |-> ~reviews[s].drop])
        /\ phase' = IF \E s \in DOMAIN standing : ~standing[s].drop /\ ~standing[s].whole
                    THEN "lost" ELSE "judged"
        /\ UNCHANGED <<asked, reviews, answers>>

Next ==
    \/ \E b \in DOMAIN Batches : \E answer \in AnswersFor(Len(Batches[b])) :
           BatchAnswered(b, answer)
    \/ AskAgain
    \/ \E s \in Range(Sources) : \E answer \in AnswersFor(1) : ReviewAnswered(s, answer)
    \/ Finish

Spec == Init /\ [][Next]_vars

Kept == SelectSeq(Sources, LAMBDA s : ~verdicts[s].drop)
Dropped == SelectSeq(Sources, LAMBDA s : verdicts[s].drop)

-----------------------------------------------------------------------------
Over == phase = "judged"

(* Every source ends kept or dropped, and the reader's last progress event     *)
(* about it says which (validate_sources' two callbacks).                      *)
ToldTheTruth ==
    Over => /\ DOMAIN verdicts = Range(Sources)
            /\ \A s \in DOMAIN verdicts : told[s] = ~verdicts[s].drop

(* With a second opinion, a provider failure costs a source its place only if  *)
(* it happens twice: to its batch and to its own call (validator.py 22-26).    *)
OneFailureIsForgiven ==
    Over /\ SecondOpinion =>
        \A s \in DOMAIN verdicts :
            verdicts[s].reason = "validation error" => answers[s] = Unreadable

(* A clear verdict stands: only what was close or missing changes, and what    *)
(* the record calls the careful model's verdict is that model's.               *)
ClearVerdictsStand ==
    Over => \A s \in DOMAIN verdicts :
               /\ verdicts[s].model = "careful" <=> s \in DOMAIN reviews
               /\ verdicts[s].first # Nothing =>
                     LET f == verdicts[s].first
                     IN  \/ InBand(f.q, PassQ - 1, PassQ + 1)
                         \/ InBand(f.r, PassR - 1, PassR + 1)
                         \/ f.q = 0 /\ f.r = 0

VerdictsStand == ToldTheTruth /\ OneFailureIsForgiven /\ ClearVerdictsStand

(* What the docstring of _parse_validate_response says: a source is "re-asked  *)
(* properly instead of being dropped for the model's formatting".              *)
FormattingNeverDrops ==
    Over => \A s \in DOMAIN verdicts : verdicts[s].reason # "missing validation"

(* What the docstring of _coerce_score says: "a malformed field drops one      *)
(* source instead of losing the whole run".                                    *)
NoFieldLosesTheRound == phase # "lost"
=============================================================================
