---------------------------- MODULE ProviderCalls ----------------------------
(* infrastructure/anthropic_batch.py and billing/metering.py: a stage's calls  *)
(* to the provider, through the Message Batches API or live, the meter that    *)
(* sees each answer go by, and the flushes that take what it saw to the        *)
(* database while the calls go on.                                             *)
EXTENDS Integers, Sequences, FiniteSets, SequencesExt, Functions

CONSTANTS Calls,            \* how many calls the stage makes
          Stages,           \* the billing stages an event may name
          Cap,              \* cap_usd (0: the meter carries none)
          MaxErrors,        \* bound on the provider's errors
          MaxBadFlushes,    \* bound on the flushes that fail
          TornFlushes       \* a flush may be cut off in its transaction, or
                            \* fail when it has committed

LiveAttempts == 3                                           \* _LIVE_ATTEMPTS
Price(mode) == IF mode = "batch" THEN 1 ELSE 2

Index == 1..Calls
Modes == {"batch", "live"}
Keys == Stages \X Modes             \* UsageKey; the model and provider are one
NoRows == [k \in Keys |-> 0]
PlusRows(a, b) == [k \in Keys |-> a[k] + b[k]]
CostOf(counts) == FoldFunction(+, 0, [k \in DOMAIN counts |-> counts[k] * Price(k[2])])

VARIABLES
    way,        \* "start", "batch", "retry", "live", "report", "done" or "cut"
    results,    \* per call: the number of the request it answers; 0, None
    set,        \* what the live run was given: the requests, by position
    asked,      \* the positions of `set' still being asked
    attempts,   \* per position: the attempts made
    answers,    \* per position: what came of it
    reported,   \* per call: what on_result was told of it, in order
    terminal,   \* ProviderStatus.terminal is set
    spending,   \* the meter: [stage, buckets, total, over_cap]
    flushing,   \* [drained: a flush's rows or NoRows, rows: build_usage_events,
                \*  closed: "open", "stopped" (the periodic flush) or "closed"]
    paid,       \* (history) <<call, mode>> -> answers paid for
    faults      \* [errors, flushes]

calls == <<way, results, set, asked, attempts, answers, reported, terminal>>
vars == <<way, results, set, asked, attempts, answers, reported, terminal,
          spending, flushing, paid, faults>>

Init ==
    /\ way = "start"
    /\ results = [i \in Index |-> 0]
    /\ set = <<>> /\ asked = {} /\ attempts = <<>> /\ answers = <<>>
    /\ reported = [i \in Index |-> <<>>]
    /\ terminal = FALSE
    /\ \E s \in Stages : spending = [stage |-> s, buckets |-> NoRows, total |-> 0,
                                     over_cap |-> FALSE]
    /\ flushing = [drained |-> NoRows, rows |-> NoRows, closed |-> "open"]
    /\ paid = [k \in Index \X Modes |-> 0]
    /\ faults = [errors |-> 0, flushes |-> 0]

-----------------------------------------------------------------------------
(* The meter: record_message, from the wrapper that saw the answer go by, and  *)
(* _accumulate.                                                                *)
Record(i, mode) ==
    LET total == spending.total + Price(mode)
    IN  /\ spending' = [spending EXCEPT !.buckets[<<spending.stage, mode>>] = @ + 1,
                                        !.total = total,
                                        !.over_cap = @ \/ (Cap > 0 /\ total >= Cap)]
        /\ paid' = [paid EXCEPT ![<<i, mode>>] = @ + 1]

(* observe_event: the builder's progress names the stage that spends.          *)
EnterStage(s) ==
    /\ flushing.closed = "open"
    /\ s # spending.stage
    /\ spending' = [spending EXCEPT !.stage = s]
    /\ UNCHANGED <<calls, flushing, paid, faults>>

-----------------------------------------------------------------------------
(* gather_claude_calls.  A build makes its calls live or in batches, and in    *)
(* batches only where there are enough of them (should_batch).                 *)
Err == /\ faults.errors < MaxErrors
       /\ faults' = [faults EXCEPT !.errors = @ + 1]

(* _run_live is begun with the requests of a sequence.                         *)
Live(requests, kind) ==
    /\ way' = kind
    /\ set' = requests
    /\ asked' = DOMAIN requests
    /\ attempts' = [k \in DOMAIN requests |-> 0]
    /\ answers' = [k \in DOMAIN requests |-> 0]

All == [i \in Index |-> i]

RunLive ==
    /\ way = "start"
    /\ Live(All, "live")
    /\ UNCHANGED <<results, reported, terminal, spending, flushing, paid, faults>>

SubmitBatch ==
    /\ way = "start"
    /\ way' = "batch"
    /\ UNCHANGED <<results, set, asked, attempts, answers, reported, terminal, spending,
                   flushing, paid, faults>>

(* The batch cannot be submitted, polled or read; or it is cancelled at its    *)
(* deadline and does not end, or its results break off: the whole set is run   *)
(* live, and what the batch had answered is not used.                          *)
BatchFails ==
    /\ way \in {"start", "batch"}
    /\ Err
    /\ Live(All, "live")
    /\ results' = [i \in Index |-> 0]
    /\ UNCHANGED <<reported, terminal, spending, flushing, paid>>

(* One succeeded entry of the ended batch's results, in any order.             *)
HarvestEntry(i) ==
    /\ way = "batch"
    /\ results[i] = 0
    /\ results' = [results EXCEPT ![i] = i]
    /\ Record(i, "batch")
    /\ UNCHANGED <<way, set, asked, attempts, answers, reported, terminal, flushing, faults>>

(* The results are read: what errored, expired or was cancelled is asked live. *)
BatchRead ==
    LET missing == SelectSeq(All, LAMBDA i : results[i] = 0)
    IN  /\ way = "batch"
        /\ IF missing = <<>> THEN UNCHANGED faults ELSE Err
        /\ Live(missing, IF missing = <<>> THEN "report" ELSE "retry")
        /\ UNCHANGED <<results, reported, terminal, spending, flushing, paid>>

-----------------------------------------------------------------------------
(* Mutant: the set's positions are taken for the callers'.                     *)
MergedByPosition == [i \in Index |-> IF i \in DOMAIN set THEN answers[i] ELSE results[i]]

(* What the live set came to, put in its place.                                *)
Merged == [i \in Index |-> IF \E k \in DOMAIN set : set[k] = i
                           THEN answers[CHOOSE k \in DOMAIN set : set[k] = i]
                           ELSE results[i]]

(* _run_live's `one': a live set tells of each call as it ends; a retried item *)
(* is told of with the rest, after the merge.                                  *)
Ends(k, msg) ==
    /\ asked' = asked \ {k}
    /\ answers' = [answers EXCEPT ![k] = msg]
    /\ reported' = IF way = "live" THEN [reported EXCEPT ![k] = Append(@, msg)] ELSE reported

Asking(k) == way \in {"live", "retry"} /\ k \in asked
Tried(k) == attempts' = [attempts EXCEPT ![k] = @ + 1]

Answered(k) ==
    /\ Asking(k) /\ Tried(k)
    /\ Ends(k, set[k])
    /\ Record(set[k], "live")
    /\ UNCHANGED <<way, results, set, terminal, flushing, faults>>

Errs(k) ==
    /\ Asking(k) /\ Tried(k)
    /\ Err
    /\ IF attempts[k] + 1 = LiveAttempts THEN Ends(k, 0)
       ELSE UNCHANGED <<asked, answers, reported>>
    /\ UNCHANGED <<way, results, set, terminal, spending, flushing, paid>>

(* is_terminal_provider_error: not retried, and kept for the build to report.  *)
Refused(k) ==
    /\ Asking(k) /\ Tried(k)
    /\ Err
    /\ terminal' = TRUE
    /\ Ends(k, 0)
    /\ UNCHANGED <<way, results, set, spending, flushing, paid>>

(* The set is through: its results are merged with the batch's, and on the     *)
(* batch's path told of all together.                                          *)
Gathered ==
    /\ way \in {"live", "retry", "report"}
    /\ asked = {}
    /\ results' = Merged
    /\ reported' = IF way = "live" THEN reported
                   ELSE [i \in Index |-> Append(reported[i], Merged[i])]
    /\ way' = "done"
    /\ UNCHANGED <<set, asked, attempts, answers, terminal, spending, flushing, paid, faults>>

-----------------------------------------------------------------------------
(* flush_once, by flush_periodically and, last, by aclose.                     *)
Drain ==
    /\ flushing.closed # "closed"
    /\ flushing.drained = NoRows
    /\ spending.buckets # NoRows
    /\ flushing' = [flushing EXCEPT !.drained = spending.buckets,
                                    !.closed = IF @ = "stopped" THEN "closed" ELSE @]
    /\ spending' = [spending EXCEPT !.buckets = NoRows]
    /\ UNCHANGED <<calls, paid, faults>>

Persisted ==
    /\ flushing.drained # NoRows
    /\ flushing' = [flushing EXCEPT !.rows = PlusRows(@, flushing.drained),
                                    !.drained = NoRows]
    /\ UNCHANGED <<calls, spending, paid, faults>>

(* Mutant: the rows that could not be written take the place of what has been  *)
(* recorded since they were drained.                                           *)
RestoredOver(buckets, drained) ==
    [k \in Keys |-> IF drained[k] > 0 THEN drained[k] ELSE buckets[k]]

Restored(buckets, drained) == PlusRows(buckets, drained)    \* restore

(* The transaction raises: the rows go back into the meter.                    *)
PersistFails ==
    /\ flushing.drained # NoRows
    /\ faults.flushes < MaxBadFlushes
    /\ faults' = [faults EXCEPT !.flushes = @ + 1]
    /\ spending' = [spending EXCEPT !.buckets = Restored(@, flushing.drained)]
    /\ \E written \in {NoRows} \cup IF TornFlushes THEN {flushing.drained} ELSE {} :
           flushing' = [flushing EXCEPT !.drained = NoRows, !.rows = PlusRows(@, written)]
    /\ UNCHANGED <<calls, paid>>

(* _Supervision.aclose stops what is left of the work, then the periodic       *)
(* flush: in its transaction, that rolls back with the rows it drained gone.   *)
Stop ==
    /\ flushing.closed = "open"
    /\ flushing.drained # NoRows => TornFlushes
    /\ flushing' = [flushing EXCEPT !.closed = "stopped", !.drained = NoRows]
    /\ way' = IF way = "done" THEN way ELSE "cut"
    /\ UNCHANGED <<results, set, asked, attempts, answers, reported, terminal, spending,
                   paid, faults>>

Next ==
    \/ \E s \in Stages : EnterStage(s)
    \/ RunLive \/ SubmitBatch \/ BatchFails \/ BatchRead \/ Gathered
    \/ \E i \in Index : HarvestEntry(i)
    \/ \E k \in Index : Answered(k) \/ Errs(k) \/ Refused(k)
    \/ Drain \/ Persisted \/ PersistFails \/ Stop

Spec == Init /\ [][Next]_vars

-----------------------------------------------------------------------------
(* The callers match results to inputs by position: each has its own answer or *)
(* none, was told of exactly once, and of that; and what is given up without   *)
(* the provider having refused it was tried three times.                       *)
AnswersComeBack ==
    way = "done" =>
        \A i \in Index :
            /\ results[i] \in {0, i}
            /\ reported[i] = <<results[i]>>
            /\ results[i] = 0 /\ ~terminal =>
                  \E k \in DOMAIN set : set[k] = i /\ attempts[k] = LiveAttempts

(* Everything paid for is in the database, in a flush, or in the meter: an     *)
(* answer that arrives as a flush is at work, or fails, is not lost and not    *)
(* counted twice; and the cap is held against all of it.                       *)
SpendIsKept ==
    LET known == PlusRows(flushing.rows, PlusRows(flushing.drained, spending.buckets))
    IN  /\ CostOf(known) = CostOf(paid)
        /\ spending.total = CostOf(paid)
        /\ spending.over_cap <=> Cap > 0 /\ CostOf(paid) >= Cap

(* No answer is paid for twice in one mode: at worst a call is paid for once   *)
(* in a batch whose results could not be read and once live.                   *)
PaidOnce == \A k \in DOMAIN paid : paid[k] <= 1

CallsAccounted == AnswersComeBack /\ SpendIsKept /\ PaidOnce
=============================================================================
