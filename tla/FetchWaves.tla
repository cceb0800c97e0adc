------------------------------ MODULE FetchWaves ------------------------------
(* The fetch stage of one discovery round: _fetch_with_refill of               *)
(* experts/builder.py under the rules of experts/build/policy.py.  A ranked    *)
(* list of candidates is worked down in concurrent waves, against a number of  *)
(* sources, an amount of money, a share of each source type, a score floor and *)
(* the share of the money that may be spent on prioritised candidates.         *)
EXTENDS Integers, Sequences, FiniteSets, Functions

CONSTANTS
    Candidate,      \* the candidates of a round
    Type,           \* source types
    Concurrency,    \* _FETCH_CONCURRENCY, the fetches of one wave
    MaxCost,        \* bound: the dearest ingest of one fetched source
    Rounds          \* the rounds a behaviour may start with

Outcome == {"fetched", "failed", "capped", "below_floor", "budget", "not_reached", "not_english"}
NoOutcome == "none"

(* What _fetch_with_refill is called with.  "low" is a score under the floor,  *)
(* "tally" the types' counts that earlier rounds left, "usd" zero no limit.    *)
RoundArgs ==
    [ queue    : Seq(Candidate),
      priority : [Candidate -> BOOLEAN],  must : [Candidate -> BOOLEAN],
      low      : [Candidate -> BOOLEAN],  type : [Candidate -> Type],
      reserve  : [Candidate -> Nat \ {0}],
      cap      : [Type -> Nat],           tally : [Type -> Nat],
      budget   : Nat,                     usd  : Nat ]

(* A candidate is in the queue once.                                           *)
RoundOK(r) == r \in RoundArgs /\ IsInjective(r.queue)

ASSUME ConcurrencyAssumption == Concurrency \in Nat \ {0}
ASSUME MaxCostAssumption == MaxCost \in Nat \ {0}
ASSUME CandidatesAssumption == IsFiniteSet(Candidate)
ASSUME RoundsAssumption == \A r \in Rounds : RoundOK(r)

VARIABLES
    round,          \* the arguments of the call
    pc,             \* "wave", "admit", "settle", "tail" or "done"
    idx,            \* the next position of the queue to look at
    wave,           \* candidates admitted to the wave, in order, still to settle
    results,        \* candidates whose source was kept, in order
    counts,         \* sources held by each type, shared with later rounds
    committed,      \* estimated ingest cost of the results
    held,           \* priority_committed: priority reservations and costs
    reserved,       \* the reservation of each candidate in flight, or 0
    record,         \* the screening ledger's outcome of each candidate
    stopped         \* stopped_on_money

vars == <<round, pc, idx, wave, results, counts, committed, held, reserved, record, stopped>>

-----------------------------------------------------------------------------
Limited == round.usd > 0

(* _is_priority: a marked candidate counts as one until half the round's money *)
(* is held by marked ones.                                                     *)
IsPriority(c) == round.priority[c] /\ (~Limited \/ 2 * held < round.usd)

BelowFloor(c) == round.low[c] /\ ~IsPriority(c)

(* Mutant: what priority candidates cost is not taken from the round's money.  *)
OutOfMoneyHeld == Limited /\ committed - held >= round.usd

OutOfMoney == Limited /\ committed >= round.usd

QueueLeft == idx <= Len(round.queue)

Begin(r) ==
    /\ round = r
    /\ pc = "wave" /\ idx = 1 /\ wave = <<>> /\ results = <<>>
    /\ counts = r.tally
    /\ committed = 0 /\ held = 0
    /\ reserved = [c \in Candidate |-> 0]
    /\ record = [c \in Candidate |-> NoOutcome]
    /\ stopped = FALSE

Init == \E r \in Rounds : Begin(r)

(* The same, as a step: the call of a later round.                             *)
StartRound(r) ==
    /\ round' = r
    /\ pc' = "wave" /\ idx' = 1 /\ wave' = <<>> /\ results' = <<>>
    /\ counts' = r.tally
    /\ committed' = 0 /\ held' = 0
    /\ reserved' = [c \in Candidate |-> 0]
    /\ record' = [c \in Candidate |-> NoOutcome]
    /\ stopped' = FALSE

-----------------------------------------------------------------------------
(* Between waves: the count and the queue first, then the money.               *)
StopFetching ==
    /\ pc = "wave"
    /\ Len(results) >= round.budget \/ ~QueueLeft \/ OutOfMoney
    /\ stopped' = (Len(results) < round.budget /\ QueueLeft)
    /\ pc' = "tail"
    /\ UNCHANGED <<round, idx, wave, results, counts, committed, held, reserved, record>>

OpenWave ==
    /\ pc = "wave"
    /\ Len(results) < round.budget /\ QueueLeft /\ ~OutOfMoney
    /\ pc' = "admit"
    /\ UNCHANGED <<round, idx, wave, results, counts, committed, held, reserved, record, stopped>>

RoomInWave == Len(wave) < Concurrency /\ Len(wave) < round.budget - Len(results)

(* Mutant: a turn that leaves the position in the queue.                       *)
ConsiderAgain(c) ==
    /\ pc = "admit" /\ QueueLeft /\ RoomInWave
    /\ c = round.queue[idx]
    /\ UNCHANGED <<round, pc, idx, results, committed, stopped>>

(* One turn of the admission loop, on the candidate at the front of the queue. *)
Consider(c) ==
    /\ pc = "admit" /\ QueueLeft /\ RoomInWave
    /\ c = round.queue[idx]
    /\ idx' = idx + 1
    /\ UNCHANGED <<round, pc, results, committed, stopped>>

SkipLow(c) ==
    /\ Consider(c)
    /\ BelowFloor(c)
    /\ record' = [record EXCEPT ![c] = "below_floor"]
    /\ UNCHANGED <<wave, counts, held, reserved>>

(* A must-have work takes no place in its type's share, and needs none.        *)
Takes(c) == IF round.must[c] THEN 0 ELSE 1

TypeFull(c) == ~round.must[c] /\ counts[round.type[c]] >= round.cap[round.type[c]]

SkipCapped(c) ==
    /\ Consider(c)
    /\ ~BelowFloor(c) /\ TypeFull(c)
    /\ record' = [record EXCEPT ![c] = "capped"]
    /\ UNCHANGED <<wave, counts, held, reserved>>

Admit(c) ==
    /\ Consider(c)
    /\ ~BelowFloor(c) /\ ~TypeFull(c)
    /\ counts' = [counts EXCEPT ![round.type[c]] = @ + Takes(c)]
    /\ reserved' = [reserved EXCEPT ![c] = IF IsPriority(c) THEN round.reserve[c] ELSE 0]
    /\ held' = held + reserved'[c]
    /\ record' = [record EXCEPT ![c] = "not_reached"]
    /\ wave' = Append(wave, c)

(* The wave is full, or the queue has run out; an empty wave ends the stage.   *)
Launch ==
    /\ pc = "admit" /\ ~(QueueLeft /\ RoomInWave)
    /\ pc' = IF wave = <<>> THEN "tail" ELSE "settle"
    /\ UNCHANGED <<round, idx, wave, results, counts, committed, held, reserved, record, stopped>>

-----------------------------------------------------------------------------
(* What the gathered fetches brought, taken in the wave's order.               *)
Settle(c) ==
    /\ pc = "settle" /\ wave # <<>>
    /\ c = Head(wave)
    /\ wave' = Tail(wave)
    /\ pc' = IF Tail(wave) = <<>> THEN "wave" ELSE "settle"
    /\ reserved' = [reserved EXCEPT ![c] = 0]
    /\ UNCHANGED <<round, idx, stopped>>

(* Mutant: a failed fetch keeps its place in the tally.                        *)
LoseKeepingPlace(c, why) ==
    /\ Settle(c)
    /\ held' = held - reserved[c]
    /\ record' = [record EXCEPT ![c] = why]
    /\ UNCHANGED <<results, committed, counts>>

(* Nothing came back ("failed") or its text is in another language.            *)
Lose(c, why) ==
    /\ Settle(c)
    /\ counts' = [counts EXCEPT ![round.type[c]] = @ - Takes(c)]
    /\ held' = held - reserved[c]
    /\ record' = [record EXCEPT ![c] = why]
    /\ UNCHANGED <<results, committed>>

Keep(c, cost) ==
    /\ Settle(c)
    /\ results' = Append(results, c)
    /\ committed' = committed + cost
    /\ held' = held - reserved[c] + IF reserved[c] > 0 THEN cost ELSE 0
    /\ record' = [record EXCEPT ![c] = "fetched"]
    /\ UNCHANGED counts

(* The rest of the queue is written down with why nobody looked at it.         *)
CloseLedger ==
    /\ pc = "tail"
    /\ record' = [c \in Candidate |->
          IF \E i \in idx..Len(round.queue) : round.queue[i] = c
          THEN IF BelowFloor(c) THEN "below_floor"
               ELSE IF stopped THEN "budget" ELSE "not_reached"
          ELSE record[c]]
    /\ pc' = "done"
    /\ UNCHANGED <<round, idx, wave, results, counts, committed, held, reserved, stopped>>

FetchStep ==
    \/ StopFetching \/ OpenWave \/ Launch \/ CloseLedger
    \/ \E c \in Candidate : SkipLow(c) \/ SkipCapped(c) \/ Admit(c)
    \/ \E c \in Candidate, why \in {"failed", "not_english"} : Lose(c, why)
    \/ \E c \in Candidate, cost \in 1..MaxCost : Keep(c, cost)

FetchSpec == Init /\ [][FetchStep]_vars

-----------------------------------------------------------------------------
TypeOK ==
    /\ RoundOK(round)
    /\ pc \in {"wave", "admit", "settle", "tail", "done"}
    /\ idx \in 1..Len(round.queue) + 1
    /\ wave \in Seq(Candidate) /\ results \in Seq(Candidate)
    /\ counts \in [Type -> Int]
    /\ committed \in Nat /\ held \in Int
    /\ reserved \in [Candidate -> Nat]
    /\ record \in [Candidate -> Outcome \cup {NoOutcome}]
    /\ stopped \in BOOLEAN

(* A round keeps no more sources than its budget, whatever fails on the way:   *)
(* a wave is never wider than what is left ("min(_FETCH_CONCURRENCY, ...)").   *)
WithinCount == Len(results) + Len(wave) <= round.budget

(* The estimated money is exceeded by one wave at most: it is looked at only   *)
(* between waves, and everything a wave brought is paid for.                   *)
OneWaveOver ==
    Limited => committed + MaxCost * Len(wave) <= round.usd - 1 + Concurrency * MaxCost

HeldByType(t) ==
    {c \in Candidate : round.type[c] = t /\ ~round.must[c] /\ record[c] = "fetched"}

(* What a round hands on as its types' tally is what it found plus what it     *)
(* kept: a failed fetch gives its place back, a must-have never takes one, and *)
(* no type passes its cap unless it was past it before.                        *)
TallyIsTrue ==
    pc = "done" =>
      \A t \in Type :
        /\ counts[t] = round.tally[t] + Cardinality(HeldByType(t))
        /\ counts[t] <= round.cap[t] \/ counts[t] = round.tally[t]

(* The ledger tells what became of every candidate of the queue: "fetched" are *)
(* exactly the sources the round goes on with, nothing is left unexplained,    *)
(* and the money is blamed only if it ran out with room left for sources.      *)
LedgerIsTrue ==
    pc = "done" =>
      /\ \A c \in Candidate : record[c] = "fetched" <=> c \in Range(results)
      /\ \A c \in Range(round.queue) : record[c] # NoOutcome
      /\ (\E c \in Candidate : record[c] = "budget") =>
            OutOfMoney /\ Len(results) < round.budget

-----------------------------------------------------------------------------
(* What the invariants rest on.  The wave is what the ledger provisionally     *)
(* calls "not_reached"; nothing is in flight between waves.                    *)
WaveShape ==
    /\ pc \in {"wave", "tail", "done"} => wave = <<>>
    /\ pc = "settle" => wave # <<>>
    /\ \A i, j \in 1..Len(wave) : wave[i] = wave[j] => i = j
    /\ pc # "done" =>
         \A c \in Candidate : record[c] = "not_reached" <=> \E i \in 1..Len(wave) : wave[i] = c

(* A wave opens under the limit and is no wider than the concurrency.          *)
MoneyShape ==
    Limited => /\ pc = "admit" => committed <= round.usd - 1 /\ Len(wave) <= Concurrency
               /\ pc # "admit" =>
                    committed + MaxCost * Len(wave) <= round.usd - 1 + Concurrency * MaxCost

(* The ledger and the position in the queue tell the same story.               *)
QueueShape ==
    /\ pc # "done" =>
         /\ \A i \in 1..Len(round.queue) : record[round.queue[i]] = NoOutcome <=> i >= idx
         /\ \A c \in Candidate : record[c] # "budget"
    /\ stopped => pc \in {"tail", "done"} /\ OutOfMoney /\ Len(results) < round.budget
    /\ \A c \in Candidate : record[c] = "fetched" <=> \E i \in 1..Len(results) : results[i] = c

(* The tally counts the sources kept and those in flight.                      *)
Counted(t) ==
    {c \in Candidate : /\ round.type[c] = t /\ ~round.must[c]
                       /\ record[c] \in {"fetched", "not_reached"}}

CountShape ==
    /\ pc # "done" => \A t \in Type : counts[t] = round.tally[t] + Cardinality(Counted(t))
    /\ \A t \in Type : counts[t] <= round.cap[t] \/ counts[t] <= round.tally[t]

IInv == /\ TypeOK /\ WaveShape /\ MoneyShape /\ QueueShape /\ CountShape
        /\ WithinCount /\ TallyIsTrue /\ LedgerIsTrue
==============================================================================
