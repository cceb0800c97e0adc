------------------------------- MODULE Discovery -------------------------------
(* The discovery loop of a build: _run_discovery and _discovery_round of       *)
(* experts/builder.py.  A round searches its channels, merges the hits, has    *)
(* them scored, fetches the best of them in waves (FetchWaves), drops copies   *)
(* of one text, has the rest validated, and decides whether to go round again. *)
EXTENDS FetchWaves, Dedup, Triage

CONSTANTS
    Record,                 \* what a search knows of a candidate, and a fetch finds
    Channel, LoopChannel,   \* the fetchers, and _LOOP_FETCHERS among them
    Hits,                   \* what each channel answers, when it does
    Canonical,              \* candidates the resolver finds for the plan's works
    Snowball,               \* candidates the citations of accepted sources lead to
    Boosted,                \* must-have works
    TypeCap, BaseBudget, BudgetUsd, MinRounds, MaxRounds,
    FetchFloor, RelaxedFloor, RelaxMin, AcceptanceMinSample,
    Scores,                 \* bound: what the model may answer about a candidate
    Answers,                \* bound: how a channel may answer
    LiveCost                \* bound: what a round's model calls may cost

(* Money is counted in units small enough for the first round's share of it.   *)
ASSUME LoopAssumption ==
    /\ MinRounds \in Nat /\ MaxRounds \in Nat /\ MinRounds <= MaxRounds
    /\ BudgetUsd \in Nat /\ (65 * BudgetUsd) \div 100 > 0 /\ LiveCost \subseteq Nat
    /\ BaseBudget \in Nat \ {0}

(* Every hit has an address: all fetchers make it of what they fetch by.       *)
ASSUME SearchAssumption ==
    /\ IsFiniteSet(Channel) /\ LoopChannel \subseteq Channel
    /\ Hits \in [Channel -> Seq(Candidate)]
    /\ Canonical \in Seq(Candidate) /\ Snowball \in Seq(Candidate)
    /\ TypeCap \in [Type -> Nat] /\ Scores \subseteq Int

ASSUME RecordAssumption ==
    \A c \in Candidate :
      LET r == Record[c]
      IN  /\ {"id", "url", "fetcher", "prior", "cost", "stamps"} \subseteq DOMAIN r
          /\ r.id = c /\ r.type \in Type /\ r.url # 0
          /\ r.fetcher \in Nat /\ r.prior \in Int /\ r.cost \in Nat \ {0}
          /\ r.stamps.rank \in Int /\ r.stamps.ceiling \in Nat
          /\ r.text.price \in 1..MaxCost /\ r.text.print \in Int /\ r.text.length \in Nat

VARIABLES
    stage,          \* what the loop does next
    n,              \* the round
    reason,         \* stop_reason
    channel,        \* the last status of each channel (_fetcher_status)
    asked, retried, \* the channels of this round, and those searched twice
    extras,         \* the round's canonical and snowball candidates
    seen,           \* the SeenSet
    rankedUrls,     \* _ranked_urls
    pool, triaged,  \* the round's hits without duplicates, and with their scores
    raw,            \* fetched sources that are not copies of another
    passed, dropped,        \* what validation made of them, over all rounds
    committedUsd, remaining, spentUsd

control   == <<stage, n, reason>>
searching == <<channel, asked, retried, extras>>
screening == <<seen, rankedUrls, pool, triaged, raw>>
corpus    == <<passed, dropped, committedUsd, remaining, spentUsd>>
allVars   == <<vars, control, searching, screening, corpus>>

Idle == [queue |-> <<>>, priority |-> [c \in Candidate |-> FALSE],
         must |-> [c \in Candidate |-> FALSE], low |-> [c \in Candidate |-> FALSE],
         type |-> [c \in Candidate |-> Record[c].type], reserve |-> [c \in Candidate |-> 1],
         cap |-> TypeCap, tally |-> [t \in Type |-> 0], budget |-> 0, usd |-> 0]

DiscoveryInit ==
    /\ Begin(Idle)
    /\ stage = "plan" /\ n = 0
    /\ reason = IF MaxRounds = 0 THEN "loop_disabled" ELSE "max_rounds"
    /\ channel = [ch \in Channel |-> "unasked"]
    /\ asked = {} /\ retried = {} /\ extras = <<>>
    /\ seen = NothingSeen /\ rankedUrls = {} /\ pool = <<>> /\ triaged = <<>> /\ raw = {}
    /\ passed = {} /\ dropped = {}
    /\ committedUsd = 0 /\ remaining = BaseBudget /\ spentUsd = 0

Stop(why) == stage' = "stopped" /\ reason' = why

-----------------------------------------------------------------------------
Transient == {"timeout", "rate_limited"}

(* Round 0 asks every channel; later rounds those meant for the loop and those *)
(* whose last search failed.                                                   *)
LoopFetchers ==
    IF n = 0 THEN Channel
    ELSE LoopChannel \cup {ch \in Channel : channel[ch] \in Transient \cup {"error"}}

(* _retry_canonical: works whose route failed, or whose hits triage dropped.   *)
LookAgain ==
    Places(Canonical, {i \in DOMAIN Canonical : /\ Record[Canonical[i]].url \notin rankedUrls
                                                /\ Canonical[i] \notin passed})

(* The round's queries and its candidates from elsewhere.  A resolver or a     *)
(* snowball that fails adds nothing; with neither the loop ends.               *)
PlanRound(chs, found) ==
    /\ stage = "plan"
    /\ asked' = chs /\ extras' = found /\ retried' = {}
    /\ IF chs = {} /\ found = <<>> THEN Stop("no_new_candidates")
       ELSE stage' = "search" /\ UNCHANGED reason
    /\ UNCHANGED <<vars, n, channel, screening, corpus>>

Plan ==
    IF n = 0 THEN \E found \in {<<>>, Canonical} : PlanRound(LoopFetchers, found)
    ELSE \E chs \in {{}, LoopFetchers}, again \in {<<>>, LookAgain}, cited \in {<<>>, Snowball} :
            PlanRound(chs, cited \o (IF n = 1 THEN again ELSE <<>>))

(* _search_one, gathered over the channels: a status and its hits for each.    *)
Search(answer) ==
    /\ stage = "search"
    /\ channel' = [ch \in Channel |-> IF ch \in asked THEN answer[ch] ELSE channel[ch]]
    /\ stage' = "pool"
    /\ UNCHANGED <<vars, n, reason, asked, retried, extras, screening, corpus>>

Unanswered == {ch \in asked \ retried : channel[ch] \in Transient}

(* One more try for a channel that timed out or was rate-limited, one at a     *)
(* time.                                                                       *)
RetryChannel(ch, status) ==
    /\ stage = "pool" /\ ch \in Unanswered
    /\ channel' = [channel EXCEPT ![ch] = status]
    /\ retried' = retried \cup {ch}
    /\ UNCHANGED <<vars, control, asked, extras, screening, corpus>>

Answered ==
    LET order == SetToSeq(asked)
        pooled[i \in 0..Cardinality(asked)] ==
          IF i = 0 THEN <<>>
          ELSE pooled[i - 1] \o (IF channel[order[i]] = "ok" THEN Hits[order[i]] ELSE <<>>)
    IN  pooled[Cardinality(asked)]

(* The extras come first, then the hits, without what an earlier round saw.    *)
Pool ==
    /\ stage = "pool" /\ Unanswered = {}
    /\ LET hits == extras \o Answered
       IN  pool' = DeduplicateCandidates([i \in 1..Len(hits) |-> Record[hits[i]]], seen)
    /\ triaged' = <<>> /\ raw' = {}
    /\ stage' = IF pool' = <<>> THEN "fetched" ELSE "triage"
    /\ UNCHANGED <<vars, n, reason, searching, seen, rankedUrls, corpus>>

-----------------------------------------------------------------------------
RoundBudget ==
    LET half == CeilDiv(BaseBudget, 2)
    IN  IF n = 0 THEN BaseBudget ELSE IF remaining < half THEN remaining ELSE half

(* A tier that guarantees a later round keeps a share of the money for it.     *)
RoundUsd ==
    LET left == BudgetUsd - committedUsd
        share == (65 * BudgetUsd) \div 100
    IN  IF n = 0 /\ MinRounds > 0 /\ share < left THEN share ELSE left

Of(items, c) == items[CHOOSE i \in DOMAIN items : items[i].id = c]
Ids(items) == {items[i].id : i \in DOMAIN items}

RoundOf(ranked, floor) ==
    LET ids == Ids(ranked)
        order == FetchOrder(ranked)
        Marked(c, mark) == c \in ids /\ mark \in Of(ranked, c).marks
    IN  [queue    |-> [i \in 1..Len(order) |-> order[i].id],
         priority |-> [c \in Candidate |-> Marked(c, "priority")],
         must     |-> [c \in Candidate |-> Marked(c, "must")],
         low      |-> [c \in Candidate |-> c \in ids /\ Of(ranked, c).score < floor],
         type     |-> [c \in Candidate |-> Record[c].type],
         reserve  |-> [c \in Candidate |->
                         IF c \in ids THEN PriorityReservation(Of(ranked, c)) ELSE 1],
         cap      |-> TypeCap, tally |-> counts, budget |-> RoundBudget, usd |-> RoundUsd]

(* Triage scores the pool, and the fetch begins on what ranks.                 *)
TriagePool(models) ==
    LET scored == [i \in 1..Len(pool) |-> Triaged(pool[i], models[i], pool[i].prior, Boosted)]
        ranked == RankCandidates(scored)
        needed == IF RelaxMin > RoundBudget \div 4 THEN RelaxMin ELSE RoundBudget \div 4
        r      == RoundOf(ranked, RoundFloor(ranked, n, FetchFloor, RelaxedFloor, needed))
    IN  /\ stage = "triage"
        /\ triaged' = scored
        /\ seen' = AddCandidates(seen, {Of(pool, c) : c \in Ids(ranked)})
        /\ rankedUrls' = rankedUrls \cup {Record[c].url : c \in Ids(ranked)}
        /\ stage' = "fetch"
        /\ StartRound(r)
        /\ UNCHANGED <<n, reason, searching, pool, raw, corpus>>

(* The model scored nothing, and the provider itself is refusing calls.        *)
ProviderDown ==
    /\ stage = "triage"
    /\ stage' = "failed"
    /\ UNCHANGED <<vars, n, reason, searching, screening, corpus>>

(* What the fetch of a candidate costs to ingest: its text, cut to its ceiling *)
(* if it still carries one.                                                    *)
Price(c) ==
    LET full == Record[c].text.price
        ceiling == Of(triaged, c).stamps.ceiling
    IN  IF ceiling > 0 /\ ceiling < full THEN ceiling ELSE full

Fetch ==
    /\ stage = "fetch"
    /\ \/ StopFetching \/ OpenWave \/ Launch \/ CloseLedger
       \/ \E c \in Candidate :
            SkipLow(c) \/ SkipCapped(c) \/ Admit(c) \/ Lose(c, "failed") \/ Keep(c, Price(c))
    /\ UNCHANGED <<control, searching, screening, corpus>>

-----------------------------------------------------------------------------
TextOf(c) == Record[c].text
TextLength == [c \in Candidate |-> TextOf(c).length]
TextShort == {c \in Candidate : TextOf(c).short}
TextClose == {p \in Candidate \X Candidate :
                 TextOf(p[1]).print - TextOf(p[2]).print \in {-1, 0, 1}}
ExcerptOf == {p \in Candidate \X Candidate : p[2] \in TextOf(p[1]).within}
MoreForeign == {p \in Candidate \X Candidate : /\ Record[p[1]].title = Record[p[2]].title
                                               /\ TextOf(p[2]).english > TextOf(p[1]).english}

(* Mutant: texts are compared within their round only.                         *)
OriginalsOfRound(sources) ==
    LET order == ByLength(sources, TextLength)
    IN  EditionsKept(ContentKept(order, {}, TextShort, TextClose), order, ExcerptOf, MoreForeign)

Originals(sources) ==
    LET order == ByLength(sources, TextLength)
    IN  EditionsKept(ContentKept(order, seen.texts, TextShort, TextClose), order,
                     ExcerptOf, MoreForeign)

(* Copies of one text, and second editions of one work, go no further.         *)
DropCopies ==
    /\ stage = "fetch" /\ pc = "done"
    /\ raw' = Originals(results)
    /\ stage' = "fetched"
    /\ UNCHANGED <<vars, n, reason, searching, seen, rankedUrls, pool, triaged, corpus>>

(* Mutant: the row is what the fetch said, before copies were dropped.         *)
RowOfFetch(t) ==
    IF record[t.id] = NoOutcome THEN "below_floor" ELSE record[t.id]

(* The row of the screening ledger for a scored candidate.                     *)
Row(t) ==
    CASE record[t.id] = "fetched" /\ t.id \notin raw -> "content_duplicate"
      [] record[t.id] = "fetched" /\ t.id \in raw    -> "fetched"
      [] record[t.id] = NoOutcome /\ t.score < MinTriageScore -> "below_floor"
      [] record[t.id] = NoOutcome /\ t.score >= MinTriageScore -> "near_duplicate"
      [] OTHER -> record[t.id]

RoundCost == IF pool = <<>> THEN 0 ELSE committed

(* A round without sources ends the loop, and the build if it was the first.   *)
NoSources ==
    /\ stage = "fetched" /\ raw = {}
    /\ committedUsd' = committedUsd + RoundCost
    /\ IF n = 0 THEN stage' = "failed" /\ UNCHANGED reason ELSE Stop("no_new_candidates")
    /\ UNCHANGED <<vars, n, searching, screening, passed, dropped, remaining, spentUsd>>

(* What a set of sources costs to ingest, counted unit by unit.                *)
SumPrice(S) == Cardinality({u \in Candidate \X (1..MaxCost) : u[1] \in S /\ u[2] <= Price(u[1])})

(* Mutant: the money committed to sources is not counted, only what was spent. *)
StopReasonSpent(met, judged, accepted) ==
    IF met /\ n >= MinRounds THEN "targets_met"
    ELSE IF n >= MaxRounds THEN "max_rounds"
    ELSE IF spentUsd' >= BudgetUsd THEN "budget_exhausted"
    ELSE IF remaining' <= 0 THEN "source_limit" ELSE "none"

(* Why the loop ends after a round, in the order of its conditions.            *)
StopReason(met, judged, accepted) ==
    IF met /\ n >= MinRounds THEN "targets_met"
    ELSE IF n >= MaxRounds THEN IF MaxRounds = 0 THEN "loop_disabled" ELSE "max_rounds"
    ELSE IF spentUsd' + committedUsd' >= BudgetUsd THEN "budget_exhausted"
    ELSE IF remaining' <= 0 THEN "source_limit"
    ELSE IF judged >= AcceptanceMinSample /\ 5 * accepted < judged THEN "acceptance_collapsed"
    ELSE "none"

(* Validation's verdicts after the composition caps: "good" sources join the   *)
(* corpus, the others' estimated cost is given back, all are seen.  When the   *)
(* validator judged none and passed none the provider may be down.             *)
Validate(good, unjudged, cost, met) ==
    LET why == StopReason(met, Cardinality(raw) - Cardinality(unjudged), Cardinality(good))
    IN  /\ stage = "fetched" /\ raw # {}
        /\ good \cap unjudged = {}
        /\ passed' = passed \cup good
        /\ dropped' = dropped \cup (raw \ good)
        /\ committedUsd' = committedUsd + SumPrice(good)
        /\ remaining' = remaining - Cardinality(raw)
        /\ spentUsd' = spentUsd + cost
        /\ seen' = AddSources(seen, {Of(pool, c) : c \in raw}, raw)
        /\ IF why = "none" THEN stage' = "plan" /\ n' = n + 1 /\ UNCHANGED reason
           ELSE Stop(why) /\ UNCHANGED n
        /\ UNCHANGED <<vars, searching, rankedUrls, pool, triaged, raw>>

ValidatorDown ==
    /\ stage = "fetched" /\ raw # {}
    /\ stage' = "failed"
    /\ UNCHANGED <<vars, n, reason, searching, screening, corpus>>

DiscoveryNext ==
    \/ Plan \/ Pool \/ ProviderDown \/ Fetch \/ DropCopies \/ NoSources \/ ValidatorDown
    \/ \E answer \in [Channel -> Answers] : Search(answer)
    \/ \E ch \in Channel, status \in Answers : RetryChannel(ch, status)
    \/ \E models \in [1..Len(pool) -> Scores] : TriagePool(models)
    \/ \E good \in SUBSET raw, cost \in LiveCost, met \in BOOLEAN :
          \E unjudged \in {{}, raw \ good} : Validate(good, unjudged, cost, met)

Ended == stage \in {"stopped", "failed"} /\ UNCHANGED allVars

DiscoverySpec == DiscoveryInit /\ [][DiscoveryNext \/ Ended]_allVars

-----------------------------------------------------------------------------
(* The screening ledger is true of every scored candidate: a row says          *)
(* "fetched" exactly for the sources that go on to validation, and a reason    *)
(* for every other.                                                            *)
LedgerTellsAll ==
    stage = "fetched" /\ pool # <<>> =>
      \A i \in DOMAIN triaged :
        /\ Row(triaged[i]) = "fetched" <=> triaged[i].id \in raw
        /\ Row(triaged[i]) \in Outcome \cup {"near_duplicate", "content_duplicate"}

(* Over all rounds, no two accepted sources are one text: what a round fetches *)
(* is compared with its own texts and with those of every round before.        *)
NoTwins ==
    \A c, d \in passed : c # d /\ {c, d} \cap TextShort = {} => <<c, d>> \notin TextClose

(* What the comment in _discovery_round promises: extra candidates come first, *)
(* so that of two copies of one URL the marked one is kept.                    *)
ExtraCopyWins ==
    stage = "triage" =>
      \A c \in Range(extras), i \in DOMAIN pool :
        pool[i].url = Record[c].url => Record[c].marks \subseteq pool[i].marks

(* What the comment on _PRIORITY_BUDGET_SHARE promises: past half of a round's *)
(* money marked candidates stop skipping the queue and compete on their scores.*)
PastShareTheyCompete ==
    LET next == round.queue[idx]
        Score(c) == Of(triaged, c).score
    IN  stage = "fetch" /\ pc = "admit" /\ QueueLeft =>
          (round.priority[next] /\ ~IsPriority(next) =>
             \A i \in idx..Len(round.queue) :
               round.priority[round.queue[i]] \/ Score(round.queue[i]) <= Score(next))

(* What _enforce_ceiling promises: a work the plan gave a ceiling is cut to it *)
(* wherever every fetch arrives, whichever copy of the work was fetched.       *)
CeilingHolds ==
    stage = "fetched" =>
      \A c \in raw, d \in Range(extras) :
        SameWork(Record[c], Record[d]) /\ Record[d].stamps.ceiling > 0 =>
          Price(c) <= Record[d].stamps.ceiling

(* A round always begins with a limit on its money: the limit is what is left  *)
(* of the discovery budget, and a limit of zero would be none at all.          *)
MoneyLimitHolds == stage = "fetch" => round.usd > 0

(* Discovery ends, and never waits on itself: rounds are numbered up to a last *)
(* one, the stages of a round follow each other, a channel is tried again      *)
(* once, and every wave takes candidates off its queue.                        *)
StageRank == [plan |-> 6, search |-> 5, pool |-> 4, triage |-> 3, fetch |-> 2, fetched |-> 1,
              stopped |-> 0, failed |-> 0][stage]

FetchRank == 4 * (Len(round.queue) + 1 - idx) + 3 * Len(wave)
             + [wave |-> 4, admit |-> 3, settle |-> 2, tail |-> 1, done |-> 0][pc]

Measure == <<MaxRounds - n, StageRank,
             IF stage = "pool" THEN Cardinality(Unanswered)
             ELSE IF stage = "fetch" THEN FetchRank ELSE 0>>

EveryStepProgresses ==
    [][KeyBefore(Measure', Measure) /\ (n' = n \/ n' <= MaxRounds)]_allVars
=============================================================================
