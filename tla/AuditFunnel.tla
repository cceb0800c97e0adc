----------------------------- MODULE AuditFunnel -----------------------------
(* audit/screening.py and the screening_flow of audit/service.py: how many     *)
(* candidates each stage of discovery saw and let through, read back from the  *)
(* event log of the expert's latest job.  The log grows as attempts run, die,  *)
(* start over or resume.                                                       *)
EXTENDS Integers, Sequences, FiniteSets, SequencesExt, Functions

CONSTANTS Fetchers,         \* the search channels
          Shapes,           \* bound: what a round may come to (below)
          Budget,           \* round -> how many sources it may fetch
          MaxRounds, MaxAttempts

(* A shape is a record: hits (channel -> its hits), flaky (the channels whose  *)
(* first search times out), cited (candidates from citations), pooled (hits    *)
(* left without duplicates), ranked, fetched, copies (of those fetched, texts  *)
(* already held), passed.                                                      *)
None == -1
NoShape == [hits |-> <<>>, flaky |-> {}, cited |-> 0, pooled |-> 0, ranked |-> 0,
            fetched |-> 0, copies |-> 0, passed |-> 0]

VARIABLES
    pc,         \* what the attempt does next
    n,          \* its round
    shape,      \* what the round comes to
    toSearch,   \* <<channel, attempt>>: searches under way
    attempt,    \* attempts of the job
    log,        \* build_events of the latest job, in order
    ready,      \* the expert is searchable: the next attempt resumes
    rows,       \* the `sources' table: [accepted, rejected, copies]
    did         \* (history) what this attempt's discovery did, in all and `last',
                \* in the last round that came to a stage

vars == <<pc, n, shape, toSearch, attempt, log, ready, rows, did>>

Event(type, round, name, x, y) ==
    [type |-> type, round |-> round, name |-> name, x |-> x, y |-> y]
Emit(type, x, y) == log' = Append(log, Event(type, n, "", x, y))

NoRows == [accepted |-> 0, rejected |-> 0, copies |-> 0]
NothingYet == [screened |-> 0, ranked |-> 0, fetched |-> 0, passed |-> 0, dropped |-> 0]
DidNothing == [identified |-> 0, cited |-> 0, overlap |-> 0, screened |-> 0, ranked |-> 0,
               fetched |-> 0, copies |-> 0, passed |-> 0, dropped |-> 0, last |-> NothingYet]

Init ==
    /\ pc = "off" /\ n = 0 /\ shape = NoShape /\ toSearch = {}
    /\ attempt = 0 /\ log = <<>> /\ ready = FALSE /\ rows = NoRows /\ did = DidNothing

Ongoing == pc \notin {"off", "died", "finished"}

(* The worker claims the job: an attempt starts over, or resumes what an       *)
(* earlier one made searchable.                                                *)
StartAttempt ==
    /\ pc \in {"off", "died"} /\ attempt < MaxAttempts
    /\ attempt' = attempt + 1
    /\ n' = 0 /\ shape' = NoShape /\ toSearch' = {}
    /\ log' = Append(log, Event("build_started", 0, "", 0, 0))
    /\ did' = DidNothing
    /\ IF ready THEN pc' = "enrich" /\ UNCHANGED rows
       ELSE pc' = "round" /\ rows' = NoRows
    /\ UNCHANGED ready

(* A round is announced, after its citations were followed (_plan_round).      *)
StartRound(s) ==
    /\ pc = "round" /\ n <= MaxRounds
    /\ n = 0 => s.cited = 0
    /\ shape' = s
    /\ toSearch' = {<<ch, IF ch \in s.flaky THEN 0 ELSE 1>> : ch \in Fetchers}
    /\ log' = log \o (IF s.cited = 0 THEN <<>>
                      ELSE <<Event("snowball_done", n, "", s.cited, 0)>>)
                  \o <<Event("round_started", n, "", 0, 0)>>
    /\ did' = [did EXCEPT !.cited = @ + s.cited]
    /\ pc' = "search"
    /\ UNCHANGED <<n, attempt, ready, rows>>

(* _search_one; a channel that timed out is searched once more, after the rest.*)
Again(ch, k) == k = 1 /\ ch \in shape.flaky
SearchDone(ch, k) ==
    LET count == IF k = 0 THEN 0 ELSE shape.hits[ch]
    IN  /\ pc = "search" /\ <<ch, k>> \in toSearch
        /\ Again(ch, k) => \A s \in toSearch : Again(s[1], s[2])
        /\ toSearch' = (toSearch \ {<<ch, k>>}) \cup (IF k = 0 THEN {<<ch, 1>>} ELSE {})
        /\ log' = Append(log, Event("fetcher_done", n, ch, count, 1))
        /\ did' = [did EXCEPT !.identified = @ + count]
        /\ UNCHANGED <<pc, n, shape, attempt, ready, rows>>

Hits(s) == FoldFunction(+, 0, s.hits)

(* deduplicate_candidates; a round that found nothing ends here.               *)
PoolHits ==
    LET overlap == Hits(shape) + shape.cited - shape.pooled
    IN  /\ pc = "search" /\ toSearch = {}
        /\ IF Hits(shape) + shape.cited = 0 THEN UNCHANGED <<log, did>>
           ELSE Emit("dedup_done", overlap, 0) /\ did' = [did EXCEPT !.overlap = @ + overlap]
        /\ pc' = IF shape.pooled = 0 THEN "ended" ELSE "triage"
        /\ UNCHANGED <<n, shape, toSearch, attempt, ready, rows>>

TriageDone ==
    /\ pc = "triage"
    /\ Emit("triage_done", shape.pooled, shape.ranked)
    /\ did' = [did EXCEPT !.screened = @ + shape.pooled, !.ranked = @ + shape.ranked,
                          !.last.screened = shape.pooled, !.last.ranked = shape.ranked]
    /\ pc' = "fetch"
    /\ UNCHANGED <<n, shape, toSearch, attempt, ready, rows>>

(* What is counted as fetched are the sources that are no copies.              *)
FetchDone ==
    /\ pc = "fetch"
    /\ Emit("fetch_done", shape.fetched - shape.copies, shape.copies)
    /\ did' = [did EXCEPT !.fetched = @ + shape.fetched - shape.copies,
                          !.copies = @ + shape.copies,
                          !.last.fetched = shape.fetched - shape.copies]
    /\ pc' = IF shape.fetched = shape.copies THEN "ended" ELSE "validate"
    /\ UNCHANGED <<n, shape, toSearch, attempt, ready, rows>>

(* The round's verdicts; another round, or the end of discovery.               *)
ValidateDone ==
    LET dropped == shape.fetched - shape.copies - shape.passed
    IN  /\ pc = "validate"
        /\ Emit("validate_done", shape.passed, dropped)
        /\ did' = [did EXCEPT !.passed = @ + shape.passed, !.dropped = @ + dropped,
                          !.last.passed = shape.passed, !.last.dropped = dropped]
        /\ \/ n < MaxRounds /\ pc' = "round" /\ n' = n + 1
           \/ pc' = "ended" /\ UNCHANGED n
        /\ UNCHANGED <<shape, toSearch, attempt, ready, rows>>

(* The accepted and the dropped are written down, copies among the dropped.    *)
DiscoveryDone ==
    /\ pc = "ended"
    /\ Emit("discovery_done", 0, 0)
    /\ rows' = [accepted |-> did.passed, rejected |-> did.dropped + did.copies,
                copies |-> did.copies]
    /\ pc' = IF did.passed = 0 THEN "died" ELSE "ingest"
    /\ UNCHANGED <<n, shape, toSearch, attempt, ready, did>>

Ingested ==
    /\ pc = "ingest"
    /\ ready' = TRUE /\ pc' = "enrich"
    /\ UNCHANGED <<n, shape, toSearch, attempt, log, rows, did>>

Finish ==
    /\ pc = "enrich"
    /\ pc' = "finished"
    /\ UNCHANGED <<n, shape, toSearch, attempt, log, ready, rows, did>>

Dies ==
    /\ Ongoing
    /\ pc' = "died"
    /\ UNCHANGED <<n, shape, toSearch, attempt, log, ready, rows, did>>

(* An upload is ingested: the latest job is one that never discovered anything.*)
IngestJob ==
    /\ pc = "finished"
    /\ log' = <<Event("build_started", 0, "", 0, 0)>>
    /\ did' = DidNothing
    /\ rows' = [rows EXCEPT !.accepted = @ + 1]
    /\ attempt' = MaxAttempts /\ pc' = "off"
    /\ UNCHANGED <<n, shape, toSearch, ready>>

Next ==
    \/ StartAttempt \/ PoolHits \/ TriageDone \/ FetchDone \/ ValidateDone
    \/ DiscoveryDone \/ Ingested \/ Finish \/ Dies \/ IngestJob
    \/ \E s \in Shapes : StartRound(s)
    \/ \E ch \in Fetchers, k \in {0, 1} : SearchDone(ch, k)

Spec == Init /\ [][Next]_vars

-----------------------------------------------------------------------------
(* What the endpoint asks the log for (funnel_events): of what discovery writes*)
(* neither the rounds' beginnings, nor what they pooled, nor its end.          *)
FUNNEL_EVENT_TYPES == {"build_started", "fetcher_done", "triage_done", "fetch_done",
                       "snowball_done", "validate_done"}
FunnelEvents == SelectSeq(log, LAMBDA e : e.type \in FUNNEL_EVENT_TYPES)

(* latest_attempt *)
LatestAttempt(events) ==
    LET starts == {i \in DOMAIN events : events[i].type = "build_started"}
    IN  IF starts = {} THEN events
        ELSE SubSeq(events, CHOOSE i \in starts : \A j \in starts : j <= i, Len(events))

OfType(events, type) == SelectSeq(events, LAMBDA e : e.type = type)
Sum(events) == FoldLeft(LAMBDA total, e : total + e.x, 0, events)

(* _last and _int *)
LastOf(events, type, field) ==
    LET es == OfType(events, type) IN IF es = <<>> THEN None ELSE es[Len(es)][field]

(* _rounds and _sum: a round's last word on a stage, summed over the rounds    *)
(* that had one; nothing reported is not zero.                                 *)
SumOfRounds(events, type, field) ==
    LET In(r) == SelectSeq(events, LAMBDA e : e.round = r)
        told == {r \in {e.round : e \in Range(events)} : OfType(In(r), type) # <<>>}
    IN  IF told = {} THEN None
        ELSE FoldFunction(+, 0, [r \in told |-> LastOf(In(r), type, field)])

(* The rounds are summed if any is seen to begin; the last word counts if none *)
(* is (what the code calls a pre-loop build).                                  *)
Stage(events, type, field) ==
    IF OfType(events, "round_started") # <<>> THEN SumOfRounds(events, type, field)
    ELSE LastOf(events, type, field)

Minus(a, b) == IF a = None \/ b = None \/ a < b THEN None ELSE a - b

NoFunnel == [identified |-> None, screened |-> None, ranked |-> None, fetched |-> None]

(* derive_discovery_funnel *)
Derived(found) ==
    LET events == LatestAttempt(found)
        fetchers == OfType(events, "fetcher_done")
        cites == OfType(events, "snowball_done")
        identified == IF fetchers = <<>> THEN None ELSE Sum(fetchers)
        screened == Stage(events, "triage_done", "x")
        ranked == Stage(events, "triage_done", "y")
        fetched == Stage(events, "fetch_done", "x")
        fetch == LastOf(events, "fetch_done", "round")
        triage == LastOf(events, "triage_done", "round")
    IN  IF fetchers = <<>> /\ triage = None /\ fetch = None THEN NoFunnel
        ELSE [identified |-> identified, screened |-> screened, ranked |-> ranked,
              fetched |-> fetched, overlap |-> Minus(identified, screened),
              excluded |-> Minus(screened, ranked), notFetched |-> Minus(ranked, fetched),
              copies |-> IF OfType(events, "round_started") = <<>> THEN None
                         ELSE SumOfRounds(events, "fetch_done", "y"),
              cited |-> IF cites # <<>> THEN Sum(cites) ELSE IF fetch # None THEN 0 ELSE None,
              budget |-> IF triage = None THEN None ELSE Budget[triage],
              passed |-> Stage(events, "validate_done", "x"),
              dropped |-> Stage(events, "validate_done", "y")]
Funnel == Derived(FunnelEvents)

(* screening_flow: the stages that come from the sources table are counts of   *)
(* its rows.                                                                   *)
Assessed == rows.accepted + rows.rejected

-----------------------------------------------------------------------------
Tells(reported, done) == reported \in {None, done} /\ (reported = None => done = 0)

(* The funnel is the last attempt's, at every moment of it, and no earlier     *)
(* one's: what was identified and cited over all its rounds, what the last     *)
(* round that came to a stage did there, a stage that was not reached being    *)
(* unknown, not nothing; and what triage is said to have excluded is what it   *)
(* excluded in the round it is told of (derive_discovery_funnel).              *)
FunnelOfLastAttempt ==
    LET f == Funnel
    IN  f # NoFunnel =>
          /\ Tells(f.identified, did.identified) /\ Tells(f.cited, did.cited)
          /\ \A stage \in DOMAIN NothingYet : Tells(f[stage], did.last[stage])
          /\ f.ranked # None => f.excluded = did.last.screened - did.last.ranked

(* Statements of comments and notes that the code does not keep.               *)

(* What derive_discovery_funnel says of a loop build: it "reports totals as the*)
(* sum over its rounds".  The events that begin a round are not among those the*)
(* endpoint asks for, so that a build's last round is reported as the build.   *)
FunnelIsTrue ==
    LET f == Funnel
    IN  f # NoFunnel =>
          /\ \A stage \in DOMAIN NothingYet \cup {"identified", "cited"} :
                Tells(f[stage], did[stage])
          /\ f.ranked # None => f.excluded = did.screened - did.ranked

(* What the note of _identify_stage says: duplicates_removed_before_triage is  *)
(* the overlap removed when the fetchers' lists were pooled.                   *)
OverlapIsOverlap ==
    Funnel # NoFunnel /\ pc = "finished" => Funnel.overlap \in {None, did.overlap}

(* What the docstring of latest_attempt says of the last attempt: "it is the   *)
(* one whose output is in the database".                                       *)
CorpusIsReported ==
    pc = "finished" => /\ Funnel # NoFunnel
                       /\ rows.accepted = Funnel.passed

(* What the note of _retrieve_stage says: full text was downloaded "until the  *)
(* tier's budget was met" (false in the middle of a round: the budget is its   *)
(* own, what was fetched the round before's).                                  *)
FetchedWithinBudget ==
    Funnel # NoFunnel /\ Funnel.fetched # None => Funnel.fetched <= Funnel.budget

(* What the note of assessed_at_validation says of its count: "Every source    *)
(* the validator scored".                                                      *)
AssessedWereScored == Assessed = rows.accepted + rows.rejected - rows.copies
=============================================================================
