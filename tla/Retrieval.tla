----------------------------- MODULE Retrieval -----------------------------
(***************************************************************************)
(* From a question to the numbered passages of its prompt and back to the  *)
(* audit of its answer: planning, hybrid search with fusion and reranking, *)
(* the second pass, the relevance floor, the subqueries' seats, section    *)
(* routing, neighbours, source diversity, reading order and the trail      *)
(* (chat/agent.py, search/service.py, chat/neighbours.py,                  *)
(* chat/grounding.py, chat/audit_trail.py).  A passage is a chunk with the *)
(* score it was found with; scores are hundredths.  Rerankers, planners    *)
(* and the database answer, or fail, as they like.                         *)
(***************************************************************************)
EXTENDS Integers, Sequences, FiniteSets, SequencesExt, TLC

CONSTANTS
  Chunk,         \* chunk -> [source, seq, text, prose]: the expert's corpus
  Asked,         \* the question
  Plans,         \* what the planner may return
  Found(_),      \* query -> the lists of chunks hybrid search may rank for it
  Scores,        \* what a reranker may score
  Routes,        \* what the section index may return: sequences of chunks
  MaxSubqueries, TopK, ExtraK, MaxContext, RerankCandidates,  \* the tier's and the settings' sizes
  Floor, WeakTop, MinPassages, MinStrong,      \* RELEVANCE_*
  Anchors, Before, After,                      \* NEIGHBOUR_*
  ThinTop, StrongTop, StrongMin                \* _EVIDENCE_*

VARIABLES
  stage,   \* how far the turn is
  rel,     \* what the reranker thinks of each chunk against this question
  ctx      \* everything the turn has gathered

vars == <<stage, rel, ctx>>

Src(e) == Chunk[e.chunk].source
Pos(e) == <<Src(e), Chunk[e.chunk].seq>>
SameText(c, d) == Chunk[c].text = Chunk[d].text
ChunksOf(s) == {s[i].chunk : i \in DOMAIN s}
NaturalMin(a, b) == IF a < b THEN a ELSE b
NaturalMax(a, b) == IF a > b THEN a ELSE b
Take(s, n) == SubSeq(s, 1, NaturalMin(n, Len(s)))
Best(scores) == IF scores = <<>> THEN 0 ELSE CHOOSE x \in ToSet(scores) : \A y \in ToSet(scores) : y <= x
ScoresOf(s) == [i \in DOMAIN s |-> s[i].score]

\* Python's sorted(key=-score): best first, ties in the order they came.
BestFirst(s) ==
  LET order == SortSeq([i \in DOMAIN s |-> i],
                       LAMBDA i, j : s[i].score > s[j].score \/ (s[i].score = s[j].score /\ i < j))
  IN  [i \in DOMAIN s |-> s[order[i]]]

----------------------------------------------------------------------------
(* The plan.                                                               *)

\* Queries without repeats, capped; whatever else came back gives none.
QueryList(value, limit) ==
  Take(FoldLeft(LAMBDA acc, q : IF q \in ToSet(acc) THEN acc ELSE Append(acc, q), <<>>, value), limit)

PlanOf(data, maxSubqueries) ==
  LET subqueries == QueryList(data.subqueries, maxSubqueries)
  IN  [subqueries |-> IF subqueries = <<>> THEN <<Asked>> ELSE subqueries,
       fallback   |-> QueryList(data.fallback, 2),
       broad      |-> data.broad]

FallbackPlan == [subqueries |-> <<Asked>>, fallback |-> <<>>, broad |-> FALSE]

----------------------------------------------------------------------------
(* Search: the queries' hits fused by summing, and reranked.               *)

\* One query's hits carry their reciprocal-rank score, the earlier the more.
Hit(list, i) == [chunk |-> list[i], score |-> 5 - i, scored |-> FALSE]

MergeHits(lists) ==
  LET all == FlattenSeq([i \in DOMAIN lists |-> [j \in DOMAIN lists[i] |-> Hit(lists[i], j)]])
      Add(acc, h) ==
        IF h.chunk \in ChunksOf(acc)
        THEN [i \in DOMAIN acc |-> IF acc[i].chunk = h.chunk THEN [acc[i] EXCEPT !.score = @ + h.score]
                                   ELSE acc[i]]
        ELSE Append(acc, h)
  IN  BestFirst(FoldLeft(Add, <<>>, all))

\* The head of the fused list, and each query's own two best if it lacks them.
WithEachQuerysBest(head, merged, lists) ==
  LET own == FlattenSeq([i \in DOMAIN lists |-> Take(lists[i], 2)])
      Add(acc, c) == IF c \in ChunksOf(acc) THEN acc
                     ELSE acc \o SelectSeq(merged, LAMBDA e : e.chunk = c)
  IN  FoldLeft(Add, head, own)

\* _apply_ranking: all-zero means that no reranker ran, and is no judgement.
ApplyRanking(hits, score) ==
  LET judged == \E i \in DOMAIN hits : score[hits[i].chunk] > 0
  IN  BestFirst([i \in DOMAIN hits |->
        [chunk |-> hits[i].chunk, score |-> score[hits[i].chunk], scored |-> judged]])

WithQuestion(queries) == IF Asked \in ToSet(queries) THEN queries ELSE Append(queries, Asked)

\* What each query fetches: a reranker is given more to choose from.
FetchK(topK, reranker) == IF reranker = "off" THEN topK ELSE NaturalMax(RerankCandidates, topK)

\* The candidates of a search whose queries found `lists`. A reranker that fails
\* gives every passage the score nothing has, in the order they came in.
batch_search(lists, topK, reranker) ==
  LET head   == FetchK(topK, reranker)
      own    == [i \in DOMAIN lists |-> Take(lists[i], head)]
      fused  == MergeHits(own)
      merged == WithEachQuerysBest(Take(fused, head), fused, own)
  IN  IF reranker = "off" \/ Len(merged) <= 1 THEN merged
      ELSE ApplyRanking(merged, IF reranker = "judges" THEN rel ELSE [c \in DOMAIN Chunk |-> 0])

----------------------------------------------------------------------------
(* What is kept.                                                           *)

RelevanceThreshold(scores) == NaturalMax(Floor, Best(scores) \div 2)
MinKept == NaturalMax(MinPassages, MaxContext \div 2)

Strong(scores) == Cardinality({i \in DOMAIN scores : scores[i] >= RelevanceThreshold(scores)})

RetrievalIsWeak(scores) ==
  scores = <<>> \/ Best(scores) < WeakTop \/ Strong(scores) < MinStrong

\* Judged passages under the floor go, but for the best of them if too few stay.
ApplyFloor(s, floor) ==
  LET over   == {i \in DOMAIN s : ~s[i].scored \/ s[i].score >= floor}
      byRank == SortSeq([i \in DOMAIN s |-> i],
                  LAMBDA i, j : s[i].score > s[j].score \/ (s[i].score = s[j].score /\ i < j))
      TopUp(kept, i) ==
        IF Cardinality({s[k].chunk : k \in kept}) >= MinKept THEN kept ELSE kept \cup {i}
      keep == FoldLeft(TopUp, over, byRank)
  IN  FoldLeft(LAMBDA acc, i : IF i \in keep THEN Append(acc, s[i]) ELSE acc, <<>>,
               [i \in DOMAIN s |-> i])

\* The first `cap` passages, without a repeat and without another source's copy.
UniqueChunks(s, cap) ==
  LET Copy(acc, e) == \E i \in DOMAIN acc : Src(acc[i]) # Src(e) /\ SameText(acc[i].chunk, e.chunk)
      Add(acc, e) == IF Len(acc) >= cap \/ e.chunk \in ChunksOf(acc) \/ Copy(acc, e)
                     THEN acc ELSE Append(acc, e)
  IN  FoldLeft(Add, <<>>, s)

\* A chunk that both passes returned counts with its lower entry.
LastOfEach(s) ==
  FoldLeft(LAMBDA acc, i : IF \E j \in (i + 1)..Len(s) : s[j].chunk = s[i].chunk THEN acc
                           ELSE Append(acc, s[i]), <<>>, [i \in DOMAIN s |-> i])

\* A subquery none of whose first five hits is held seats its best two.
UncoveredSeats(queries, own, candidates, held) ==
  LET Seat(acc, q) ==
        LET pool == SelectSeq(LastOfEach(candidates), LAMBDA e :
                      e.chunk \in ToSet(Take(own[q], 10)) /\ e.chunk \notin held \cup ChunksOf(acc))
        IN  IF own[q] = <<>> \/ ToSet(Take(own[q], 5)) \cap held # {} THEN acc
            ELSE acc \o Take(pool, 2)
  IN  FoldLeft(Seat, <<>>, queries)

----------------------------------------------------------------------------
(* The text around, and the text from elsewhere.                           *)

\* Positions beside the anchors: best anchor first, nearest first, after before.
WantedPositions(anchors, held) ==
  LET Around(e) == FlattenSeq([d \in 1..NaturalMax(Before, After) |->
        (IF d <= After THEN <<<<Src(e), Chunk[e.chunk].seq + d>>>> ELSE <<>>)
        \o (IF d <= Before THEN <<<<Src(e), Chunk[e.chunk].seq - d>>>> ELSE <<>>)])
      all == FlattenSeq([i \in DOMAIN anchors |-> Around(anchors[i])])
  IN  FoldLeft(LAMBDA acc, p : IF p[2] < 0 \/ p \in held \cup ToSet(acc) THEN acc ELSE Append(acc, p),
               <<>>, all)

Unscored(c) == [chunk |-> c, score |-> 0, scored |-> FALSE]

\* The chunks at those positions: prose, and no copy of what another source holds.
Neighbours(anchors, held, room) ==
  LET wanted == Take(WantedPositions(anchors, {Pos(held[i]) : i \in DOMAIN held}), room)
      At(p)  == {c \in DOMAIN Chunk : <<Chunk[c].source, Chunk[c].seq>> = p /\ Chunk[c].prose}
      Copy(c) == \E i \in DOMAIN held : Src(held[i]) # Chunk[c].source /\ SameText(held[i].chunk, c)
      Add(acc, p) == acc \o [i \in 1..Cardinality({c \in At(p) : ~Copy(c)}) |->
                               Unscored(CHOOSE c \in At(p) : ~Copy(c))]
  IN  FoldLeft(Add, <<>>, wanted)

\* Sections the prompt does not draw on yet bring passages it does not hold.
RouteSections(route, held) ==
  LET Fits(c) == Chunk[c].prose /\ \A i \in DOMAIN held : ~SameText(held[i].chunk, c)
      chosen == SelectSeq(route, Fits)
  IN  [i \in DOMAIN chosen |-> Unscored(chosen[i])]

Without(s, i) == SubSeq(s, 1, i - 1) \o SubSeq(s, i + 1, Len(s))
Majority(s) == {x \in {Src(s[i]) : i \in DOMAIN s} :
                  2 * Cardinality({i \in DOMAIN s : Src(s[i]) = x}) > Len(s)}

\* One seat of a source that holds more than half goes to another source's good
\* passage: its last neighbour first, then its weakest retrieved passage.
SwapOne(d, fixed, protected) ==
  LET major == Majority(d.retrieved \o d.neighbours \o fixed \o d.add)
      mine(s) == {i \in DOMAIN s : Src(s[i]) \in major /\ s[i].chunk \notin protected}
      others == {i \in DOMAIN d.pool : /\ Src(d.pool[i]) \notin major
                   /\ \A c \in d.texts : ~SameText(d.pool[i].chunk, c)}
      next   == CHOOSE i \in others : \A j \in others : i <= j
      lastNear == CHOOSE i \in mine(d.neighbours) : \A j \in mine(d.neighbours) : j <= i
      weakest == CHOOSE i \in mine(d.retrieved) : \A j \in mine(d.retrieved) :
                   \/ d.retrieved[i].score < d.retrieved[j].score
                   \/ d.retrieved[i].score = d.retrieved[j].score /\ i <= j
      several == Cardinality({i \in DOMAIN d.retrieved : Src(d.retrieved[i]) \in major}) > 1
      In(e) == [e EXCEPT !.add = Append(@, d.pool[next]), !.pool = Without(@, next),
                         !.texts = @ \cup {d.pool[next].chunk}]
  IN  IF major = {} \/ others = {} THEN d
      ELSE IF mine(d.neighbours) # {} THEN In([d EXCEPT !.neighbours = Without(@, lastNear)])
      ELSE IF mine(d.retrieved) # {} /\ several THEN In([d EXCEPT !.retrieved = Without(@, weakest)])
      ELSE d

Diversify(retrieved, neighbours, fixed, candidates, threshold, protected) ==
  LET held  == ChunksOf(retrieved \o neighbours \o fixed)
      start == [retrieved |-> retrieved, neighbours |-> neighbours, add |-> <<>>,
                texts |-> ChunksOf(retrieved \o fixed),
                pool |-> SelectSeq(candidates, LAMBDA e :
                           e.score >= threshold /\ e.chunk \notin held /\ Chunk[e.chunk].prose)]
  IN  FoldLeft(LAMBDA d, i : SwapOne(d, fixed, protected), start,
               [i \in 1..(Len(retrieved) + Len(neighbours)) |-> i])

\* Mutant. What is not in a run is appended at the end.
ReadingOrderWithStrays(held, neighbours) == BestFirst(held) \o neighbours

\* Runs of consecutive text, each read in source order and placed where the first
\* held passage of it stands; a neighbour that touches nothing held is left out.
ReadingOrder(held, neighbours) ==
  LET all == held \o neighbours
      places == {Pos(all[i]) : i \in DOMAIN all}
      RunOf(e) == {p \in places : p[1] = Src(e) /\
                    \A n \in NaturalMin(p[2], Pos(e)[2])..NaturalMax(p[2], Pos(e)[2]) : <<p[1], n>> \in places}
      Members(e) == SortSeq(SelectSeq(all, LAMBDA m : Pos(m) \in RunOf(e)), LAMBDA m, n : Pos(m)[2] < Pos(n)[2])
      Place(acc, e) == IF e.chunk \in ChunksOf(acc) THEN acc
                       ELSE acc \o SelectSeq(Members(e), LAMBDA m : m.chunk \notin ChunksOf(acc))
  IN  FoldLeft(Place, <<>>, held)

\* Numbered passages: the first `cap`, each chunk once.
GroundedContext(s, cap) ==
  Take(FoldLeft(LAMBDA acc, e : IF e.chunk \in ChunksOf(acc) THEN acc ELSE Append(acc, e), <<>>, s), cap)

----------------------------------------------------------------------------
(* The account of it.                                                      *)

\* Mutant. The passages swapped in for other sources are left out of the account.
TrailWithoutSwaps(c) ==
  LET Via(s, via) == [i \in DOMAIN s |-> [chunk |-> s[i].chunk, via |-> via]]
  IN  FoldLeft(LAMBDA acc, x : IF x.chunk \in ChunksOf(acc) THEN acc ELSE Append(acc, x), <<>>,
        Via(c.enriched, "primary") \o Via(c.seats, "subquery_seat")
        \o Via(c.routed, "section_route") \o Via(c.neighbours, "neighbour"))

\* Every passage the turn surfaced, once, in the order it was found.
BuildTrail(c) ==
  LET Via(s, via) == [i \in DOMAIN s |-> [chunk |-> s[i].chunk, via |-> via]]
      all == [i \in DOMAIN c.enriched |-> [chunk |-> c.enriched[i].chunk,
                via |-> IF i <= c.primary THEN "primary" ELSE "coverage_followup"]]
             \o Via(c.seats, "subquery_seat") \o Via(c.routed, "section_route")
             \o Via(c.swapped, "source_diversity") \o Via(c.neighbours, "neighbour")
  IN  FoldLeft(LAMBDA acc, x : IF x.chunk \in ChunksOf(acc) THEN acc ELSE Append(acc, x), <<>>, all)

\* parse_citations: which of the answer's markers stand for a passage.
Cited(markers, n) == markers \cap 1..n
Dangling(markers, n) == markers \ 1..n

Disposition(step, prompt, cited) ==
  LET n == {i \in DOMAIN prompt : prompt[i].chunk = step.chunk}
  IN  IF n = {} THEN "not_in_context"
      ELSE IF n \cap cited # {} THEN "cited" ELSE "in_context_uncited"

AuditPayload(trail, prompt, markers) ==
  LET cited == Cited(markers, Len(prompt))
  IN  [dispositions |-> [i \in DOMAIN trail |-> Disposition(trail[i], prompt, cited)],
       cited |-> Cardinality(cited),
       in_context |-> Len(prompt),
       not_in_context |-> NaturalMax(0, Len(trail) - Len(prompt)),
       dangling |-> Dangling(markers, Len(prompt))]

EvidenceStrength(scores, partUncovered) ==
  IF Best(scores) < ThinTop THEN "thin"
  ELSE IF Best(scores) < StrongTop \/ Strong(scores) < StrongMin \/ partUncovered THEN "partial"
  ELSE "strong"

----------------------------------------------------------------------------
(* retrieve, a stage a step.                                               *)

NeighbourCap == NaturalMin(Anchors, TopK \div 2) * (Before + After)
ContextCap == MaxContext + NeighbourCap
Held(c) == c.retrieved \o c.seats \o c.routed

Empty == [plan |-> FallbackPlan, own |-> <<>>, enriched |-> <<>>, primary |-> 0, candidates |-> <<>>,
          reranked |-> FALSE, second |-> FALSE, threshold |-> 0, kept |-> <<>>, retrieved |-> <<>>,
          seats |-> <<>>, routed |-> <<>>, neighbours |-> <<>>, swapped |-> <<>>,
          prompt |-> <<>>, trail |-> <<>>, evidence |-> "none", audit |-> <<>>]

Init ==
  /\ stage = "plan"
  /\ rel \in [DOMAIN Chunk -> Scores]
  /\ ctx = Empty

\* _plan: the planner's plan, or the question as it stands.
Plan ==
  /\ stage = "plan"
  /\ \E p \in {FallbackPlan} \cup {PlanOf(d, MaxSubqueries) : d \in Plans} : ctx' = [ctx EXCEPT !.plan = p]
  /\ stage' = "search"
  /\ UNCHANGED rel

\* What hybrid search may rank for each of the queries.
Hits(queries) ==
  {f \in [queries -> UNION {Found(q) : q \in queries}] : \A q \in queries : f[q] \in Found(q)}

Fetched(found, topK, reranker) == [q \in DOMAIN found |-> Take(found[q], FetchK(topK, reranker))]

Judged(candidates) == candidates # <<>> /\ candidates[1].scored

\* Both arms of every query, fused, reranked; the reranker may be off or fail.
Search ==
  /\ stage = "search"
  /\ \E reranker \in {"off", "judges", "fails"} :
     \E found \in Hits(ToSet(WithQuestion(ctx.plan.subqueries))) :
       LET queries == WithQuestion(ctx.plan.subqueries)
           hits    == batch_search([i \in DOMAIN queries |-> found[queries[i]]], TopK, reranker)
       IN  ctx' = [ctx EXCEPT !.own = Fetched(found, TopK, reranker), !.candidates = hits, !.enriched = Take(hits, TopK),
                              !.primary = NaturalMin(TopK, Len(hits)), !.reranked = Judged(hits)]
  /\ stage' = "second"
  /\ UNCHANGED rel

\* The second pass, only when a reranker found the first one weak.
SecondPass ==
  /\ stage = "second"
  /\ stage' = "keep"
  /\ UNCHANGED rel
  /\ LET runs == /\ ctx.reranked /\ RetrievalIsWeak(ScoresOf(ctx.enriched))
                 /\ ctx.plan.fallback # <<>>
         queries == Take(ctx.plan.fallback, NaturalMax(1, MaxSubqueries \div 2))
     IN  IF ~runs THEN UNCHANGED ctx
         ELSE \E reranker \in {"judges", "fails"} : \E found \in Hits(ToSet(queries)) :
                LET hits == batch_search([i \in DOMAIN queries |-> found[queries[i]]], ExtraK, reranker)
                IN  ctx' = [ctx EXCEPT !.enriched = @ \o Take(hits, ExtraK), !.second = TRUE,
                                       !.candidates = @ \o hits,
                                       !.own = Fetched(found, ExtraK, reranker) @@ @]

\* The floor, the cap, and a seat for every part of the question.
Keep ==
  /\ stage = "keep"
  /\ LET scores    == ScoresOf(SelectSeq(ctx.enriched, LAMBDA e : e.scored))
         threshold == IF scores = <<>> THEN 0 ELSE RelevanceThreshold(scores)
         kept      == UniqueChunks(ApplyFloor(ctx.enriched, threshold), MaxContext)
     IN  ctx' = [ctx EXCEPT !.threshold = threshold, !.kept = kept, !.retrieved = kept,
                   !.seats = IF ctx.reranked
                             THEN UncoveredSeats(ctx.plan.subqueries, ctx.own, BestFirst(ctx.candidates),
                                                 ChunksOf(kept))
                             ELSE <<>>]
  /\ stage' = "route"
  /\ UNCHANGED rel

\* A broad question goes through the section summaries too, if that works.
Route ==
  /\ stage = "route"
  /\ IF ctx.plan.broad
     THEN \E route \in Routes \cup {<<>>} :
            ctx' = [ctx EXCEPT !.routed = RouteSections(route, ctx.retrieved \o ctx.seats)]
     ELSE UNCHANGED ctx
  /\ stage' = "around"
  /\ UNCHANGED rel

\* The text around the best passages, if there is room and the read works.
ReadAround ==
  /\ stage = "around"
  /\ LET byRank == IF ctx.reranked THEN BestFirst(ctx.retrieved) ELSE ctx.retrieved
         room   == NaturalMax(0, ContextCap - Len(Held(ctx)))
         found  == Neighbours(Take(byRank, NaturalMin(Anchors, TopK \div 2)), Held(ctx), room)
     IN  \E n \in {found, <<>>} : ctx' = [ctx EXCEPT !.neighbours = n]
  /\ stage' = "diversify"
  /\ UNCHANGED rel

\* Mutant. Nothing is protected from the swap.
ProtectNothing(c) == {}

\* The best passage and the run it stands in are never given up.
Protected(c) ==
  LET top == BestFirst(c.retrieved)[1]
      near == SelectSeq(c.retrieved \o c.neighbours, LAMBDA e :
                Src(e) = Src(top) /\ \E d \in 0..NaturalMax(Before, After) :
                  Chunk[e.chunk].seq \in {Chunk[top.chunk].seq + d, Chunk[top.chunk].seq - d})
  IN  IF c.retrieved = <<>> THEN {} ELSE ChunksOf(near)

SpreadSources ==
  /\ stage = "diversify"
  /\ LET d == Diversify(ctx.retrieved, ctx.neighbours, ctx.seats \o ctx.routed,
                        BestFirst(ctx.candidates), ctx.threshold, Protected(ctx))
     IN  ctx' = IF ctx.reranked /\ ctx.candidates # <<>>
                THEN [ctx EXCEPT !.retrieved = d.retrieved \o d.add, !.neighbours = d.neighbours,
                                 !.swapped = d.add]
                ELSE ctx
  /\ stage' = "compose"
  /\ UNCHANGED rel

Compose ==
  /\ stage = "compose"
  /\ LET prompt == GroundedContext(ReadingOrder(Held(ctx), ctx.neighbours), ContextCap)
         shown  == SelectSeq(ctx.retrieved \o ctx.seats, LAMBDA e : e.chunk \in ChunksOf(prompt))
     IN  ctx' = [ctx EXCEPT !.prompt = prompt, !.trail = BuildTrail(ctx),
                   !.evidence = IF ctx.reranked THEN EvidenceStrength(ScoresOf(shown), ctx.seats # <<>>)
                                ELSE "none"]
  /\ stage' = "answer"
  /\ UNCHANGED rel

\* The model cites what it likes, a passage that is not there included.
Answer ==
  /\ stage = "answer"
  /\ \E markers \in {{}, {1}, {1, 2}, {Len(ctx.prompt) + 1}} :
       ctx' = [ctx EXCEPT !.audit = <<AuditPayload(ctx.trail, ctx.prompt, markers)>>]
  /\ stage' = "done"
  /\ UNCHANGED rel

Next ==
  \/ Plan \/ Search \/ SecondPass \/ Keep \/ Route \/ ReadAround
  \/ SpreadSources \/ Compose \/ Answer

Spec == Init /\ [][Next]_vars
----------------------------------------------------------------------------
Composed == stage \in {"answer", "done"}
Shown == ChunksOf(ctx.prompt)

\* chat/grounding.py and chat/audit_trail.py: no passage has two numbers, none
\* is over the cap, each is exactly one step of the trail, whichever of six ways
\* it came, and the dispositions add up to the totals beside them.
AccountAddsUp ==
  /\ Composed =>
       /\ Len(ctx.prompt) <= ContextCap
       /\ Cardinality(Shown) = Len(ctx.prompt)
       /\ \A c \in Shown : Cardinality({i \in DOMAIN ctx.trail : ctx.trail[i].chunk = c}) = 1
  /\ stage = "done" =>
       LET a == ctx.audit[1]
           Number(d) == Cardinality({i \in DOMAIN a.dispositions : a.dispositions[i] = d})
       IN  /\ Number("cited") = a.cited
           /\ Number("not_in_context") = a.not_in_context
           /\ Number("cited") + Number("in_context_uncited") = a.in_context

\* diversify, `protected`: whatever is swapped for another source's passages, the
\* best of what retrieval kept reaches the prompt.
BestIsShown ==
  (Composed /\ ctx.reranked /\ ctx.kept # <<>>) => BestFirst(ctx.kept)[1].chunk \in Shown

\* reading_order: "a neighbour that ends up touching nothing is dropped" -- also
\* when its anchor has been swapped out since it was fetched.
NeighboursTouch ==
  Composed =>
    \A i \in DOMAIN ctx.prompt :
      ctx.prompt[i].chunk \in ChunksOf(ctx.neighbours) \ ChunksOf(Held(ctx)) =>
        \E j \in DOMAIN ctx.prompt :
          /\ ctx.prompt[j].chunk \in ChunksOf(Held(ctx))
          /\ Src(ctx.prompt[j]) = Src(ctx.prompt[i])
          /\ \A n \in NaturalMin(i, j)..(NaturalMax(i, j) - 1) :
               Pos(ctx.prompt[n + 1]) = <<Pos(ctx.prompt[n])[1], Pos(ctx.prompt[n])[2] + 1>>

\* The two of them: what is shown is the best there was, and its surroundings.
PassagesHold == BestIsShown /\ NeighboursTouch

\* retrieve, 5b: "Every part of the question gets a seat".
EveryPartIsShown ==
  (Composed /\ ctx.reranked) =>
    \A q \in ToSet(ctx.plan.subqueries) : ctx.own[q] # <<>> => ToSet(Take(ctx.own[q], 10)) \cap Shown # {}

\* reading_order: "Runs are ordered by the best retrieved passage in them".
RunsBestFirst ==
  (Composed /\ ctx.reranked) =>
    LET top == BestFirst(Held(ctx))[1]
    IN  Held(ctx) # <<>> => Src(ctx.prompt[1]) = Src(top)

\* min_kept: "How many passages are kept whatever they score".
EnoughIsKept ==
  Composed => Len(ctx.kept) >= NaturalMin(MinKept, Cardinality(ChunksOf(ctx.enriched)))
=============================================================================
