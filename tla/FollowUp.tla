-------------------------------- MODULE FollowUp -------------------------------
(* What a discovery round searches: the syllabus the planner's answer is made  *)
(* into (experts/build/planning.py), the queries and texts a later round asks a*)
(* model for (experts/feedback.py), the channels it sends them to (_plan_round *)
(* of experts/builder.py), and the works that the accepted sources cite or are *)
(* cited by (sources/snowball.py), whose lists arrive in any order or not.     *)
EXTENDS Integers, Sequences, FiniteSets, SequencesExt, Functions

CONSTANTS
    RawPlans,           \* what the planner may answer: [facets, concepts]
    MaxFacets, FacetSize, MaxConcepts,
    Answers,            \* what the feedback model may answer: pairs <<concept, query>>
    Suggestions,        \* and the model asked for texts: pairs <<concept, title>>
    Channels, LoopChannels, PlanChannels,   \* fetchers; in every round; with the plan's queries
    Seeds,              \* the accepted sources Semantic Scholar can resolve
    Cites,              \* seed -> direction -> the papers in its list
    Citations,          \* paper -> its citation count
    Readable,           \* is_fetchable
    Floor,              \* _PERCENTILE_FLOOR as <<m, n>>
    CoCited,            \* _CO_CITATION_OVERRIDE
    MaxProposed, MaxRounds

Directions == {"backward", "forward"}

VARIABLES
    plan,       \* (history) what the planner answered
    syllabus,   \* facets: sequence of sequences of concepts
    round, pc,
    weak,       \* the concepts this round is about
    failing,    \* channels whose last search failed in a way worth another try
    queries,    \* weak concept -> its queries
    searched,   \* channel -> the queries sent to it
    tried,      \* titles that were looked up
    texts,      \* the texts suggested this round
    accepted,   \* the seeds among the accepted sources
    toAsk,      \* seeds whose lists are not yet in
    got,        \* (history) the lists of this round that came
    pool,       \* paper -> [seeds, above, of, direction]
    proposed,   \* what this round proposes
    seen,       \* papers the build has seen
    offered     \* (history) papers triage was given

vars == <<plan, syllabus, round, pc, weak, failing, queries, searched, tried, texts, accepted,
          toAsk, got, pool, proposed, seen, offered>>
queryVars == <<weak, queries, searched, texts>>
citeVars == <<toAsk, got, pool, proposed>>

-----------------------------------------------------------------------------
Upto(s, n) == SubSeq(s, 1, IF n < Len(s) THEN n ELSE Len(s))
Held(facets) == UNION {Range(f) : f \in Range(facets)}
Count(facets) == FoldLeft(LAMBDA n, f : n + Len(f), 0, facets)
New(concepts, facets) ==
    FoldLeft(LAMBDA kept, c : IF c \in Held(facets) \cup Range(kept) THEN kept ELSE Append(kept, c),
             <<>>, concepts)

(* _normalise_facets: no concept twice; a named one that is in no facet joins  *)
(* one more.                                                                   *)
Gathered(raw) ==
    LET Add(facets, concepts) ==
            LET new == New(Upto(concepts, FacetSize), facets)
            IN  IF new = <<>> \/ Len(facets) >= MaxFacets THEN facets ELSE Append(facets, new)
        facets == FoldLeft(Add, <<>>, raw.facets)
        orphans == New(raw.concepts, facets)
    IN  IF orphans = <<>> THEN facets ELSE Append(facets, orphans)

(* Mutant: the last facet is trimmed first.                                    *)
LastFacet(facets) == Len(facets)

(* ... and the largest is trimmed first, the later of two.                     *)
Largest(facets) ==
    CHOOSE i \in DOMAIN facets : \A j \in DOMAIN facets :
        Len(facets[j]) < Len(facets[i]) \/ (Len(facets[j]) = Len(facets[i]) /\ j <= i)
TrimOne(facets) ==
    LET i == Largest(facets)
    IN  IF Len(facets[i]) > 1 THEN [facets EXCEPT ![i] = SubSeq(@, 1, Len(@) - 1)]
        ELSE SubSeq(facets, 1, Len(facets) - 1)
Syllabus(raw) ==
    LET facets == Gathered(raw)
        excess == Count(facets) - MaxConcepts
    IN  FoldLeft(LAMBDA fs, k : TrimOne(fs), facets, [k \in 1..excess |-> k])

Init ==
    /\ plan \in RawPlans /\ syllabus = Syllabus(plan)
    /\ round = 0 /\ pc = "plan"
    /\ weak = {} /\ failing = {} /\ queries = <<>> /\ searched = <<>>
    /\ tried = {} /\ texts = {} /\ accepted = {}
    /\ toAsk = {} /\ got = {} /\ pool = <<>> /\ proposed = <<>> /\ seen = {} /\ offered = {}

-----------------------------------------------------------------------------
(* feedback_queries: an answer for a concept that is not asked for is ignored, *)
(* the last one for a concept counts, and a hole is filled by the topic.       *)
Normalised(answer, asked) ==
    [c \in asked |->
        LET mine == SelectSeq(answer, LAMBDA a : a[1] = c)
        IN  IF mine = <<>> THEN <<"topic", c>> ELSE <<Last(mine)[2], c>>]

(* suggest_primary_texts: at most two for a concept, none that was tried.      *)
Accepted(suggestion) ==
    LET usable == SelectSeq(suggestion, LAMBDA t : t[1] \in weak /\ t[2] \notin tried)
        Kth(i) == Cardinality({j \in 1..i : usable[j][1] = usable[i][1]})
    IN  {usable[i] : i \in {i \in DOMAIN usable : Kth(i) <= 2}}

(* _plan_round: the queries go to the loop's channels and to those that failed;*)
(* the catalogues are asked the plan's own queries again.                      *)
PlanRound(asked, answer) ==
    /\ pc = "searched" /\ round \in 1..MaxRounds
    /\ pc' = IF asked = {} THEN "snowball" ELSE "suggest"
    /\ weak' = asked
    /\ queries' = Normalised(answer, asked)
    /\ searched' = [ch \in IF asked = {} THEN {} ELSE LoopChannels \cup failing |->
                       IF ch \in PlanChannels THEN {<<"plan", ch>>} ELSE Range(queries')]
    /\ texts' = {} /\ pool' = <<>> /\ got' = {} /\ proposed' = <<>>
    /\ toAsk' = accepted
    /\ UNCHANGED <<plan, syllabus, round, failing, tried, accepted, seen, offered>>

SuggestTexts(suggestion) ==
    /\ pc = "suggest"
    /\ texts' = Accepted(suggestion)
    /\ tried' = tried \cup {t[2] : t \in texts'}
    /\ pc' = "snowball"
    /\ UNCHANGED <<plan, syllabus, round, weak, failing, queries, searched, accepted, citeVars, seen, offered>>

-----------------------------------------------------------------------------
(* _absorb: a list's papers enter the pool with the share of the list that each*)
(* is strictly above; one that is reached both ways counts as backward.        *)
Above(p, list) == Cardinality({q \in list : Citations[q] < Citations[p]})
Higher(a, b) == a[1] * b[2] >= b[1] * a[2]

(* Mutant: the direction of the list that came last.                           *)
LatestDirection(old, new) == new
Direction(old, new) == IF new = "backward" THEN new ELSE old

Absorbed(papers, seed, direction) ==
    LET list == Cites[seed][direction]
    IN  [p \in DOMAIN papers \cup list |->
            LET share == <<Above(p, list), Cardinality(list)>>
            IN  IF p \notin list THEN papers[p]
                ELSE IF p \notin DOMAIN papers
                THEN [seeds |-> {seed}, share |-> share, direction |-> direction]
                ELSE [seeds |-> papers[p].seeds \cup {seed},
                      share |-> IF Higher(papers[p].share, share) THEN papers[p].share ELSE share,
                      direction |-> Direction(papers[p].direction, direction)]]

(* A seed's two lists are asked for one after the other, and folded in together*)
(* when both are settled: the references first.  A refused list is empty.      *)
Answered(seed, came) ==
    /\ pc = "snowball" /\ seed \in toAsk
    /\ toAsk' = toAsk \ {seed}
    /\ LET references == IF "backward" \in came THEN Absorbed(pool, seed, "backward") ELSE pool
       IN  pool' = IF "forward" \in came THEN Absorbed(references, seed, "forward") ELSE references
    /\ got' = got \cup {<<seed, d>> : d \in came}
    /\ UNCHANGED <<plan, syllabus, round, pc, failing, tried, accepted, queryVars, proposed, seen, offered>>

(* snowball: those worth fetching that the build has not seen and can read, by *)
(* co-citations, then standing, then citations.                                *)
WorthFetching(p) ==
    Cardinality(pool[p].seeds) >= CoCited \/ Higher(pool[p].share, Floor)
Eligible == {p \in DOMAIN pool : WorthFetching(p) /\ p \notin accepted \cup seen /\ Readable[p]}
RankedAbove(p, q) ==
    LET m == Cardinality(pool[p].seeds)
        n == Cardinality(pool[q].seeds)
        a == pool[p].share
        b == pool[q].share
    IN  m > n \/ (m = n /\ (~Higher(b, a) \/ (Higher(a, b) /\ Higher(b, a)
                                              /\ Citations[p] > Citations[q])))
Propose ==
    /\ pc = "snowball" /\ toAsk = {}
    /\ proposed' \in {s \in UNION {[1..n -> Eligible] : n \in 0..MaxProposed} :
          /\ IsInjective(s)
          /\ Len(s) = MaxProposed \/ Range(s) = Eligible
          /\ \A i \in DOMAIN s, q \in Eligible :
                RankedAbove(q, s[i]) => \E j \in 1..(i - 1) : s[j] = q}
    /\ pc' = "search"
    /\ UNCHANGED <<plan, syllabus, round, failing, tried, accepted, queryVars, toAsk, got, pool, seen, offered>>

(* The round is run: triage ranks the proposed it scores high enough, and those*)
(* that a priority carries; what it ranks has been seen.  Channels fail or do  *)
(* not, and some of what was ranked is accepted.                               *)
FirstRound(new, failed) ==
    /\ pc = "plan" /\ round' = 1 /\ pc' = "searched"
    /\ new # {} /\ accepted' = new /\ seen' = new
    /\ failing' = failed
    /\ UNCHANGED <<plan, syllabus, tried, queryVars, citeVars, offered>>

Priority == {p \in Range(proposed) : Cardinality(pool[p].seeds) >= CoCited}
Searched(ranked, new, failed) ==
    /\ pc = "search" /\ round' = round + 1 /\ pc' = "searched"
    /\ Priority \subseteq ranked /\ new \subseteq ranked \cap Seeds
    /\ failing' = (failing \ DOMAIN searched) \cup failed
    /\ seen' = seen \cup ranked
    /\ accepted' = accepted \cup new
    /\ offered' = offered \cup Range(proposed)
    /\ UNCHANGED <<plan, syllabus, tried, queryVars, citeVars>>

Next ==
    \/ \E new \in SUBSET Seeds, failed \in SUBSET Channels : FirstRound(new, failed)
    \/ \E asked \in SUBSET Held(syllabus), answer \in Answers : PlanRound(asked, answer)
    \/ \E suggestion \in Suggestions : SuggestTexts(suggestion)
    \/ \E seed \in Seeds, came \in SUBSET Directions : Answered(seed, came)
    \/ Propose
    \/ \E ranked \in SUBSET Range(proposed), new \in SUBSET Seeds, failed \in SUBSET DOMAIN searched :
          Searched(ranked, new, failed)

Spec == Init /\ [][Next]_vars
-----------------------------------------------------------------------------
(* The syllabus says a concept once and no more of them than the tier allows,  *)
(* no facet is empty, and a facet only loses concepts to the limit while it is *)
(* the largest: after the trim it is within one of every other.                *)
SyllabusHolds ==
    /\ Count(syllabus) <= MaxConcepts
    /\ Cardinality(Held(syllabus)) = Count(syllabus)
    /\ \A i, j \in DOMAIN syllabus :
          Len(syllabus[i]) < Len(Gathered(plan)[i]) => Len(syllabus[j]) <= Len(syllabus[i]) + 1
    /\ Len(Gathered(plan)) <= MaxConcepts => Len(syllabus) = Len(Gathered(plan))

(* Whatever order the citation lists arrive in, and whichever are refused, the *)
(* pool says of a paper exactly what the lists that came say: who is linked to *)
(* it, the best place it took in one of them, and that it was cited if any of  *)
(* the accepted sources cites it.                                              *)
PoolIsTrue ==
    LET Naming(p) == {l \in got : p \in Cites[l[1]][l[2]]}
        Share(p, l) == <<Above(p, Cites[l[1]][l[2]]), Cardinality(Cites[l[1]][l[2]])>>
    IN  /\ DOMAIN pool = UNION {Cites[l[1]][l[2]] : l \in got}
        /\ \A p \in DOMAIN pool :
              /\ pool[p].seeds = {l[1] : l \in Naming(p)}
              /\ \A l \in Naming(p) : Higher(pool[p].share, Share(p, l))
              /\ pool[p].direction = "backward" <=> \E l \in Naming(p) : l[2] = "backward"

(* Not so: what triage read and did not rank is proposed to it again.          *)
NeverProposedTwice ==
    [][pc = "snowball" /\ pc' = "search" => Range(proposed') \cap offered = {}]_vars
=============================================================================
