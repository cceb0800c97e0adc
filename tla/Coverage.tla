------------------------------- MODULE Coverage -------------------------------
(* experts/coverage.py and sources/subject.py: how far the accepted corpus is  *)
(* from the syllabus.  A source is a record                                    *)
(*   tags : sequence of <<concept, depth>>, the depth 1 (sets_out), 2 (treats) *)
(*          or 3 (mentions)      cut : the concepts its sections were cut for  *)
(*   tier, type, content, substance, year (0: not recorded), review            *)
(* A concept is a number, and names sort as their numbers do.                  *)
EXTENDS Integers, Sequences, FiniteSets, SequencesExt, Functions

MaxCountingTags == 3        \* MAX_COUNTING_TAGS
RecentYears == 10           \* RECENT_YEARS
OldYears == 30              \* OLD_YEARS

Larger(a, b) == IF a > b THEN a ELSE b
Upto(s, n) == SubSeq(s, 1, IF n < Len(s) THEN n ELSE Len(s))
Listed(s) == SubSeq(s, 1, Len(s))       \* s, written out (TLC computes it once)
Sorted(seq, Before(_, _)) ==
    LET at == SortSeq([i \in 1..Len(seq) |-> i],
                  LAMBDA i, j : \/ Before(seq[i], seq[j])
                                \/ ~Before(seq[j], seq[i]) /\ i < j)
    IN  Listed([i \in 1..Len(seq) |-> seq[at[i]]])

-----------------------------------------------------------------------------
(* sources/subject.py *)
Scholarly == {"arxiv", "pubmed", "openalex", "pdf"}         \* SCHOLARLY_TYPES
NeverPractitioner == {"wikipedia", "reddit"}
Practical == {"tutorial", "reference", "textbook"}          \* PRACTICAL_CONTENT_TYPES

wants_current(kind) == kind # "canon"

(* age_class, at year `today' *)
AgeClass(s, today) ==
    CASE s.type = "gutenberg" \/ (s.year # 0 /\ today - s.year > OldYears) -> "old"
      [] s.type # "gutenberg" /\ s.year # 0 /\ today - s.year <= RecentYears -> "recent"
      [] OTHER -> "unknown"

RecencyAdjustment(s, kind, today) ==        \* in tenths of a point
    LET age == AgeClass(s, today)
    IN  CASE ~wants_current(kind) -> 0
          [] wants_current(kind) /\ age = "old" -> -10
          [] wants_current(kind) /\ age = "recent" -> IF kind = "practice" THEN 5 ELSE 10
          [] OTHER -> 0

IsPaper(s) == s.type \in Scholarly \/ s.content = "paper"

(* is_current_material *)
IsCurrent(s, kind, today) ==
    LET recent == s.year # 0 /\ today - s.year <= RecentYears
    IN  /\ wants_current(kind)
        /\ AgeClass(s, today) # "old"
        /\ IF IsPaper(s) THEN recent /\ (kind = "research_front" \/ s.review)
           ELSE /\ s.type \notin NeverPractitioner
                /\ s.year = 0 \/ recent
                /\ s.content \in Practical

IsNarrowPaper(s) == ~s.named /\ IsPaper(s) /\ ~s.review

-----------------------------------------------------------------------------
(* counting_tags: the sections a work was cut to, or its deepest three tags.   *)
CountingTags(s) ==
    IF s.cut # {} THEN {<<c, 1>> : c \in s.cut}
    ELSE Range(Upto(Sorted(SelectSeq(s.tags, LAMBDA t : t[2] < 3),
                           LAMBDA t, u : t[2] < u[2]), MaxCountingTags))

Tagged(corpus, c) == {s \in corpus : \E t \in CountingTags(s) : t[1] = c}
Counting(corpus, c) == {s \in Tagged(corpus, c) : s.substance # "abstract"}

(* Mutant: a text found in part is neither found nor missing, and counts for   *)
(* nothing.                                                                    *)
HasPrimaryWhole(sources, c, named) ==
    LET primary == {s \in sources : s.tier = "primary"}
    IN  CASE named = "found"   -> TRUE
          [] named = "missing" -> \E s \in primary : <<c, 1>> \in CountingTags(s)
          [] OTHER             -> named = "none" /\ primary # {}

(* has_primary, the named-text gate: `named' is the status of the work the     *)
(* plan named for the concept.                                                 *)
HasPrimary(sources, c, named) ==
    LET primary == {s \in sources : s.tier = "primary"}
    IN  CASE named \in {"found", "partial"} -> TRUE
          [] named = "missing" -> \E s \in primary : <<c, 1>> \in CountingTags(s)
          [] OTHER -> primary # {}

(* _score: 10 for each missing source, 5 for no primary, 4 for nothing         *)
(* current, 3 for each missing kind of source, 2 for nothing but summaries.    *)
Score(corpus, c, target, named) ==
    LET sources == Counting(corpus, c)
        types == {s.type : s \in sources}
        current == {s \in sources : IsCurrent(s, target.kind, target.today)}
        primary == HasPrimary(sources, c, named)
        Penalty(points, missing) == IF missing THEN points ELSE 0
        shortfall ==
            10 * Larger(0, target.sources - Cardinality(sources))
            + Penalty(5, target.primary /\ ~primary)
            + Penalty(4, wants_current(target.kind) /\ current = {})
            + 3 * Larger(0, target.types - Cardinality(types))
            + Penalty(2, target.evidence
                         /\ ~\E s \in sources : s.tier \in {"primary", "secondary"})
    IN  [concept |-> c, sources |-> Cardinality(sources), shortfall |-> shortfall,
         met |-> shortfall = 0, has_primary |-> primary, named |-> named,
         current |-> Cardinality(current),
         abstracts |-> Cardinality(Tagged(corpus, c) \ sources)]

ComputeCoverage(concepts, corpus, target, named) ==
    Listed([i \in 1..Len(concepts) |->
               Score(corpus, concepts[i], target, named[concepts[i]])])

Met(report) == \A c \in Range(report) : c.met

-----------------------------------------------------------------------------
(* What the next round searches for.                                           *)
Weaker(c, d) == c.shortfall > d.shortfall
                \/ (c.shortfall = d.shortfall /\ c.concept < d.concept)
Thinner(c, d) ==                                            \* _thinness
    \/ ~c.has_primary /\ d.has_primary
    \/ /\ c.has_primary = d.has_primary
       /\ c.sources < d.sources \/ (c.sources = d.sources /\ c.concept < d.concept)

Unmet(report) == SelectSeq(report, LAMBDA c : ~c.met)
Weakest(report, n) == Upto(Sorted(Unmet(report), Weaker), n)
Thinnest(report, n) == Upto(Sorted(report, Thinner), n)

NonEmpty(groups) == SelectSeq(groups, LAMBDA g : g # <<>>)

(* _facet_groups: a concept of several facets belongs to the first.            *)
FacetGroups(report, facets) ==
    LET Before(k) == UNION {Range(facets[j]) : j \in 1..(k - 1)}
        Members(k) == SelectSeq(facets[k], LAMBDA c : c \notin Before(k))
        Entry(c) == CHOOSE r \in Range(report) : r.concept = c
        Of(names) == LET known == SelectSeq(names, LAMBDA c : \E r \in Range(report) :
                                                                 r.concept = c)
                     IN  Listed([i \in 1..Len(known) |-> Entry(known[i])])
        rest == SelectSeq(report, LAMBDA r : r.concept \notin Before(Len(facets) + 1))
    IN  NonEmpty(Append([k \in 1..Len(facets) |-> Of(Members(k))], rest))

(* Mutant: a group is taken whole before the next.                             *)
GroupAfterGroup(groups, n) == Upto(FlattenSeq(groups), n)

(* _round_robin: the groups' firsts, then their seconds, and so on.            *)
RoundRobin(groups, n) ==
    LET deepest == FoldLeft(LAMBDA m, g : Larger(m, Len(g)), 0, groups)
        Row(d) == LET long == SelectSeq(groups, LAMBDA g : Len(g) >= d)
                  IN  [i \in 1..Len(long) |-> long[i][d]]
    IN  Upto(FlattenSeq([d \in 1..deepest |-> Row(d)]), n)

WeakestByFacet(report, facets, n) ==
    LET groups == FacetGroups(report, facets)
        weak == NonEmpty([k \in 1..Len(groups) |-> Sorted(Unmet(groups[k]), Weaker)])
    IN  RoundRobin(Sorted(weak, LAMBDA g, h : Len(g) > Len(h)), n)

ThinnestByFacet(report, facets, n) ==
    LET groups == FacetGroups(report, facets)
        thin == [k \in 1..Len(groups) |-> Sorted(groups[k], Thinner)]
    IN  RoundRobin(Sorted(thin, LAMBDA g, h : Thinner(g[1], h[1])), n)

(* The builder's choice: what is unmet, else what is thin (_LOOP_MAX_CONCEPTS).*)
SearchNext(report, facets, n) ==
    LET weak == WeakestByFacet(report, facets, n)
    IN  IF weak = <<>> THEN ThinnestByFacet(report, facets, n) ELSE weak
=============================================================================
