----------------------------- MODULE Composition -----------------------------
(* experts/composition.py: which accepted sources are stubs, what share of the *)
(* corpus a kind of source may be, and how much of its text one narrow paper   *)
(* may hold.  A source has, besides what Coverage reads of it, its scores      *)
(* (q, r), the length of its abstract and of its text, and where its reference *)
(* list starts (0: it has none).  A share cap is the denominator of a fraction *)
(* (10 for a tenth; 0: off).                                                   *)
EXTENDS Coverage

CONSTANTS MinAbstract,      \* MIN_ABSTRACT_CHARS
          MinChars,         \* NARROW_SOURCE_MIN_CHARS
          ShareCap          \* NARROW_SOURCE_SHARE_CAP

Without(seq, gone) == SelectSeq(seq, LAMBDA s : s \notin gone)
FloorOf(cap, n) == IF cap = 0 THEN n ELSE Larger(1, n \div cap)

(* _over_share: what is left of a ranked group after those its share of the    *)
(* accepted sources allows; one is always allowed.                             *)
OverShare(ranked, cap, accepted) ==
    IF cap = 0 THEN {}
    ELSE {ranked[i] : i \in (FloorOf(cap, accepted) + 1)..Len(ranked)}

BetterAbstract(s, t) == \/ s.q + s.r > t.q + t.r
                        \/ s.q + s.r = t.q + t.r /\ s.r > t.r
BetterSummary(s, t) == s.r > t.r \/ (s.r = t.r /\ s.q > t.q)

(* apply_composition_caps: a stub goes, then what is over a share.  Each is    *)
(* recorded with its reason; the shares are of what was accepted before any    *)
(* of them went.                                                               *)
ApplyCaps(passed, abstractCap, tertiaryCap) ==
    LET accepted == Len(passed)
        stubs == {s \in Range(passed) : s.substance = "abstract" /\ s.abstract < MinAbstract}
        afterStubs == Without(passed, stubs)
        OnlyAbstract(s) == s.substance = "abstract"
        Tertiary(s) == s.tier = "tertiary"
        abstracts == OverShare(Sorted(SelectSeq(afterStubs, OnlyAbstract), BetterAbstract),
                               abstractCap, accepted)
        afterAbstracts == Without(afterStubs, abstracts)
        summaries == OverShare(Sorted(SelectSeq(afterAbstracts, Tertiary), BetterSummary),
                               tertiaryCap, accepted)
    IN  [kept |-> Without(afterAbstracts, summaries),
         dropped |-> [reason \in {"too_short", "abstract_share", "tertiary_share"} |->
                         CASE reason = "too_short"      -> stubs
                           [] reason = "abstract_share" -> abstracts
                           [] OTHER                     -> summaries]]

(* corpus_composition, in counts: what build_summary.corpus says of the corpus.*)
NoTarget(kind, today) == [sources |-> 0, types |-> 0, evidence |-> FALSE,
                          primary |-> FALSE, kind |-> kind, today |-> today]
Composed(passed, concepts, named, kind, today) ==
    LET corpus == Range(passed)
        report == ComputeCoverage(concepts, corpus, NoTarget(kind, today), named)
    IN  [sources |-> Len(passed),
         tiers |-> [t \in {"primary", "secondary", "tertiary"} |->
                       Cardinality({s \in corpus : s.tier = t})],
         unclassified |-> Cardinality({s \in corpus : s.tier = "unknown"}),
         abstracts |-> Cardinality({s \in corpus : s.substance = "abstract"}),
         shares |-> [i \in 1..Len(report) |-> report[i].sources + report[i].abstracts],
         lacking |-> {r.concept : r \in {r \in Range(report) : ~r.has_primary}},
         missing |-> {r.concept : r \in {r \in Range(report) : r.named = "missing"}}]

-----------------------------------------------------------------------------
(* cap_narrow_source_shares                                                    *)
Total(lengths) == FoldLeft(+, 0, lengths)
Lengths(sources) == [i \in 1..Len(sources) |-> sources[i].text]

(* With the k longest narrow papers cut to x and `rest' of everything else,    *)
(* x = (rest + k x) / ShareCap.  The k that fits is the one whose papers are   *)
(* all over x and whose other papers are not.                                  *)
Fits(sizes, total, k) ==
    LET rest == total - Total(SubSeq(sizes, 1, k))
    IN  /\ k < ShareCap
        /\ sizes[k] * (ShareCap - k) > rest
        /\ k = Len(sizes) \/ sizes[k + 1] * (ShareCap - k) <= rest
        /\ \A j \in 1..(k - 1) :    \* the search got as far as k
               sizes[j] * (ShareCap - j) > total - Total(SubSeq(sizes, 1, j))

(* The length the papers are cut to; 0 when none is cut.                       *)
Limit(sizes, total) ==
    IF \E k \in DOMAIN sizes : Fits(sizes, total, k)
    THEN LET k == CHOOSE k \in DOMAIN sizes : Fits(sizes, total, k)
         IN  Larger(MinChars, (total - Total(SubSeq(sizes, 1, k))) \div (ShareCap - k))
    ELSE IF sizes[1] * ShareCap <= total THEN 0 ELSE MinChars

(* _cut_text: the reference list goes first; then, over the limit still, the   *)
(* text is cut at a paragraph break in the last fifth under the limit, if      *)
(* there is one (every Paragraph characters), else at the limit.               *)
CutText(s, limit, paragraph) ==
    LET body == IF s.refs # 0 THEN s.refs ELSE s.text
        break == (limit \div paragraph) * paragraph
    IN  CASE body <= limit -> body
          [] body > limit /\ break * 5 >= limit * 4 -> break
          [] OTHER -> limit

CapNarrowShares(passed, kind, paragraph) ==
    LET narrow == Sorted(SelectSeq(passed, IsNarrowPaper), LAMBDA s, t : s.text > t.text)
        limit == Limit(Lengths(narrow), Total(Lengths(passed)))
        Over(s) == IsNarrowPaper(s) /\ s.text > limit
    IN  IF ~wants_current(kind) \/ narrow = <<>> \/ limit = 0 THEN passed
        ELSE [i \in 1..Len(passed) |->
                 IF Over(passed[i])
                 THEN [passed[i] EXCEPT !.text = CutText(passed[i], limit, paragraph)]
                 ELSE passed[i]]
=============================================================================
