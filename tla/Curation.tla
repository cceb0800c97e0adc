------------------------------- MODULE Curation -------------------------------
(* The corpus as rounds add to it: each round's accepted sources pass the      *)
(* composition caps, coverage is measured, and the next round is told what to  *)
(* search for; at the end narrow papers are cut to their share.                *)
EXTENDS Composition

CONSTANTS Concepts,         \* the plan's key concepts, in order
          Facets,           \* the plan's facets: sequences of concepts
          Target,           \* CoverageTarget
          Offers,           \* what a round may accept: sequences of sources
          AbstractCap, TertiaryCap,     \* COMPOSITION_*_SHARE_CAP
          Paragraph,        \* a paragraph break every so many characters
          SearchWidth       \* _LOOP_MAX_CONCEPTS

VARIABLES
    corpus,     \* the accepted sources, in order
    dropped,    \* what the caps dropped
    named,      \* concept -> status of its named text
    coverage,   \* the coverage report, as last measured
    over

vars == <<corpus, dropped, named, coverage, over>>

Measure(sources, status) == ComputeCoverage(Concepts, Range(sources), Target, status)

Init ==
    /\ corpus = <<>>
    /\ dropped = {}
    /\ named \in [Range(Concepts) -> {"none", "missing"}]
    /\ coverage = Measure(corpus, named)
    /\ over = FALSE

(* A round: _discovery_round's accepted sources, less what the caps drop.      *)
Round(batch) ==
    LET capped == ApplyCaps(batch, AbstractCap, TertiaryCap)
        grown == corpus \o capped.kept
    IN  /\ ~over
        /\ Range(batch) \cap (Range(corpus) \cup dropped) = {}
        /\ corpus' = grown
        /\ coverage' = Measure(grown, named)
        /\ dropped' = dropped \cup UNION Range(capped.dropped)
        /\ UNCHANGED <<named, over>>

(* A work named for a concept is accepted, in part or whole.                   *)
NamedTextFound(c, status) ==
    LET better == [named EXCEPT ![c] = status]
    IN  /\ ~over
        /\ named[c] = "missing" \/ (named[c] = "partial" /\ status = "found")
        /\ named' = better
        /\ coverage' = Measure(corpus, better)
        /\ UNCHANGED <<corpus, dropped, over>>

(* The feedback round names a text for a concept that has no primary source    *)
(* (suggest_primary_texts is asked about those alone).                         *)
SuggestText(c) ==
    LET lacking == {r \in Range(SearchNext(coverage, Facets, SearchWidth)) : ~r.has_primary}
        missed == [named EXCEPT ![c] = "missing"]
    IN  /\ ~over
        /\ named[c] = "none"
        /\ c \in {r.concept : r \in lacking}
        /\ named' = missed
        /\ coverage' = Measure(corpus, missed)
        /\ UNCHANGED <<corpus, dropped, over>>

(* Discovery is over: cap_narrow_source_shares.                                *)
Finish ==
    /\ ~over
    /\ over' = TRUE
    /\ corpus' = CapNarrowShares(corpus, Target.kind, Paragraph)
    /\ UNCHANGED <<dropped, named, coverage>>

Next ==
    \/ \E batch \in Offers : Round(batch)
    \/ \E c \in Range(Concepts), status \in {"partial", "found"} : NamedTextFound(c, status)
    \/ \E c \in Range(Concepts) : SuggestText(c)
    \/ Finish

Spec == Init /\ [][Next]_vars

-----------------------------------------------------------------------------
(* No concept ever gets further from its target: neither more sources, nor a   *)
(* text found, nor a text newly named for it, costs it what it had.            *)
NoneFurther == \A i \in DOMAIN coverage : coverage'[i].shortfall <= coverage[i].shortfall
NeverFurtherAway == [][NoneFurther]_vars

(* The next round's searches are spread: no facet is searched for twice while  *)
(* another has an unmet concept that is not searched for, and within a facet   *)
(* the concepts furthest from their target come first (weakest_by_facet).      *)
SearchIsSpread ==
    LET picks == Range(SearchNext(coverage, Facets, SearchWidth))
        groups == FacetGroups(coverage, Facets)
        Open(g) == {r \in Range(g) : ~r.met}
        Picked(g) == picks \cap Open(g)
    IN  ~over /\ ~Met(coverage) =>
            /\ \A r \in picks : ~r.met
            /\ \A g, h \in Range(groups) :
                   Cardinality(Picked(g)) > Cardinality(Picked(h)) + 1 => Open(h) \subseteq picks
            /\ \A g \in Range(groups) : \A r \in Picked(g), s \in Open(g) \ picks :
                   r.shortfall >= s.shortfall

(* Papers cut to a length above the floor hold no more than their share of the *)
(* corpus as cut, and no paper at or under that length is touched.             *)
NarrowSharesHold ==
    over /\ wants_current(Target.kind) =>
        \A s \in Range(corpus) :
            IsNarrowPaper(s) /\ s.text > MinChars => s.text * ShareCap <= Total(Lengths(corpus))

CorpusIsBalanced == SearchIsSpread /\ NarrowSharesHold
=============================================================================
