------------------------------ MODULE Canonical ------------------------------
(* sources/canonical.py, with the builder's _resolve_canonical and             *)
(* _retry_canonical: the works a plan names are looked for by title, route by  *)
(* route; what passes validation decides what is reported found.               *)
(* An entry of the plan is a record                                            *)
(*   title, author, kind ("text", "paper" or "standard"), pd (public domain),  *)
(*   open (an authorised free text), sections (0: none named), scope ("overall"*)
(*   "concept" or "figure"), concepts, figure (0: none),                       *)
(*   sub : which of Substitutes may stand in for it (0: none)                  *)
EXTENDS Integers, Sequences, FiniteSets, SequencesExt, Functions, TLC

CONSTANTS Works,            \* the plan's entries, in order (_planned_works)
          Substitutes,      \* entries named as substitutes
          HasExa,           \* EXA_API_KEY is set
          Hits(_),          \* what a route may answer: sequences of hits
          Tiers,            \* what the validator takes a source for
          MaxFails,         \* bound on the route calls that fail
          MaxAccepted       \* bound on the sources accepted

MaxPartial == 2             \* _MAX_PARTIAL_PER_WORK

Key(w) == <<w.title, w.author>>                             \* MustHaveWork.key
Obtainable(w) == w.kind # "text" \/ w.pd \/ w.open

(* MustHaveWork.absorb, and the section hint merge_works hands on.             *)
Absorbed(w, other) ==
    [w EXCEPT !.concepts = @ \cup other.concepts, !.pd = @ \/ other.pd,
              !.open = @ \/ other.open, !.sub = IF @ = 0 THEN other.sub ELSE @]
WithSections(w, other) == IF w.sections = 0 THEN [w EXCEPT !.sections = other.sections] ELSE w

Slot(w) == <<Key(w), IF w.scope = "concept" THEN w.sections ELSE 0>>

(* merge_works: the lookups.  The concept entries of a work are its lookups;   *)
(* its overall entry lends them its scope.                                     *)
MergeWorks(works) ==
    LET KeysOf(scope) == {Key(w) : w \in {w \in Range(works) : w.scope = scope}}
        skipped(w) == \/ w.scope = "overall" /\ Key(w) \in KeysOf("concept")
                      \/ w.scope = "figure"
                            /\ Key(w) \in KeysOf("concept") \cup KeysOf("overall")
        Merge(lookups, w) ==
            LET at == SelectInSeq(lookups, LAMBDA l : Slot(l) = Slot(w))
            IN  IF skipped(w) THEN lookups
                ELSE IF at = 0 THEN Append(lookups, w)
                ELSE [lookups EXCEPT ![at] = WithSections(Absorbed(@, w), w)]
        Promoted(l) == IF l.scope = "concept" /\ Key(l) \in KeysOf("overall")
                       THEN [l EXCEPT !.scope = "overall"] ELSE l
        lookups == FoldLeft(Merge, <<>>, works)
    IN  [i \in 1..Len(lookups) |-> Promoted(lookups[i])]

(* _routes_for *)
RoutesFor(w) ==
    LET exa == IF HasExa THEN <<"exa">> ELSE <<>>
        hosts == IF HasExa THEN <<"exa_primary">> ELSE <<>>
    IN  CASE w.kind = "text" /\ ~Obtainable(w) -> exa
          [] w.kind = "text" /\ Obtainable(w) ->
                 (IF w.pd THEN <<"gutenberg", "archive">> ELSE <<>>) \o hosts \o exa
          [] w.kind = "paper" -> <<"arxiv", "openalex">> \o exa
          [] OTHER -> exa

-----------------------------------------------------------------------------
(* A hit: its url, whether it is the whole work, whether only its abstract can *)
(* be had, whether the named sections should be cut from it.  As a candidate   *)
(* it carries what it was looked up for.                                       *)
Candidate(hit, w, route) ==
    [url |-> hit.url, whole |-> hit.whole, bare |-> hit.bare, expected |-> hit.expected,
     title |-> w.title, author |-> w.author, concepts |-> w.concepts,
     sections |-> {w.sections} \ {0}, scope |-> w.scope, figure |-> w.figure,
     route |-> route, priority |-> FALSE, rank |-> 2]

Whole(found) == \E c \in Range(found) : c.whole /\ ~c.bare
Sufficient(w, found) ==
    Whole(found) \/ (w.sections # 0 /\ \E c \in Range(found) : c.expected)

(* A route's hits join what was found: not a url seen before, and no more than *)
(* MaxPartial parts of a work.                                                 *)
Joined(found, hits, w, route) ==
    FoldLeft(LAMBDA sofar, h :
                 LET parts == {i \in DOMAIN sofar : ~sofar[i].whole}
                 IN  IF \/ \E c \in Range(sofar) : c.url = h.url
                        \/ ~h.whole /\ Cardinality(parts) >= MaxPartial
                     THEN sofar ELSE Append(sofar, Candidate(h, w, route)),
             found, hits)

(* _mark_priority: the best hit, and only it, is fetched before anything else. *)
Grade(c) == (IF c.whole THEN 0 ELSE 4) + (IF c.bare THEN 2 ELSE 0)
            + (IF c.expected THEN 0 ELSE 1)
RankOf(scope) == CASE scope = "overall" -> 0 [] scope = "concept" -> 1 [] OTHER -> 2
MarkPriority(w, found) ==
    LET best == CHOOSE i \in DOMAIN found :
                    /\ \A j \in DOMAIN found : Grade(found[i]) <= Grade(found[j])
                    /\ \A j \in 1..(i - 1) : Grade(found[j]) > Grade(found[i])
    IN  IF found = <<>> THEN found
        ELSE [found EXCEPT ![best].priority = TRUE, ![best].rank = RankOf(w.scope)]

(* Mutant: a volume found for two lookups keeps the first one's marks.         *)
KeepFirstVolume(candidates) ==
    FoldLeft(LAMBDA kept, c : IF \E k \in Range(kept) : k.url = c.url THEN kept
                              ELSE Append(kept, c), <<>>, candidates)

(* _merge_same_volume: one candidate per url, with everybody's sections.       *)
MergeSameVolume(candidates) ==
    LET Merge(kept, c) ==
            LET at == SelectInSeq(kept, LAMBDA k : k.url = c.url)
                both(k) == [k EXCEPT !.sections = @ \cup c.sections,
                                     !.concepts = @ \cup c.concepts,
                                     !.priority = @ \/ c.priority,
                                     !.rank = IF c.priority /\ c.rank < @ THEN c.rank ELSE @]
            IN  IF at = 0 THEN Append(kept, c) ELSE [kept EXCEPT ![at] = both(@)]
    IN  FoldLeft(Merge, <<>>, candidates)

-----------------------------------------------------------------------------
(* What the accepted corpus says of the works.  An accepted source keeps its   *)
(* candidate's marks, with its tier and what became of its text: cut to the    *)
(* named sections, or truncated.                                               *)
PrimaryHits(accepted, w) ==
    {s \in accepted : s.title = w.title /\ s.tier = "primary"}

(* must_have_outcomes: entries of one work are one; a title decides the hits.  *)
DistinctWorks(works) ==
    LET Merge(distinct, w) ==
            LET at == SelectInSeq(distinct, LAMBDA d : Key(d) = Key(w))
                scoped(d) == IF w.scope = "overall" THEN [d EXCEPT !.scope = "overall"] ELSE d
            IN  IF at = 0 THEN Append(distinct, w)
                ELSE [distinct EXCEPT ![at] = scoped(Absorbed(@, w))]
    IN  FoldLeft(Merge, <<>>, works)

Outcome(w, accepted) ==
    LET hits == PrimaryHits(accepted, w)
    IN  CASE \E s \in hits : s.whole /\ ~s.cut -> "whole"
          [] hits # {} /\ ~\E s \in hits : s.whole /\ ~s.cut ->
                 IF \E s \in hits : s.cut THEN "sections" ELSE "partial"
          [] OTHER -> IF Obtainable(w) THEN "not_found" ELSE "not_obtainable"

Outcomes(works, accepted) ==
    {<<w, Outcome(w, accepted)>> : w \in Range(DistinctWorks(works))}

(* Mutant: a lookup has its text when everything found for it is the text.     *)
StatusOfEveryHit(l, accepted) ==
    LET hits == {s \in PrimaryHits(accepted, l) :
                    l.sections = 0 \/ s.concepts \cap l.concepts # {}}
    IN  IF hits = {} THEN 1 ELSE IF \A s \in hits : s.cut \/ s.whole THEN 3 ELSE 2

(* concept_named_texts, lookup by lookup; a concept takes its best status.     *)
LookupStatus(l, accepted) ==
    LET hits == {s \in PrimaryHits(accepted, l) :
                    l.sections = 0 \/ s.concepts \cap l.concepts # {}}
    IN  CASE \E s \in hits : s.cut \/ (s.whole /\ ~(l.sections # 0 /\ s.truncated)) -> 3
          [] hits # {} /\ ~\E s \in hits :
                 s.cut \/ (s.whole /\ ~(l.sections # 0 /\ s.truncated)) -> 2
          [] OTHER -> 1

NamedTexts(works, accepted) ==
    LET lookups == Range(MergeWorks(SelectSeq(works, LAMBDA w : w.concepts # {})))
        For(c) == {LookupStatus(l, accepted) : l \in {l \in lookups : c \in l.concepts}}
        concepts == UNION {l.concepts : l \in lookups}
    IN  [c \in concepts |-> CHOOSE best \in For(c) : \A s \in For(c) : s <= best]

(* figure_outcomes: heard in their own voice, only written about, or not there.*)
FigureOutcome(f, obtainable, works, accepted) ==
    LET titles == {w.title : w \in {w \in Range(works) : w.figure = f}}
        mine == {s \in accepted : s.figure = f \/ s.title \in titles}
    IN  CASE \E s \in mine : s.tier \in {"primary", "secondary"} -> "own_voice"
          [] mine # {} /\ ~\E s \in mine : s.tier \in {"primary", "secondary"} -> "about_only"
          [] OTHER -> IF obtainable THEN "not_found" ELSE "not_obtainable"

(* _boosted_must_have_titles: no work already in hand is lifted in triage.     *)
BoostedTitles(titles, round, resolved, accepted) ==
    LET hits(t) == {s \in accepted : s.title = t /\ s.tier = "primary"}
        inHand == IF round = 0 THEN {r.work.title : r \in {r \in resolved : Whole(r.found)}}
                  ELSE {t \in titles : \E s \in hits(t) : s.whole /\ ~s.cut}
    IN  titles \ inHand
=============================================================================
