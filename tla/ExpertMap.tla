------------------------------ MODULE ExpertMap ------------------------------
(* audit/expert_map.py and what audit/service.py and audit/repository.py read  *)
(* for it: the syllabus with its gaps, the sources, the concepts drawn, and one*)
(* concept's panel.  Each query of a request is a snapshot of its own, and the *)
(* corpus may change between two of them.                                      *)
EXTENDS Integers, Sequences, FiniteSets, SequencesExt, Functions

CONSTANTS
    SourceIds,
    Mentions,           \* source -> the concepts its passages evidence
    Degree, Sector,     \* of a concept: edges, and key concept (or NoSector)
    PartOf,             \* pairs of concepts
    About,              \* claim -> the concepts it is about
    Disputes,           \* bound: which pairs of claims may contradict
    Plans,              \* what a plan and the build's report of it may be (Gaps)
    KeyConcepts,        \* how many the syllabus has
    SharedMin, TopUp, MaxShown, MaxExpanded,
    MaxChanges          \* bound on the changes to the corpus

NoSector == -1

VARIABLES
    plan,       \* [named: sequence of <<concept, status, title>>, must: of
                \*  <<title, status>>]
    sources,    \* the kept sources
    nodes,      \* the concept nodes
    against,    \* pairs of claims with a `contradicts' edge
    ready,      \* graph_expanded
    request,    \* [at, gate, sources, concepts, links, expand]
    changes, torn   \* how often the corpus changed; did it during this request

vars == <<plan, sources, nodes, against, ready, request, changes, torn>>

NoRequest == [at |-> "off", gate |-> FALSE, sources |-> {}, concepts |-> {}, links |-> {},
              expand |-> NoSector]

Init ==
    /\ plan \in Plans
    /\ \E s \in SourceIds : sources = {s} /\ nodes = Mentions[s]
    /\ against \in SUBSET Disputes
    /\ ready = TRUE
    /\ request = NoRequest
    /\ changes = 0 /\ torn = FALSE

-----------------------------------------------------------------------------
(* The corpus changes: a source is kept, and its concepts come later; a source *)
(* is removed, its concepts stay without it; a rebuild starts over.            *)
Changed == /\ changes < MaxChanges
           /\ changes' = changes + 1
           /\ torn' = (request.at \notin {"off", "answered"} \/ torn)
           /\ UNCHANGED <<plan, against, request>>

SourceKept(s) ==
    /\ s \notin sources
    /\ sources' = sources \cup {s}
    /\ Changed /\ UNCHANGED <<nodes, ready>>

Extracted(s) ==
    /\ s \in sources /\ ~(Mentions[s] \subseteq nodes)
    /\ nodes' = nodes \cup Mentions[s] /\ ready' = TRUE
    /\ Changed /\ UNCHANGED sources

SourceRemoved(s) ==
    /\ s \in sources
    /\ sources' = sources \ {s}
    /\ Changed /\ UNCHANGED <<nodes, ready>>

StartedOver ==
    /\ sources' = {} /\ nodes' = {} /\ ready' = FALSE
    /\ Changed

-----------------------------------------------------------------------------
(* expert_map: the row is loaded, then sources, concepts and links are read.   *)
Load(expand) ==
    /\ request.at = "off"
    /\ request' = [NoRequest EXCEPT !.at = "sources", !.gate = ready, !.expand = expand]
    /\ torn' = FALSE
    /\ UNCHANGED <<plan, sources, nodes, against, ready, changes>>

ReadSources ==
    /\ request.at = "sources"
    /\ request' = [request EXCEPT !.sources = sources,
                                  !.at = IF request.gate THEN "concepts" ELSE "answered"]
    /\ UNCHANGED <<plan, sources, nodes, against, ready, changes, torn>>

(* map_concepts: a concept's sources are those of its passages that are kept;  *)
(* its disputes the contradicting pairs with a claim about it.                 *)
SourcesOf(c) == {s \in sources : c \in Mentions[s]}
DisputesOf(c) == {d \in against : c \in About[d[1]] \cup About[d[2]]}
ReadConcepts ==
    /\ request.at = "concepts"
    /\ request' = [request EXCEPT !.at = "links", !.concepts =
          {[id |-> c, sources |-> SourcesOf(c), degree |-> Degree[c], sector |-> Sector[c],
            disputes |-> Cardinality(DisputesOf(c)), topped |-> FALSE] : c \in nodes}]
    /\ UNCHANGED <<plan, sources, nodes, against, ready, changes, torn>>

(* map_links, between the concepts with a source.                              *)
ReadLinks ==
    LET ids == {c.id : c \in {c \in request.concepts : c.sources # {}}}
    IN  /\ request.at = "links"
        /\ request' = [request EXCEPT !.at = "answered", !.links =
              {l \in PartOf : {l[1], l[2]} \subseteq ids \cap nodes}]
        /\ UNCHANGED <<plan, sources, nodes, against, ready, changes, torn>>

Forget ==
    /\ request.at = "answered"
    /\ request' = NoRequest
    /\ UNCHANGED <<plan, sources, nodes, against, ready, changes, torn>>

Next ==
    \/ \E s \in SourceIds : SourceKept(s) \/ Extracted(s) \/ SourceRemoved(s)
    \/ StartedOver
    \/ \E expand \in {NoSector} \cup 0..KeyConcepts : Load(expand)
    \/ ReadSources \/ ReadConcepts \/ ReadLinks \/ Forget

Spec == Init /\ [][Next]_vars

-----------------------------------------------------------------------------
Upto(s, n) == SubSeq(s, 1, IF n < Len(s) THEN n ELSE Len(s))

Ahead(c, d) ==
    LET a == Cardinality(c.sources)
        b == Cardinality(d.sources)
    IN  a > b \/ (a = b /\ (c.degree > d.degree \/ (c.degree = d.degree /\ c.id < d.id)))
Busier(c, d) == c.degree > d.degree \/ (c.degree = d.degree /\ c.id < d.id)

(* Mutant: the sector's concepts are added whether or not they are drawn.      *)
ExpandedAgain(rank, picked, sector) ==
    picked \o Upto(SelectSeq(rank, LAMBDA c : c.sector = sector), MaxExpanded - Len(picked))

Expanded(rank, picked, sector) ==
    LET have == {c.id : c \in Range(picked)}
        more == SelectSeq(rank, LAMBDA c : c.sector = sector /\ c.id \notin have)
        Marked(c) == [c EXCEPT !.topped = Cardinality(c.sources) < SharedMin]
        room == IF Len(picked) < MaxExpanded THEN MaxExpanded - Len(picked) ELSE 0
        taken == Upto(more, room)
    IN  picked \o [i \in 1..Len(taken) |-> Marked(taken[i])]

(* select_concepts.  A key concept that the syllabus no longer has is none.    *)
SelectConcepts(concepts, expand) ==
    LET known == {[c EXCEPT !.sector = IF @ \in 0..(KeyConcepts - 1) THEN @ ELSE NoSector] :
                     c \in {c \in concepts : c.sources # {}}}
        Shared(c) == Cardinality(c.sources) >= SharedMin
        rank == SetToSortSeq(known, Ahead)
        first == Upto(SelectSeq(rank, Shared), MaxShown)
        single == Upto(SetToSortSeq({c \in known : ~Shared(c)}, Busier), TopUp - Len(first))
        picked == IF Len(first) >= TopUp THEN first
                  ELSE first \o [i \in 1..Len(single) |-> [single[i] EXCEPT !.topped = TRUE]]
    IN  IF expand \in 0..(KeyConcepts - 1) THEN Expanded(rank, picked, expand) ELSE picked

(* _gaps: named texts that are missing, then must-have works not found.        *)
Gaps ==
    LET missing == SelectSeq(plan.named, LAMBDA t : t[2] = "missing" /\ t[3] # "none")
        named == [i \in 1..Len(missing) |-> missing[i][3]]
        Add(gaps, w) == IF w[2] = "not_found" /\ w[1] \notin Range(gaps)
                        THEN Append(gaps, w[1]) ELSE gaps
    IN  FoldLeft(Add, named, plan.must)

(* build_map *)
Shown == IF request.gate THEN SelectConcepts(request.concepts, request.expand) ELSE <<>>
ShownIds == {c.id : c \in Range(Shown)}
Links == {l \in request.links : {l[1], l[2]} \subseteq ShownIds}

(* build_concept_detail: a claim's relations are seen from its own side.       *)
ClaimsOf(c) == {k \in DOMAIN About : c \in About[k]}
Relations(k) == {d[2] : d \in {d \in against : d[1] = k}} \cup
                {d[1] : d \in {d \in against : d[2] = k}}
Disputed(c) == {k \in ClaimsOf(c) : Relations(k) # {}}

-----------------------------------------------------------------------------
(* Whatever changes while it is read, the map is one: no concept is drawn      *)
(* twice, every link joins two that are drawn, what several sources agree on is*)
(* never left out for what one of them says, and the sizes keep their bounds.  *)
MapIsOne ==
    request.at = "answered" =>
      LET shown == Shown
      IN  /\ \A i, j \in DOMAIN shown : shown[i].id = shown[j].id => i = j
          /\ \A l \in Links : {l[1], l[2]} \subseteq ShownIds
          /\ Len(shown) <= (IF request.expand = NoSector /\ TopUp <= MaxShown
                            THEN MaxShown ELSE MaxExpanded)
          /\ \A c \in request.concepts, i \in DOMAIN shown :
                /\ Cardinality(c.sources) >= SharedMin /\ c.id \notin ShownIds
                => Cardinality(shown[i].sources) >= SharedMin

(* A request during which nothing changed shows what there is: no concept is   *)
(* drawn that no source shown feeds, and the map calls a concept disputed when *)
(* its panel does.                                                             *)
MapIsTrue ==
    request.at = "answered" /\ ~torn =>
        \A i \in DOMAIN Shown :
            /\ Shown[i].sources # {} /\ Shown[i].sources \subseteq request.sources
            /\ Shown[i].disputes > 0 <=> Disputed(Shown[i].id) # {}

MapHolds == MapIsOne /\ MapIsTrue

(* What the docstring of select_concepts says of a concept without a source: it*)
(* "is never drawn - nothing on the orbit feeds it".                           *)
OrbitFeedsIt ==
    request.at = "answered" =>
        \A i \in DOMAIN Shown : Shown[i].sources \cap request.sources # {}

(* What the docstring of _gaps says: "The same title is never a gap twice".    *)
GapOnce == IsInjective(Gaps)
=============================================================================
