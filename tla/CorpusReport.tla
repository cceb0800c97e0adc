----------------------------- MODULE CorpusReport -----------------------------
(* What audit/service.py reports of a corpus, from the queries of              *)
(* audit/repository.py: every source considered, how each concept is covered,  *)
(* what the re-searches brought, where claims contradict, the graph.  A request*)
(* is a list of queries, each a snapshot of its own; a build, an upload or the *)
(* owner may change the corpus between two of them.  Means and texts are left  *)
(* out.                                                                        *)
EXTENDS Integers, Sequences, FiniteSets, SequencesExt, FiniteSetsExt, Functions, TLC

CONSTANTS
    Catalog,        \* source -> its row (below)
    New, Uploads,   \* the sources this build, and the owner, may bring
    Passages,       \* source -> its passages, in order
    Claims,         \* claim -> the passages it can be extracted from, in order
    Edges,          \* [id, from, to, type, evidence]
    KeyConcepts,    \* the plan's concepts, in order
    Starts,         \* [rows, gone, graph, ready]: corpora to begin with (gone: deleted
                    \*  since the graph was extracted)
    Asks,           \* [kind, decision, sort]: the requests
    PageLimit, MaxReasons, MaxExport, PerSide, MaxNodes,
    QFloor, RFloor, ThinMean, StrongMean, StrongSources, StrongTypes,
    MaxChanges      \* bound on the changes to the corpus

(* A row: passed, q, r (scores; Null), type, title, reason (numbers; Blank: no *)
(* reason), via (a sequence: what stands between colons; <<>>: NULL), judged   *)
(* (<<rubric, model>>), tagged (were tags recorded?), tags.                    *)
Null == -1
Blank == 0
NoRubric == <<"none", "none">>

VARIABLES
    rows,       \* `sources': those with a row
    stored,     \* `source_chunks'
    graph,      \* `expert_nodes': claim -> chunk_ids
    edges,      \* `expert_edges'
    ready,      \* readiness is graph_ready
    wiped,      \* a rebuild reset the corpus and has not persisted its own yet
    request,    \* [ask, offset, seen (on earlier pages), clean (nothing changed until
                \*  this page was asked for), todo (sections yet to be read),
                \*  read (section -> what its query returned)]
    changes,    \* how often the corpus changed
    touched     \* has it changed since this page was asked for?

vars == <<rows, stored, graph, edges, ready, wiped, request, changes, touched>>

Bit(b) == IF b THEN 1 ELSE 0
Smaller(x, y) == IF x < y THEN x ELSE y
PassagesOf(S) == UNION {Range(Passages[s]) : s \in S}
SourceOf(c) == CHOOSE s \in DOMAIN Catalog : c \in Range(Passages[s])

(* bulk_insert_from_extractions: a claim already there is deepened.            *)
Extraction(before, chunks) ==
    [n \in DOMAIN before \cup {n \in DOMAIN Claims : Range(Claims[n]) \cap chunks # {}} |->
        SelectSeq(Claims[n], LAMBDA c : \/ c \in chunks
                                        \/ n \in DOMAIN before /\ c \in Range(before[n]))]

Between(nodes) == {e \in Edges : e.from \in nodes /\ e.to \in nodes}

Accepted(S) == {s \in S : Catalog[s].passed}

(* corpus_report, the tables' half of screening_flow, coverage, contradictions,*)
(* graph and export_rows: the queries of each, in order.                       *)
Sections(kind) ==
    CASE kind = "report" -> <<"page", "matching", "totals", "scores", "gaps", "rubrics", "types",
                              "methods", "searches", "reasons", "buckets", "ingested">>
      [] kind = "screening" -> <<"totals", "reasons", "buckets", "ingested", "searches",
                                 "gapfills">>
      [] kind = "coverage" -> <<"covering", "tagging", "gapfills">>
      [] kind = "contradictions" -> <<"readiness", "summary", "mix", "disputes", "passages">>
      [] kind = "graph" -> <<"expanded", "nodes", "edges">>
      [] kind = "export" -> <<"export">>

Init ==
    /\ \E start \in Starts :
        /\ rows = start.rows
        /\ stored = PassagesOf(Accepted(start.rows))
        /\ graph = IF start.graph
                   THEN Extraction(<<>>, PassagesOf(Accepted(start.rows \cup start.gone)))
                   ELSE <<>>
        /\ edges = IF start.ready THEN Between(DOMAIN graph) ELSE {}
        /\ ready = start.ready
    /\ \E ask \in Asks : request = [ask |-> ask, offset |-> 0, seen |-> <<>>, clean |-> TRUE,
                                    todo |-> Sections(ask.kind), read |-> <<>>]
    /\ wiped = FALSE /\ changes = 0 /\ touched = FALSE

-----------------------------------------------------------------------------
(* The corpus changes.                                                         *)
Changed ==
    /\ changes < MaxChanges
    /\ changes' = changes + 1
    /\ touched' = TRUE
    /\ UNCHANGED request

(* An upload has no scores and no rubric, and is accepted (insert_source).     *)
Upload(s) ==
    /\ s \in Uploads \ rows
    /\ rows' = rows \cup {s}
    /\ Changed /\ UNCHANGED <<stored, graph, edges, ready, wiped>>

(* _bulk_insert: passage by passage, outside a transaction.                    *)
StorePassage(s) ==
    LET missing == SelectSeq(Passages[s], LAMBDA c : c \notin stored)
    IN  /\ s \in Accepted(rows) /\ missing # <<>>
        /\ stored' = stored \cup {missing[1]}
        /\ Changed /\ UNCHANGED <<rows, graph, edges, ready, wiped>>

(* delete_source: the passages go with it, the graph's chunk_ids stay.         *)
DeleteSource(s) ==
    /\ s \in rows
    /\ rows' = rows \ {s}
    /\ stored' = stored \ Range(Passages[s])
    /\ Changed /\ UNCHANGED <<graph, edges, ready, wiped>>

(* delete_build_data: everything but uploads, in one transaction.              *)
Reset ==
    /\ ~wiped
    /\ rows' = rows \cap Uploads
    /\ stored' = stored \cap PassagesOf(Uploads)
    /\ graph' = <<>> /\ edges' = {} /\ ready' = FALSE /\ wiped' = TRUE
    /\ Changed

Persist ==
    /\ wiped
    /\ rows' = rows \cup New /\ wiped' = FALSE
    /\ Changed /\ UNCHANGED <<stored, graph, edges, ready>>

Extract ==
    /\ Extraction(graph, stored) # graph
    /\ graph' = Extraction(graph, stored)
    /\ Changed /\ UNCHANGED <<rows, stored, edges, ready, wiped>>

(* _reconcile_claims, of the claims in the graph by then.                      *)
Reconcile ==
    /\ edges # Between(DOMAIN graph)
    /\ edges' = Between(DOMAIN graph)
    /\ Changed /\ UNCHANGED <<rows, stored, graph, ready, wiped>>

MarkReady ==
    /\ ~ready /\ graph # <<>>
    /\ ready' = TRUE
    /\ Changed /\ UNCHANGED <<rows, stored, graph, edges, wiped>>

-----------------------------------------------------------------------------
(* The queries over sources.                                                   *)
Of(decision) ==
    {s \in rows : decision = "all" \/ Catalog[s].passed = (decision = "accepted")}

(* SOURCE_SORTS: Null is the smallest score, so it comes last of a descending  *)
(* order; every order ends in the id.                                          *)
SortKey(sort, s) ==
    LET row == Catalog[s]
    IN  CASE sort = "decision"  -> <<1 - Bit(row.passed), -row.q, s>>
          [] sort = "quality"   -> <<-row.q, s>>
          [] sort = "relevance" -> <<-row.r, s>>
          [] sort = "title"     -> <<row.title, s>>
          [] sort = "type"      -> <<row.type, -row.q, s>>
          [] sort = "added"     -> <<s>>
Precedes(a, b) == \E i \in DOMAIN a : a[i] < b[i] /\ \A j \in 1..(i - 1) : a[j] = b[j]
InOrder(S, sort) == SetToSortSeq(S, LAMBDA a, b : Precedes(SortKey(sort, a), SortKey(sort, b)))

(* list_sources *)
Page(decision, sort, offset) ==
    LET all == InOrder(Of(decision), sort)
    IN  SubSeq(all, offset + 1, Smaller(offset + PageLimit, Len(all)))

(* source_totals, and the same columns under a GROUP BY.                       *)
Tally(S) == [considered |-> Cardinality(S), accepted |-> Cardinality(Accepted(S)),
             rejected |-> Cardinality(S \ Accepted(S))]
Grouped(key) == [k \in Range(key) |-> Tally({s \in DOMAIN key : key[s] = k})]

(* score_distribution and _distribution: ten bins, a 10 in the last of them.   *)
Score(metric, s) == IF metric = "quality" THEN Catalog[s].q ELSE Catalog[s].r
Bin(x) == Smaller(9, x)
Distribution ==
    [metric \in {"quality", "relevance"} |-> [decision \in {"accepted", "rejected"} |->
        [bin \in 0..9 |-> Cardinality({s \in Of(decision) :
                              Score(metric, s) # Null /\ Bin(Score(metric, s)) = bin})]]]

(* provenance_gaps, rubric_versions, source_type_breakdown,                    *)
(* discovery_breakdown (the part before the colon) and search_provenance.      *)
Missing(S) == Cardinality(S)
Gaps ==
    [rubric |-> Missing({s \in rows : Catalog[s].judged = NoRubric}),
     via |-> Missing({s \in rows : Catalog[s].via = <<>>}),
     tags |-> Missing({s \in Accepted(rows) : ~Catalog[s].tagged}),
     quality |-> Missing({s \in rows : Catalog[s].q = Null}),
     relevance |-> Missing({s \in rows : Catalog[s].r = Null}),
     reason |-> Missing({s \in Of("rejected") : Catalog[s].reason = Blank})]
Rubrics == Grouped([s \in rows |-> Catalog[s].judged])
Types == Grouped([s \in rows |-> Catalog[s].type])
(* parse_discovery_method: the method, and of a re-search its concept.         *)
Method(via) == IF via = <<>> THEN "unknown" ELSE via[1]
ConceptOf(via) == IF Method(via) = "gapfill" THEN Tail(via) ELSE <<>>
Methods == Grouped([s \in rows |-> Method(Catalog[s].via)])
Searches == Grouped([s \in rows |-> Catalog[s].via])

(* drop_reasons: the most frequent, as many as the limit.                      *)
Reasons ==
    LET reason == [s \in Of("rejected") |-> Catalog[s].reason]
        n == [k \in Range(reason) |-> Cardinality({s \in DOMAIN reason : reason[s] = k})]
        order == SetToSortSeq(DOMAIN n, LAMBDA a, b : Precedes(<<-n[a], a>>, <<-n[b], b>>))
    IN  [i \in 1..Smaller(MaxReasons, Len(order)) |-> [reason |-> order[i], n |-> n[order[i]]]]

(* rejection_buckets: a comparison with NULL is no match.                      *)
Below(x, floor) == x # Null /\ x < floor
Meets(x, floor) == x # Null /\ x >= floor
Buckets ==
    LET Out(Q(_, _), R(_, _)) ==
            Cardinality({s \in Of("rejected") : Q(Catalog[s].q, QFloor) /\ R(Catalog[s].r, RFloor)})
    IN  [unscored |-> Cardinality({s \in Of("rejected") :
                          Catalog[s].q = Null \/ Catalog[s].r = Null}),
         both |-> Out(Below, Below), quality |-> Out(Below, Meets),
         relevance |-> Out(Meets, Below), neither |-> Out(Meets, Meets)]

(* ingestion_stats *)
Searchable(s) == Range(Passages[s]) \cap stored
Ingested ==
    [with |-> Cardinality({s \in Accepted(rows) : Searchable(s) # {}}),
     without |-> Cardinality({s \in Accepted(rows) : Searchable(s) = {}}),
     passages |-> Cardinality(UNION {Searchable(s) : s \in Accepted(rows)})]

(* export_rows: one more than may be exported is asked for.                    *)
Export(decision) ==
    LET all == InOrder(Of(decision), "decision")
        got == SubSeq(all, 1, Smaller(MaxExport + 1, Len(all)))
    IN  [refused |-> Len(got) > MaxExport, rows |-> SubSeq(got, 1, Smaller(MaxExport, Len(got)))]

(* concept_coverage_rows, concept_tagging_stats.                               *)
Covering ==
    LET tags == UNION {Catalog[s].tags : s \in Accepted(rows)}
    IN  [c \in tags |-> {s \in Accepted(rows) : c \in Catalog[s].tags}]
Tagging ==
    LET Count(S) == Cardinality(S)
        kept == Accepted(rows)
    IN  [legacy |-> Count({s \in kept : ~Catalog[s].tagged}),
         none |-> Count({s \in kept : Catalog[s].tagged /\ Catalog[s].tags = {}}),
         some |-> Count({s \in kept : Catalog[s].tagged /\ Catalog[s].tags # {}})]

(* gapfill_concepts and gapfill_sources: the concept is split_part's, what     *)
(* stands between the first colon and the second.                              *)
Refound == {s \in rows : ConceptOf(Catalog[s].via) # <<>>}
Gapfills == Grouped([s \in Refound |-> <<Catalog[s].via[2]>>])

(* contradiction_summary, edge_type_breakdown, contradiction_edges.            *)
Contradicts == {e \in edges : e.type = "contradicts"}
Summary == [total |-> Cardinality(Contradicts),
            claims |-> Cardinality(UNION {{e.from, e.to} : e \in Contradicts})]
Mix == [t \in {e.type : e \in edges} |-> Cardinality({e \in edges : e.type = t})]
Disputes(offset) ==
    LET all == SetToSortSeq(Contradicts, LAMBDA d, e :
                   Precedes(<<-d.evidence, d.id>>, <<-e.evidence, e.id>>))
        page == SubSeq(all, offset + 1, Smaller(offset + PageLimit, Len(all)))
    IN  [i \in 1..Len(page) |-> [edge |-> page[i], from |-> graph[page[i].from],
                                                   to |-> graph[page[i].to]]]

(* _pick_side_chunks: the passages of one side only come first.                *)
Pick(own, other) ==
    LET exclusive == SelectSeq(own, LAMBDA c : c \notin Range(other))
        shared == SelectSeq(own, LAMBDA c : c \in Range(other))
        both == exclusive \o shared
    IN  SubSeq(both, 1, Smaller(PerSide, Len(both)))

(* chunks_with_sources: what of the picked is still there.                     *)
Resolved(disputes) ==
    {c \in stored : \E i \in DOMAIN disputes :
        c \in Range(Pick(disputes[i].from, disputes[i].to))
              \cup Range(Pick(disputes[i].to, disputes[i].from))}

(* full_graph: the nodes of the highest degree, then the edges between them.   *)
Degree(n) == Cardinality({e \in edges : n \in {e.from, e.to}})
TopNodes ==
    LET all == SetToSortSeq(DOMAIN graph,
                   LAMBDA m, n : Precedes(<<-Degree(m), m>>, <<-Degree(n), n>>))
    IN  SubSeq(all, 1, Smaller(MaxNodes, Len(all)))
EdgesAmong(nodes) == {e \in edges : {e.from, e.to} \subseteq Range(nodes)}

-----------------------------------------------------------------------------
(* One query of the request.                                                   *)
Result(section) ==
    LET ask == request.ask
        read == request.read
    IN  CASE section = "page"      -> Page(ask.decision, ask.sort, request.offset)
          [] section = "matching"  -> Cardinality(Of(ask.decision))
          [] section = "totals"    -> Tally(rows)
          [] section = "scores"    -> Distribution
          [] section = "gaps"      -> Gaps
          [] section = "rubrics"   -> Rubrics
          [] section = "types"     -> Types
          [] section = "methods"   -> Methods
          [] section = "searches"  -> Searches
          [] section = "reasons"   -> Reasons
          [] section = "buckets"   -> Buckets
          [] section = "ingested"  -> Ingested
          [] section = "export"    -> Export(ask.decision)
          [] section = "covering"  -> Covering
          [] section = "tagging"   -> Tagging
          [] section = "gapfills"  -> Gapfills
          [] section \in {"readiness", "expanded"} -> ready
          [] section = "summary"   -> Summary
          [] section = "mix"       -> Mix
          [] section = "disputes"  -> Disputes(request.offset)
          [] section = "passages"  -> Resolved(read["disputes"])
          [] section = "nodes"     -> TopNodes
          [] section = "edges"     -> EdgesAmong(read["nodes"])

(* A graph that is not extracted yet is not asked for its contradictions, nor  *)
(* drawn: it is answered as not computed.                                      *)
Query ==
    LET section == Head(request.todo)
    IN  /\ request.todo # <<>>
        /\ request' = [request EXCEPT
               !.read = (section :> Result(section)) @@ @,
               !.todo = IF section \in {"readiness", "expanded"} /\ ~ready THEN <<>> ELSE Tail(@)]
        /\ UNCHANGED <<rows, stored, graph, edges, ready, wiped, changes, touched>>

(* has_more, and the client that asks for the next page.                       *)
Answered(kind) == request.ask.kind = kind /\ request.todo = <<>>
Computed == Answered("contradictions") /\ request.read["readiness"]
Drawn == Answered("graph") /\ request.read["expanded"]
Shown == IF Answered("report") THEN request.read["page"]
         ELSE LET page == request.read["disputes"]
              IN  [i \in 1..Len(page) |-> page[i].edge.id]
HasMore ==
    \/ Answered("report") /\ request.offset + Len(Shown) < request.read["matching"]
    \/ Computed /\ request.offset + Len(Shown) < request.read["summary"].total

NextPage ==
    /\ HasMore /\ Shown # <<>>
    /\ request' = [request EXCEPT !.offset = @ + Len(Shown), !.seen = @ \o Shown,
                                  !.clean = @ /\ ~touched,
                                  !.todo = Sections(request.ask.kind), !.read = <<>>]
    /\ touched' = FALSE
    /\ UNCHANGED <<rows, stored, graph, edges, ready, wiped, changes>>

Next ==
    \/ Query \/ NextPage
    \/ \E s \in DOMAIN Catalog : Upload(s) \/ StorePassage(s) \/ DeleteSource(s)
    \/ Reset \/ Persist \/ Extract \/ Reconcile \/ MarkReady

Spec == Init /\ [][Next]_vars

-----------------------------------------------------------------------------
(* classify_coverage, of a concept's sources; the mean is of the scored ones.  *)
Strength(S) ==
    LET scored == {s \in S : Catalog[s].q # Null}
        total == MapThenSumSet(LAMBDA s : Catalog[s].q, scored)
        kinds == {Catalog[s].type : s \in S}
    IN  CASE S = {} -> "absent"
          [] Cardinality(S) = 1 \/ total < ThinMean * Cardinality(scored) -> "thin"
          [] /\ Cardinality(S) >= StrongSources /\ Cardinality(kinds) >= StrongTypes
             /\ total >= StrongMean * Cardinality(scored) -> "strong"
          [] OTHER -> "adequate"

(* _concept_block; and coverage, of the plan's concepts and the tags that are  *)
(* not on it.                                                                  *)
ConceptBlock(sources, searched) ==
    [sources |-> sources, strength |-> Strength(sources),
     refound |-> searched \/ \E s \in sources : ConceptOf(Catalog[s].via) # <<>>]
Blocks ==
    LET covering == request.read["covering"]
        On(c) == IF c \in DOMAIN covering THEN covering[c] ELSE {}
    IN  [c \in Range(KeyConcepts) \cup DOMAIN covering |->
            ConceptBlock(On(c), c \in DOMAIN request.read["gapfills"])]

(* _gapfill_rounds: a re-search of which something was kept is told to have    *)
(* covered its concept.                                                        *)
Rounds ==
    [c \in DOMAIN request.read["gapfills"] |->
        LET tally == request.read["gapfills"][c]
        IN  [tally |-> tally, covered |-> tally.accepted > 0]]

(* _contradiction_item and _side.                                              *)
Side(own, other) ==
    LET picked == Pick(own, other)
        found == SelectSeq(picked, LAMBDA c : c \in request.read["passages"])
    IN  [own |-> own, passages |-> found, missing |-> Len(picked) - Len(found),
         sources |-> {SourceOf(c) : c \in Range(found)}]
Items ==
    LET page == request.read["disputes"]
        Item(d) ==
            LET a == Side(d.from, d.to)
                b == Side(d.to, d.from)
            IN  [a |-> a, b |-> b,
                 kind |-> CASE a.sources = {} \/ b.sources = {} -> "undetermined"
                            [] a.sources = b.sources -> "within_source"
                            [] OTHER -> "cross_source"]
    IN  [i \in 1..Len(page) |-> Item(page[i])]

-----------------------------------------------------------------------------
Total(tallies) ==
    LET Sum(Field(_)) == MapThenSumSet(LAMBDA k : Field(tallies[k]), DOMAIN tallies)
    IN  [considered |-> Sum(LAMBDA t : t.considered), accepted |-> Sum(LAMBDA t : t.accepted),
         rejected |-> Sum(LAMBDA t : t.rejected)]

(* What a report shows adds up, when nothing changed under it: however the     *)
(* sources are cut, by rubric, type, method or search, the parts make the      *)
(* total; every rejected one is in one bucket and under one reason; every score*)
(* is in the histogram or missing; every accepted one has passages or has none.*)
ReportAddsUp ==
    \/ ~Answered("report") \/ touched
    \/ LET read == request.read
           all == read["totals"]
           Binned(metric) == MapThenSumSet(LAMBDA b : read["scores"][metric]["accepted"][b]
                                                    + read["scores"][metric]["rejected"][b], 0..9)
           bucket == read["buckets"]
           named == FoldSeq(LAMBDA r, n : n + r.n, 0, read["reasons"])
       IN  /\ \A cut \in {"rubrics", "types", "methods", "searches"} : Total(read[cut]) = all
           /\ \A m \in DOMAIN read["methods"] : read["methods"][m] =
                  Total(Restrict(read["searches"],
                                 {via \in DOMAIN read["searches"] : Method(via) = m}))
           /\ bucket.unscored + bucket.both + bucket.quality + bucket.relevance + bucket.neither
                  = all.rejected
           /\ named <= all.rejected
           /\ Len(read["reasons"]) < MaxReasons => named = all.rejected
           /\ Binned("quality") + read["gaps"].quality = all.considered
           /\ Binned("relevance") + read["gaps"].relevance = all.considered
           /\ read["ingested"].with + read["ingested"].without = all.accepted
           /\ read["matching"] = CASE request.ask.decision = "all" -> all.considered
                                   [] request.ask.decision = "accepted" -> all.accepted
                                   [] OTHER -> all.rejected

(* Whoever pages until has_more is false has seen, if nothing changed meanwhile,*)
(* each matching row, or each contradiction, once; and no page is handed out   *)
(* that is empty while more is announced.                                      *)
PagesAddUp ==
    (Answered("report") \/ Computed) /\ ~touched /\ request.clean =>
        LET seen == request.seen \o Shown
            due == IF Answered("report") THEN Of(request.ask.decision)
                   ELSE {e.id : e \in Contradicts}
        IN  /\ IsInjective(seen) /\ Range(seen) \subseteq due
            /\ IF HasMore THEN Shown # <<>> ELSE Range(seen) = due
            /\ Answered("report") /\ request.ask.sort = "decision" =>
                   \A i, j \in DOMAIN seen :
                       i < j /\ Catalog[seen[j]].passed => Catalog[seen[i]].passed

(* A refused export is one that had more than it may; another is the whole     *)
(* ledger.                                                                     *)
ExportIsWhole ==
    Answered("export") /\ ~touched =>
        LET got == request.read["export"]
        IN  IF got.refused THEN Cardinality(Of(request.ask.decision)) > MaxExport
            ELSE Range(got.rows) = Of(request.ask.decision)

(* Every concept of the plan is told of, and is absent only if no accepted     *)
(* source has its tag; no tag is dropped for not being on the plan; the        *)
(* accepted are the tagged, those tagged with nothing and those before tagging;*)
(* a concept searched again is marked, if its name has no colon.               *)
CoverageIsTrue ==
    \/ ~Answered("coverage") \/ touched
    \/ LET tagging == request.read["tagging"]
       IN  /\ \A c \in DOMAIN Blocks : Blocks[c].strength = "absent" <=>
                  ~\E s \in Accepted(rows) : c \in Catalog[s].tags
           /\ UNION {Blocks[c].sources : c \in DOMAIN Blocks} =
                  {s \in Accepted(rows) : Catalog[s].tags # {}}
           /\ Range(KeyConcepts) \subseteq DOMAIN Blocks
           /\ tagging.some + tagging.none + tagging.legacy = Cardinality(Accepted(rows))
           /\ \A c \in Range(KeyConcepts) : Len(c) = 1
                  /\ (\E s \in rows : Catalog[s].via = <<"gapfill">> \o c) => Blocks[c].refound

(* The re-searches told of are the searches recorded on the sources.           *)
RoundsAreSearches ==
    Answered("screening") /\ ~touched =>
        LET searches == request.read["searches"]
            gapfills == {via \in DOMAIN searches : Len(via) > 1 /\ via[1] = "gapfill"}
            Cut(c) == {via \in gapfills : via[2] = c[1]}
        IN  /\ \A c \in DOMAIN Rounds : Rounds[c].tally = Total(Restrict(searches, Cut(c)))
            /\ \A via \in gapfills : <<via[2]>> \in DOMAIN Rounds
            /\ \A c \in DOMAIN Rounds : Cut(c) # {}

(* A contradiction is told of only from an extracted graph.  Each side shows   *)
(* passages of its own claim, none twice, of accepted sources; one they share  *)
(* only beside all that are its own; and misses some only when a source was    *)
(* deleted.  Claims of different sources are never called one source's.        *)
ContradictionsAreShown ==
    Computed =>
        \A i \in DOMAIN Items :
            LET a == Items[i].a
                b == Items[i].b
                Sound(own, other) ==
                    /\ Range(own.passages) \subseteq Range(own.own) /\ IsInjective(own.passages)
                    /\ Len(own.passages) + own.missing <= PerSide
                    /\ ~touched =>
                        /\ own.sources \subseteq Accepted(rows)
                        /\ own.missing > 0 => ~(Range(own.own) \subseteq stored)
                        /\ Range(own.passages) \cap Range(other.own) # {} =>
                               (Range(own.own) \ Range(other.own)) \cap stored
                                   \subseteq Range(own.passages)
            IN  /\ Sound(a, b) /\ Sound(b, a)
                /\ {SourceOf(c) : c \in Range(a.own)} \cap {SourceOf(c) : c \in Range(b.own)} = {}
                       => Items[i].kind # "within_source"
                /\ Items[i].kind = "undetermined" => a.missing > 0 \/ b.missing > 0
                /\ ~touched => request.read["summary"].total = request.read["mix"]["contradicts"]

(* No edge is drawn to a node that is not.                                     *)
GraphIsDrawn ==
    Drawn =>
        \A e \in request.read["edges"] : {e.from, e.to} \subseteq Range(request.read["nodes"])

(* service.py:1209: `True when the first discovery pass missed this concept    *)
(* entirely and the pipeline had to run a targeted re-search for it.'  (It is  *)
(* marked as well if a source found for another concept has its tag.)          *)
MissedIsSearched ==
    Answered("coverage") /\ ~touched =>
        \A c \in DOMAIN Blocks :
            Blocks[c].refound => \E s \in rows : ConceptOf(Catalog[s].via) = c

(* service.py:1354: `covered after gap-fill' (said when any of what was found  *)
(* is accepted, whatever it is tagged with).                                   *)
CoveredIsTagged ==
    Answered("screening") /\ ~touched =>
        \A c \in DOMAIN Rounds :
            Rounds[c].covered => \E s \in Accepted(rows) : c \in Catalog[s].tags

(* domain.py:49: the concept of a re-search is all that follows the first colon*)
(* (the queries keep what stands before the second).                           *)
ConceptIsWhole ==
    Answered("screening") /\ ~touched =>
        \A s \in Refound : ConceptOf(Catalog[s].via) \in DOMAIN Rounds

ReportHolds ==
    /\ ReportAddsUp /\ PagesAddUp /\ ExportIsWhole
    /\ CoverageIsTrue /\ RoundsAreSearches
    /\ ContradictionsAreShown /\ GraphIsDrawn
=============================================================================
