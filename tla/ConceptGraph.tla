----------------------------- MODULE ConceptGraph -----------------------------
(* The concept graph of one expert and those who write it at once: the graph   *)
(* stage of a build (builder.py _graph_stage, experts/build/reconcile.py) and  *)
(* the extension of the graph by each uploaded document (uploads/service.py    *)
(* _extend_graph).  Each calls graph/repository.py, whose every method is a    *)
(* transaction of its own, READ COMMITTED; what one method returned may be     *)
(* stale when the next one uses it.  A chunk is named by its source.           *)
EXTENDS GraphExtraction

CONSTANTS
    Upload,         \* the documents handed in
    Answers,        \* what the model may answer about a batch
    Relations,      \* the relations it may answer about a concept's claims
    CanonicalClass, \* what canonical_label and its aliases make of a label
    Near,           \* the pairs of labels whose vectors reach pair_threshold
    MaxNodes,       \* bound: nodes ever inserted
    MaxFailures,    \* bound: calls that fail
    BuildSources    \* the sources of the build's chunks, one batch

VARIABLES
    nodes,      \* expert_nodes: [label, node_type, chunks, assigned], by id
    evidence,   \* expert_edges: the evidence column, by relation [from, to, type]
    lastId,     \* the sequence of expert_nodes.id
    task,       \* where each writer is and what it has read
    failures    \* how many calls have failed

vars == <<nodes, evidence, lastId, task, failures>>

Writer == {"build"} \cup Upload
edges  == DOMAIN evidence
Nodes  == DOMAIN nodes

(* What a merge has written and not committed: the chunks of the node kept, the*)
(* relations it has deleted or moved away, and those it has moved them to, with*)
(* their evidence; `began' (history) are the relations and the chunks of the   *)
(* dropped node when it began.                                                 *)
NoMerge == [chunks |-> {}, gone |-> {}, made |-> << >>,
            began |-> [edges |-> {}, chunks |-> {}]]

NoTask == [at |-> "insert", read |-> << >>, known |-> << >>, merges |-> << >>,
           merge |-> NoMerge, groups |-> << >>, concepts |-> {}]

Init ==
    /\ nodes = << >> /\ evidence = << >> /\ lastId = 0
    /\ task = [w \in Writer |-> NoTask]
    /\ failures = 0

At(w, place)    == task[w].at = place
Go(w, place)    == task' = [task EXCEPT ![w].at = place]
ChunksOf(w)     == IF w = "build" THEN BuildSources ELSE <<w>>
Without(f, S)   == Restrict(f, DOMAIN f \ S)

(* The statements of merge_nodes after the first, which leaves the kept node's *)
(* row locked: each locks the rows it writes until the commit.  A statement of *)
(* another writer that would write a locked row, or insert a relation the merge*)
(* has in hand, waits, and is taken to begin when it need not.                 *)
MergeSteps == {"from twins", "to twins", "redirect from", "redirect to", "loops", "drop"}
Merging    == task["build"].at \in MergeSteps
Keep       == Head(task["build"].merges)[1]
Drop       == Head(task["build"].merges)[2]
InHand     == task["build"].merge.gone \cup DOMAIN task["build"].merge.made
Free(ns, rs) == Merging => Keep \notin ns /\ rs \cap InHand = {}

-----------------------------------------------------------------------------
(* bulk_insert_from_extractions: the extraction and, in the transaction, the   *)
(* labels of the nodes there are.  Of two nodes with one label either is found.*)
ReadLabels(w) ==
    /\ At(w, "insert")
    /\ \E answer \in Answers, known \in [{nodes[n].label : n \in Nodes} -> Nodes] :
        /\ \A k \in DOMAIN known : nodes[known[k]].label = k
        /\ task' = [task EXCEPT ![w].at = "write", ![w].known = known,
                        ![w].read = <<ParseExtraction(answer, ChunksOf(w))>>]
    /\ UNCHANGED <<nodes, evidence, lastId, failures>>

(* The rest of it.  A node already there is deepened, a new label inserted; an *)
(* edge is judged by the type the extraction gives a label, and an edge to a   *)
(* node deleted meanwhile breaks the foreign key and undoes it all.            *)
IdsOf(w) ==
    LET found == MergeNodes(task[w].read)
        fresh == SelectSeq(LabelOrder(task[w].read), LAMBDA k : k \notin DOMAIN task[w].known)
    IN  [k \in DOMAIN found |-> IF k \in DOMAIN task[w].known THEN task[w].known[k]
                               ELSE lastId + CHOOSE i \in DOMAIN fresh : fresh[i] = k]

RelationsOf(w) ==
    LET found == MergeNodes(task[w].read)
        id    == IdsOf(w)
    IN  {[from |-> id[e.from], to |-> id[e.to], type |-> e.type] :
            e \in {e \in UNION {Range(task[w].read[b].edges) : b \in DOMAIN task[w].read} :
                    /\ e.type \in EdgeType /\ {e.from, e.to} \subseteq DOMAIN found
                    /\ id[e.from] # id[e.to]
                    /\ WellFormed(e.type, found[e.from].node_type, found[e.to].node_type, e.stated)}}

(* ON CONFLICT: a relation already there keeps its row.                        *)
Upserted(relations) == evidence @@ [e \in relations |-> 0]

WriteExtraction(w) ==
    /\ At(w, "write")
    /\ LET found == MergeNodes(task[w].read)
           id    == IdsOf(w)
           fresh == {k \in DOMAIN found : id[k] > lastId}
           node(n, k) == [label |-> k, node_type |-> found[k].node_type, chunks |-> {}, assigned |-> FALSE]
           stored == nodes @@ [n \in {id[k] : k \in fresh} |-> node(n, CHOOSE k \in fresh : id[k] = n)]
       IN  /\ lastId + Cardinality(fresh) <= MaxNodes
           /\ Free(Range(id), RelationsOf(w))
           /\ IF \E e \in RelationsOf(w) : ~({e.from, e.to} \subseteq DOMAIN stored)
                THEN Go(w, "failed") /\ UNCHANGED <<nodes, evidence, lastId>>
                ELSE /\ nodes' = [n \in DOMAIN stored |->
                            [stored[n] EXCEPT !.chunks =
                                @ \cup UNION {found[k].chunks : k \in {k \in DOMAIN found : id[k] = n}}]]
                     /\ evidence' = Upserted(RelationsOf(w))
                     /\ lastId' = lastId + Cardinality(fresh)
                     /\ task' = [task EXCEPT ![w] =
                            [NoTask EXCEPT !.at = IF w = "build" THEN "resolve" ELSE "claims"]]
    /\ UNCHANGED failures

-----------------------------------------------------------------------------
(* _resolve_entities, in the build alone.  get_all_nodes is read once; every   *)
(* merge is decided from that copy.                                            *)
Better(n, m) ==
    LET a == Cardinality(nodes[n].chunks) b == Cardinality(nodes[m].chunks)
    IN  a > b \/ (a = b /\ n < m)

CanonicalPlan ==
    LET concepts == {n \in Nodes : nodes[n].node_type = "concept"}
        class(n) == {m \in concepts : CanonicalClass[nodes[m].label] = CanonicalClass[nodes[n].label]}
        kept(n)  == CHOOSE k \in class(n) : \A m \in class(n) \ {k} : Better(k, m)
    IN  SetToSortSeq({<<kept(n), n>> : n \in {n \in concepts : kept(n) # n}},
            LAMBDA p, q : p[1] < q[1] \/ (p[1] = q[1] /\ Better(p[2], q[2])))

(* pair_threshold and the cosine, for two nodes still there.                   *)
PairMerges(n, m) ==
    nodes[n].node_type = nodes[m].node_type /\ {nodes[n].label, nodes[m].label} \in Near

MergePlan(order, embedded) ==
    LET labelled == CanonicalPlan
        gone     == {labelled[i][2] : i \in DOMAIN labelled}
        left     == SelectSeq(order, LAMBDA n : n \notin gone)
        pairs    == FlattenSeq([i \in DOMAIN left |->
                        [d \in 1..(Len(left) - i) |-> <<left[i], left[i + d]>>]])
        step(plan, p) == IF /\ {p[1], p[2]} \cap {plan[i][2] : i \in DOMAIN plan} = {}
                            /\ PairMerges(p[1], p[2])
                         THEN Append(plan, p) ELSE plan
    IN  labelled \o (IF embedded THEN FoldLeft(step, << >>, pairs) ELSE << >>)

ReadNodes ==
    /\ At("build", "resolve")
    /\ \E order \in SetToSeqs(Nodes), embedded \in BOOLEAN :
        /\ embedded \/ failures < MaxFailures
        /\ failures' = IF embedded THEN failures ELSE failures + 1
        /\ task' = [task EXCEPT !["build"].at = "merge", !["build"].merges = MergePlan(order, embedded)]
    /\ UNCHANGED <<nodes, evidence, lastId>>

(* merge_nodes: seven statements of one transaction, each of which sees what   *)
(* the others have committed before it and what the merge has written itself.  *)
Seen == Without(evidence, task["build"].merge.gone) @@ task["build"].merge.made

(* Mutant: the node kept does not take over the evidence.                      *)
MergedChunksOfKept(keep, drop) == nodes[keep].chunks

MergedChunks(keep, drop) == nodes[keep].chunks \cup nodes[drop].chunks

UnionChunks ==
    /\ At("build", "merge") /\ task["build"].merges # << >>
    /\ task' = [task EXCEPT !["build"].at = "from twins", !["build"].merge =
                   [NoMerge EXCEPT !.chunks = MergedChunks(Keep, Drop),
                       !.began = [edges |-> edges, chunks |-> nodes[Drop].chunks]]]
    /\ UNCHANGED <<nodes, evidence, lastId, failures>>

(* One that deletes relations, and goes on to the next.                        *)
Deletes(rs, next) ==
    /\ task' = [task EXCEPT !["build"].at = next, !["build"].merge.gone = @ \cup (rs \cap edges),
                            !["build"].merge.made = Without(@, rs)]
    /\ UNCHANGED <<nodes, evidence, lastId, failures>>

(* The relations that keep already has are dropped on either side,             *)
Twins(side) ==
    {r \in DOMAIN Seen : r[side] = Drop /\ [r EXCEPT ![side] = Keep] \in DOMAIN Seen}
DropTwinsFrom == At("build", "from twins") /\ Deletes(Twins("from"), "to twins")
DropTwinsTo   == At("build", "to twins") /\ Deletes(Twins("to"), "redirect from")

(* the rest redirected, with their evidence, if the unique index allows it     *)
Redirects(side, next) ==
    LET old == {r \in DOMAIN Seen : r[side] = Drop}
        new == [r \in {[o EXCEPT ![side] = Keep] : o \in old} |-> Seen[[r EXCEPT ![side] = Drop]]]
    IN  /\ IF Twins(side) # {}
           THEN task' = [task EXCEPT !["build"] = [NoTask EXCEPT !.at = "failed"]]
           ELSE task' = [task EXCEPT !["build"].at = next,
                            !["build"].merge.gone = @ \cup (old \cap edges),
                            !["build"].merge.made = Without(@, old) @@ new]
        /\ UNCHANGED <<nodes, evidence, lastId, failures>>
RedirectFrom == At("build", "redirect from") /\ Redirects("from", "redirect to")
RedirectTo   == At("build", "redirect to") /\ Redirects("to", "loops")

(* Mutant: the merge leaves the relations it turned into loops.                *)
KeepLoops == At("build", "loops") /\ Deletes({}, "drop")

(* and loops deleted;                                                          *)
DropLoops == At("build", "loops") /\ Deletes({r \in DOMAIN Seen : r.from = r.to}, "drop")

(* the node goes with whatever joins it by then, and the transaction commits.  *)
DropNode ==
    /\ At("build", "drop")
    /\ nodes' = Without([nodes EXCEPT ![Keep].chunks = task["build"].merge.chunks], {Drop})
    /\ evidence' = Without(Seen, {r \in DOMAIN Seen : Drop \in {r.from, r.to}})
    /\ task' = [task EXCEPT !["build"].at = "merge", !["build"].merge = NoMerge,
                            !["build"].merges = Tail(@)]
    /\ UNCHANGED <<lastId, failures>>

MergeStatement ==
    \/ UnionChunks \/ DropTwinsFrom \/ DropTwinsTo \/ RedirectFrom \/ RedirectTo
    \/ DropLoops \/ DropNode

MergesDone ==
    /\ At("build", "merge") /\ task["build"].merges = << >>
    /\ Go("build", "claims")
    /\ UNCHANGED <<nodes, evidence, lastId, failures>>

-----------------------------------------------------------------------------
(* claims_by_concept: the claims about a concept, once for each source behind  *)
(* them; an upload looks at the concepts its own chunks touch.                 *)
ClaimsAbout(w) ==
    LET abouts   == {e \in edges : /\ e.type = "about" /\ nodes[e.from].node_type = "claim"
                                   /\ nodes[e.to].node_type = "concept"}
        touching == {e.to : e \in {e \in edges : e.type = "about" /\ w \in nodes[e.from].chunks}}
        concepts == {e.to : e \in abouts} \cap (IF w = "build" THEN Nodes ELSE touching)
        rows(c)  == UNION {{[node |-> e.from, source |-> s] : s \in nodes[e.from].chunks} :
                              e \in {e \in abouts : e.to = c}}
        ordered(c) == SetToSortSeq(rows(c), LAMBDA r, s : r.node < s.node)
    IN  {g \in {[concept |-> c, claims |-> ordered(c)] : c \in concepts} : SourceCount(g.claims) >= MinSources}

ReadClaims(w) ==
    /\ At(w, "claims")
    /\ task' = [task EXCEPT ![w].at = "relate", ![w].groups = PlannedGroups(ClaimsAbout(w))]
    /\ UNCHANGED <<nodes, evidence, lastId, failures>>

(* reconcile_claims and insert_relations: one call for each concept, and the   *)
(* answers checked against the nodes stored by then.                           *)
InsertRelations(w) ==
    /\ At(w, "relate")
    /\ \E answer \in [DOMAIN task[w].groups -> Relations] :
        LET kept(i)  == ParseRelations(answer[i], SelectClaims(task[w].groups[i].claims))
            returned == UNION {kept(i) : i \in DOMAIN answer}
            accepted == {r \in returned :
                            /\ {r.from, r.to} \subseteq Nodes /\ r.from # r.to
                            /\ WellFormed(r.type, nodes[r.from].node_type, nodes[r.to].node_type, r.stated)}
            stored   == {[from |-> r.from, to |-> r.to, type |-> r.type] : r \in accepted}
        IN  Free({}, stored) /\ evidence' = Upserted(stored)
    /\ task' = [task EXCEPT ![w].at = "recount", ![w].groups = << >>]
    /\ UNCHANGED <<nodes, lastId, failures>>

(* Mutant: the sources behind the claim alone.                                 *)
SourcesBehindFrom(e) == Cardinality(nodes[e.from].chunks)

(* recompute_edge_evidence: the sources behind the two ends of each relation.  *)
SourcesBehind(e) == Cardinality(nodes[e.from].chunks \cup nodes[e.to].chunks)

RecomputeEvidence(w) ==
    /\ At(w, "recount") /\ Free({}, edges)
    /\ evidence' = [e \in edges |-> SourcesBehind(e)]
    /\ Go(w, "embed")
    /\ UNCHANGED <<nodes, lastId, failures>>

(* assign_key_concepts: the concepts there are, then the assignment of those.  *)
ReadSimilarities(w) ==
    /\ At(w, "embed")
    /\ task' = [task EXCEPT ![w].at = "assign",
                    ![w].concepts = {n \in Nodes : nodes[n].node_type = "concept"}]
    /\ UNCHANGED <<nodes, evidence, lastId, failures>>

WriteKeyConcepts(w) ==
    /\ At(w, "assign") /\ Free(Nodes, {})
    /\ nodes' = [n \in Nodes |-> [nodes[n] EXCEPT !.assigned = n \in task[w].concepts]]
    /\ task' = [task EXCEPT ![w].at = "done", ![w].concepts = {}]
    /\ UNCHANGED <<evidence, lastId, failures>>

-----------------------------------------------------------------------------
(* A call of the model, of the embedder or of the database fails.  The build   *)
(* goes on when it is reconciliation or assignment that fails, else it is      *)
(* degraded and retried; an upload goes on without the rest of its concepts.   *)
AfterFailure(w) ==
    IF task[w].at \in {"embed", "assign"} THEN "done"
    ELSE IF w = "build" /\ task[w].at \in {"claims", "relate"} THEN "recount" ELSE "failed"

CallFails(w) ==
    /\ ~At(w, "done") /\ ~At(w, "failed")
    /\ failures < MaxFailures
    /\ failures' = failures + 1
    /\ task' = [task EXCEPT ![w] = [NoTask EXCEPT !.at = AfterFailure(w)]]
    /\ UNCHANGED <<nodes, evidence, lastId>>

(* delete_graph, when the build is resumed.                                    *)
DeleteGraph ==
    /\ At("build", "failed")
    /\ nodes' = << >> /\ evidence' = << >>
    /\ task' = [task EXCEPT !["build"] = NoTask]
    /\ UNCHANGED <<lastId, failures>>

Step(w) ==
    \/ ReadLabels(w) \/ WriteExtraction(w)
    \/ ReadClaims(w) \/ InsertRelations(w) \/ RecomputeEvidence(w)
    \/ ReadSimilarities(w) \/ WriteKeyConcepts(w)
    \/ CallFails(w)

Next ==
    \/ \E w \in Writer : Step(w)
    \/ ReadNodes \/ MergeStatement \/ MergesDone \/ DeleteGraph

Spec == Init /\ [][Next]_vars

-----------------------------------------------------------------------------
TypeOK ==
    /\ \A n \in Nodes : /\ n \in 1..lastId /\ nodes[n].node_type \in NodeType
                        /\ nodes[n].chunks \subseteq Upload \cup Range(BuildSources)
                        /\ nodes[n].assigned \in BOOLEAN
    /\ \A e \in edges : e.type \in EdgeType /\ evidence[e] \in Nat
    /\ failures \in 0..MaxFailures /\ lastId \in 0..MaxNodes

AtRest == \A w \in Writer : At(w, "done")

(* Every relation joins two different nodes that are there, however merges,    *)
(* extractions and reconciliations interleave.                                 *)
EdgesSound == \A e \in edges : {e.from, e.to} \subseteq Nodes /\ e.from # e.to

(* A node goes only with a merge's commit, into one of its own kind.  Whatever *)
(* evidence and relations it had when that merge began, and whatever any other *)
(* step finds, is there afterwards: relations redirected, but for loops.  Only *)
(* delete_graph, which empties the graph, is free of this.                     *)
TakesOver(chunks, rs) ==
    LET to(n) == IF n = Drop THEN Keep ELSE n
    IN  /\ nodes[Drop].node_type = nodes[Keep].node_type
        /\ DOMAIN nodes' = Nodes \ {Drop}
        /\ \A n \in DOMAIN nodes' : nodes[n].chunks \subseteq nodes'[n].chunks
        /\ chunks \subseteq nodes'[Keep].chunks
        /\ \A e \in rs \cup {e \in edges : Drop \notin {e.from, e.to}} :
              \/ [e EXCEPT !.from = to(@), !.to = to(@)] \in DOMAIN evidence'
              \/ to(e.from) = to(e.to)

NothingTaken ==
    /\ \A n \in Nodes : n \in DOMAIN nodes' /\ nodes[n].chunks \subseteq nodes'[n].chunks
    /\ edges \subseteq DOMAIN evidence'

StepLosesNothing ==
    LET began == task["build"].merge.began
    IN  \/ nodes' = << >> \/ NothingTaken
        \/ At("build", "drop") /\ TakesOver(began.chunks, began.edges)

(* When all who write the graph have finished, the evidence of each relation   *)
(* is the sources behind its ends, though each recounted at its own time.      *)
EvidenceAtRest ==
    AtRest => \A e \in edges : evidence[e] = Cardinality(UNION {nodes[n].chunks : n \in {e.from, e.to}})

-----------------------------------------------------------------------------
(* What the repository says and the code does not keep.                        *)
(* "a concept already present is deepened rather than duplicated".             *)
OneNodePerLabel == \A n, m \in Nodes : nodes[n].label = nodes[m].label => n = m

(* A relation is only well-formed between particular kinds of node.            *)
EndpointsFit ==
    \A e \in edges : EdgeEndpoints[e.type] = <<nodes[e.from].node_type, nodes[e.to].node_type>>

(* The redundant rows are dropped first, so that the redirection cannot        *)
(* collide.                                                                    *)
MergeNeverCollides ==
    /\ At("build", "redirect from") => Twins("from") = {}
    /\ At("build", "redirect to") => Twins("to") = {}

(* merge_nodes: "Redirect all edges from drop_id to keep_id, merge chunk_ids,  *)
(* delete drop_id".  What another writer adds to the node while the statements *)
(* run goes with it.                                                           *)
MergeLosesNothing == [][DropNode => TakesOver(nodes[Drop].chunks, edges)]_vars

(* The new concepts take their place in the syllabus.                          *)
ConceptsArePlaced ==
    AtRest /\ failures = 0 => \A n \in Nodes : nodes[n].node_type = "concept" => nodes[n].assigned
=============================================================================
