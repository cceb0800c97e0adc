---------------------------- MODULE GraphExtraction ----------------------------
(* From what the model answers about a batch of chunks, or about the claims of *)
(* a concept, to what may be written: graph/extractor.py, graph/reconciler.py  *)
(* and merge_node_extractions of graph/repository.py.  A label stands for its  *)
(* normalised key, NoText for a field the answer leaves out.                   *)
EXTENDS Integers, FiniteSets, FiniteSetsExt, SequencesExt, Functions

CONSTANTS
    MaxInferredAbout,   \* _MAX_INFERRED_ABOUT
    MaxClaims,          \* MAX_CLAIMS_PER_CONCEPT
    MinSources,         \* MIN_SOURCES_PER_CONCEPT
    MaxConcepts         \* MAX_CONCEPTS_PER_BUILD

NoText == ""

NodeType == {"concept", "claim"}

EdgeEndpoints ==
    [contradicts |-> <<"claim", "claim">>, supports |-> <<"claim", "claim">>,
     qualifies |-> <<"claim", "claim">>, about |-> <<"claim", "concept">>,
     part_of |-> <<"concept", "concept">>]

EdgeType       == DOMAIN EdgeEndpoints
ClaimRelation  == {"contradicts", "supports", "qualifies"}
NeedsStatement == {"contradicts", "qualifies"}  \* the point, the condition

(* edge_is_valid, and the property the type is meaningless without.            *)
WellFormed(type, from, to, stated) ==
    /\ EdgeEndpoints[type] = <<from, to>>
    /\ type \in NeedsStatement => stated

-----------------------------------------------------------------------------
(* One batch.  An entry that lacks a required field is dropped.                *)
CompleteNodes(ns) == SelectSeq(ns, LAMBDA n : n.label # NoText /\ n.node_type # NoText)
CompleteEdges(es) == SelectSeq(es, LAMBDA e : NoText \notin {e.from, e.to, e.type})

(* A claim none of whose about edges names a concept of the batch is attached  *)
(* to the concepts it shares most chunks with.                                 *)
OrphanEdges(ns, es) ==
    LET concepts == SelectSeq(ns, LAMBDA n : n.node_type = "concept")
        keys     == {concepts[i].label : i \in DOMAIN concepts}
        subjects == {e \in Range(es) : e.type = "about" /\ e.to \in keys}
        orphans  == SelectSeq(ns, LAMBDA n : /\ n.node_type = "claim"
                                             /\ n.label \notin {e.from : e \in subjects})
        shared(n, i) == Cardinality(n.chunk_indices \cap concepts[i].chunk_indices)
        nearest(n)   == SortSeq([i \in DOMAIN concepts |-> i],
                            LAMBDA i, j : shared(n, i) > shared(n, j)
                                          \/ (shared(n, i) = shared(n, j) /\ i < j))
        kept(n)      == SelectSeq(SubSeq(nearest(n), 1, Min({MaxInferredAbout, Len(concepts)})),
                            LAMBDA i : shared(n, i) > 0)
        edge(n, i)   == [from |-> n.label, to |-> concepts[i].label, type |-> "about", stated |-> FALSE]
    IN  FlattenSeq([k \in DOMAIN orphans |->
            [m \in DOMAIN kept(orphans[k]) |-> edge(orphans[k], kept(orphans[k])[m])]])

(* The indices the answer cites, as ids; one out of range is dropped.          *)
ChunkDbIds(indices, ids) == {ids[i + 1] : i \in indices \cap 0..(Len(ids) - 1)}

(* _parse_extract_response.                                                    *)
ParseExtraction(answer, ids) ==
    LET ns == CompleteNodes(answer.nodes)
        es == CompleteEdges(answer.edges)
    IN  [nodes |-> [i \in DOMAIN ns |-> [label |-> ns[i].label, node_type |-> ns[i].node_type,
                                         chunks |-> ChunkDbIds(ns[i].chunk_indices, ids)]],
         edges |-> es \o OrphanEdges(ns, es)]

(* One node per label over the batches: the first type that names a type, and  *)
(* all the chunks.                                                             *)
MergeNodes(extractions) ==
    LET ns   == SelectSeq(FlattenSeq([b \in DOMAIN extractions |-> extractions[b].nodes]),
                    LAMBDA n : n.node_type \in NodeType)
        keys == {ns[i].label : i \in DOMAIN ns}
        of(k) == {i \in DOMAIN ns : ns[i].label = k}
    IN  [k \in keys |-> [node_type |-> ns[Min(of(k))].node_type,
                         chunks    |-> UNION {ns[i].chunks : i \in of(k)}]]

(* The labels in the order the answers bring them.                             *)
LabelOrder(extractions) ==
    LET ns == SelectSeq(FlattenSeq([b \in DOMAIN extractions |-> extractions[b].nodes]),
                  LAMBDA n : n.node_type \in NodeType)
        first(k) == Min({i \in DOMAIN ns : ns[i].label = k})
    IN  SetToSortSeq({ns[i].label : i \in DOMAIN ns}, LAMBDA k, l : first(k) < first(l))

-----------------------------------------------------------------------------
(* Reconciliation of the claims about one concept, rows [node, source].        *)
(* _select_claims: a row of each source in turn.                               *)
SelectClaims(claims) ==
    LET place(i) == Cardinality({j \in 1..i : claims[j].source = claims[i].source})
        first(i) == Min({j \in DOMAIN claims : claims[j].source = claims[i].source})
        before(i, j) == \/ place(i) < place(j)
                        \/ place(i) = place(j) /\ first(i) < first(j)
        order == SortSeq([i \in DOMAIN claims |-> i], before)
    IN  [k \in 1..Min({MaxClaims, Len(claims)}) |-> claims[order[k]]]

SourceCount(claims) == Cardinality({claims[i].source : i \in DOMAIN claims} \ {NoText})

(* The concepts examined, those whose claims span the most sources first.      *)
PlannedGroups(groups) ==
    LET eligible == {g \in groups : Len(g.claims) >= 2 /\ SourceCount(g.claims) >= MinSources}
        before(g, h) == \/ SourceCount(g.claims) > SourceCount(h.claims)
                        \/ /\ SourceCount(g.claims) = SourceCount(h.claims)
                           /\ \/ Len(g.claims) > Len(h.claims)
                              \/ Len(g.claims) = Len(h.claims) /\ g.concept < h.concept
        order == SetToSortSeq(eligible, before)
    IN  SubSeq(order, 1, Min({MaxConcepts, Len(order)}))

(* parse_relations: what may stand of one answer.                              *)
ParseRelations(answer, claims) ==
    {[from |-> claims[r.from + 1].node, to |-> claims[r.to + 1].node, type |-> r.type, stated |-> r.stated] :
        r \in {r \in answer : /\ r.type \in ClaimRelation
                              /\ {r.from, r.to} \subseteq 0..(Len(claims) - 1) /\ r.from # r.to
                              /\ r.type \in NeedsStatement => r.stated}}
=============================================================================
