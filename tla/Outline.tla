------------------------------- MODULE Outline -------------------------------
(* audit/outline.py: a work's passages, in order, as parts, with the sections  *)
(* a build summarised and the concepts anchored in them.  A passage is a record*)
(*   heading (0: none fit to be shown), group (0: its locus has none), held    *)
(*   (embedded, never read by a model), skip (passages the prose gate left out *)
(*   before it), opens (a summarised section begins here), nodes (concept nodes*)
(*   anchored here)                                                            *)
EXTENDS Integers, Sequences, FiniteSets, SequencesExt, Functions

CONSTANTS Kinds,            \* the passages a work may have
          MinPart,          \* MIN_PART
          MaxPassages       \* bound on a work's length

VARIABLES read,             \* the work's passages so far, with their sequence_n
          parts             \* _parts of them, before short ones are folded

vars == <<read, parts>>

Init == read = <<>> /\ parts = <<>>

(* _breaks: a passage begins a part if it is read another way, under another   *)
(* heading or, without a heading, in another group of loci.  A jump in the     *)
(* sequence is no reason.                                                      *)
Breaks(part, p) ==
    \/ part.held # p.held
    \/ p.heading # 0 /\ p.heading # part.label
    \/ p.heading = 0 /\ p.group # 0 /\ part.group # 0 /\ p.group # part.group

NewPart(p) == [label |-> p.heading, held |-> p.held, from |-> p.seq, to |-> p.seq,
               passages |-> 1, group |-> p.group]

Continued(part, p) ==
    [part EXCEPT !.to = p.seq, !.passages = @ + 1,
                 !.group = IF p.group # 0 THEN p.group ELSE @]

(* _parts, a passage at a time.                                                *)
Read(kind) ==
    LET seq == (IF read = <<>> THEN 0 ELSE Last(read).seq) + 1 + kind.skip
        p == [heading |-> kind.heading, group |-> kind.group, held |-> kind.held,
              seq |-> seq, opens |-> kind.opens, nodes |-> kind.nodes]
    IN  /\ Len(read) < MaxPassages
        /\ read' = Append(read, p)
        /\ parts' = IF parts = <<>> \/ Breaks(Last(parts), p) THEN Append(parts, NewPart(p))
                    ELSE [parts EXCEPT ![Len(parts)] = Continued(@, p)]

Next == \E kind \in Kinds : Read(kind)

Spec == Init /\ [][Next]_vars

-----------------------------------------------------------------------------
(* Mutant: a short part is folded into the one before it, however it was read. *)
ApartByLength(prev, part) == part.passages >= MinPart /\ prev.passages >= MinPart

(* _merge_short: a part stands beside the one before it if they were read in   *)
(* different ways or both are long.                                            *)
Apart(prev, part) ==
    prev.held # part.held \/ (part.passages >= MinPart /\ prev.passages >= MinPart)

Folded(prev, part) ==
    [prev EXCEPT !.to = part.to, !.passages = @ + part.passages,
                 !.label = IF part.passages > prev.passages /\ part.label # 0
                           THEN part.label ELSE @]

MergeShort(given) ==
    LET Fold(merged, part) ==
            IF merged = <<>> \/ Apart(Last(merged), part) THEN Append(merged, part)
            ELSE [merged EXCEPT ![Len(merged)] = Folded(@, part)]
    IN  FoldLeft(Fold, <<>>, given)

(* The sections of the work: from a passage that opens one to the last before  *)
(* the next, or before a passage that is merely held.                          *)
Sections ==
    LET Ends(i, j) == /\ i <= j
                      /\ \A k \in (i + 1)..j : ~read[k].opens /\ ~read[k].held
        Upto(i) == CHOOSE j \in {j \in DOMAIN read : Ends(i, j)} :
                       \A k \in {k \in DOMAIN read : Ends(i, k)} : k <= j
    IN  {[from |-> read[i].seq, to |-> read[Upto(i)].seq] :
            i \in {i \in DOMAIN read : read[i].opens /\ ~read[i].held}}

(* _work: a section is shown in the part where it begins, as far as it lies in *)
(* that part; a part counts the concept nodes anchored in its stretch.         *)
Home(s, shown) == SelectInSeq(shown, LAMBDA p : p.from <= s.from /\ s.from <= p.to)
Stretch(s, part) ==
    {i \in DOMAIN read : /\ s.from <= read[i].seq
                         /\ read[i].seq <= (IF s.to < part.to THEN s.to ELSE part.to)}
Within(part) == {i \in DOMAIN read : part.from <= read[i].seq /\ read[i].seq <= part.to}
NodesIn(S) == FoldFunction(+, 0, [i \in S |-> read[i].nodes])

-----------------------------------------------------------------------------
(* However the passages fall, the parts that are shown split the work: every   *)
(* passage is in one part, with all it is counted for, and no part mixes what  *)
(* was read closely with what is merely held; a short part is left standing    *)
(* only where it has no neighbour that was read the same way.                  *)
PartsSplitTheWork ==
    LET shown == MergeShort(parts)
    IN  /\ \A i \in DOMAIN read : \E p \in DOMAIN shown :
              i \in Within(shown[p]) /\ \A q \in (DOMAIN shown) \ {p} : i \notin Within(shown[q])
        /\ \A p \in Range(shown) :
              /\ p.passages = Cardinality(Within(p))
              /\ \A i \in Within(p) : read[i].held = p.held
        /\ FoldLeft(LAMBDA total, p : total + NodesIn(Within(p)), 0, shown)
              = NodesIn(DOMAIN read)
        /\ \A k \in 1..(Len(shown) - 1) :
              shown[k].held = shown[k + 1].held =>
                  shown[k].passages >= MinPart /\ shown[k + 1].passages >= MinPart

(* No summarised section is lost: each is shown in one part that was read      *)
(* closely, with the passages it stands for there.                             *)
SectionsAreShown ==
    LET shown == MergeShort(parts)
    IN  \A s \in Sections :
          LET home == Home(s, shown)
          IN  home # 0 /\ ~shown[home].held /\ Stretch(s, shown[home]) # {}

(* A part shown under a heading has a passage under it, and a heading that is  *)
(* over enough passages for a part is never folded away.                       *)
HeadingsAreKept ==
    LET shown == MergeShort(parts)
    IN  /\ \A p \in Range(shown) :
              p.label # 0 => \E i \in Within(p) : read[i].heading = p.label
        /\ \A part \in Range(parts) :
              part.label # 0 /\ part.passages >= MinPart =>
                  \E p \in Range(shown) :
                     p.from <= part.from /\ part.to <= p.to /\ p.label = part.label

OutlineHolds == PartsSplitTheWork /\ SectionsAreShown /\ HeadingsAreKept
=============================================================================
