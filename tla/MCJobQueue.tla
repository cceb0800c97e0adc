----------------------------- MODULE MCJobQueue -----------------------------
(* Small instances of JobQueue for TLC. *)
EXTENDS JobQueue, TLC

CONSTANTS w1, w2, w3, e1, e2

\* Job 1 and 2 are builds of the same expert.
MCBuilds2   == {1, 2}
MCExpertOf2 == [j \in 1..2 |-> e1]

\* A single build: its attempts against each other.
MCBuilds1   == {1}
MCExpertOf1 == [j \in {1} |-> e1]

MCSymmetry == Permutations(Workers)
=============================================================================
