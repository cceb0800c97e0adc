-------------------------- MODULE MCBuildLifecycle --------------------------
(* Small instances of BuildLifecycle for TLC. *)
EXTENDS BuildLifecycle, TLC

MCSymmetry == Permutations(Workers)
=============================================================================
