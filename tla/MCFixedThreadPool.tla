------------------------- MODULE MCFixedThreadPool -------------------------
(* Small instances of FixedThreadPool for TLC.                             *)
EXTENDS FixedThreadPool, TLC

Symmetry ==
    Permutations(Workers) \cup Permutations(Producers) \cup Permutations(Tasks)
=============================================================================
