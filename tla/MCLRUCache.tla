----------------------------- MODULE MCLRUCache -----------------------------
(* Instances of LRUCache for TLC.                                          *)
EXTENDS LRUCache, TLC

Symmetry == Permutations(Threads) \cup Permutations(Files \ Mutable)

Time(s, n) == [sec |-> s, nsec |-> n]

TwoSeconds == {Time(1, 1), Time(2, 0), Time(2, 1)}
=============================================================================
