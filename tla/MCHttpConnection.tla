------------------------- MODULE MCHttpConnection -------------------------
(* Instances of HttpConnection for TLC.                                    *)
EXTENDS HttpConnection, TLC

Symmetry == Permutations(Conns)
=============================================================================
