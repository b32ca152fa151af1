------------------------ MODULE MCSourceProjection --------------------------
(* Instances of SourceProjection for TLC.                                  *)
EXTENDS SourceProjection, TLC

CONSTANTS i1, i2, w1, w2, f1, f2, s1, c1, c2

Symmetry == Permutations({i1, i2}) \cup Permutations({w1, w2})
=============================================================================
