--------------------------- MODULE MCCachedCopy -----------------------------
(* Instances of CachedCopy for TLC.                                        *)
EXTENDS CachedCopy, TLC

CONSTANTS i1, i2, w1, f1, s1, c1, c2

Symmetry == Permutations({i1, i2}) \cup Permutations({c1, c2})
=============================================================================
