-------------------------- MODULE MCTargetMappings --------------------------
EXTENDS TargetMappings, TLC

CONSTANTS e1, e2, r1, r2, k1, k2, n1, n2
Symmetric == Permutations({r1, r2}) \cup Permutations({k1, k2}) \cup Permutations({n1, n2})
=============================================================================
