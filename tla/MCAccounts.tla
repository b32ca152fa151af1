------------------------------ MODULE MCAccounts ------------------------------
(* Instances of Accounts for TLC. *)
EXTENDS Accounts, TLC

CONSTANTS a1, a2, c1, c2, t1, t2, r1, r2

AccountSymmetry ==
    Permutations(Accounts) \cup Permutations(Connections) \cup Permutations(Attempts) \cup Permutations(Requests)
=============================================================================
