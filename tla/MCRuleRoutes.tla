----------------------------- MODULE MCRuleRoutes -----------------------------
(* Instances of RuleRoutes for TLC. *)
EXTENDS RuleRoutes, TLC

CONSTANTS c1, c2, A, B, C, r1, r2, r3, s1, s2

(* One account sees calendars A and B; another account sees a shared A. *)
SharedRows == {<<c1, A>>, <<c1, B>>, <<c2, A>>}

RouteSymmetry == Permutations(Rules \ Cached) \cup Permutations(Sessions)
=============================================================================
