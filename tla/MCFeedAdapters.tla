---------------------------- MODULE MCFeedAdapters ----------------------------
(* Instances of FeedAdapters for TLC. *)
EXTENDS FeedAdapters, TLC

CONSTANTS o1, o2

ObjectSymmetry == Permutations(Objects)
=============================================================================
