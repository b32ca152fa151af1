------------------------------ MODULE MCSyncJobs ------------------------------
(***************************************************************************)
(* Instances of SyncJobs for TLC.                                          *)
(***************************************************************************)
EXTENDS SyncJobs, TLC

CONSTANTS r1, d1, s1, s2, w1, w2, x1

\* One rule, a dry run and a sync job.
OneRuleJobs == {d1, s1}
OneRuleOf == [j \in OneRuleJobs |-> r1]

\* One rule, a dry run and two sync jobs that may be queued together.
QueueJobs == {d1, s1, s2}
QueueRuleOf == [j \in QueueJobs |-> r1]

WorkerSymmetry == Permutations(Workers)

=============================================================================
