----------------------------- MODULE CachedCopy -----------------------------
(***************************************************************************)
(* Sync runs of a cached_instances rule over the projection of their       *)
(* source: the run takes the global reservation, reads the served snapshot *)
(* and its journal of removals once, and copies instances to the target,   *)
(* asking before every call whether that revision is still served          *)
(* (runtime/worker.go, syncengine/cache_copy_*.go, storage/                *)
(* source_projection_reader.go).  Here an instance has a copy or not; how  *)
(* one copy is kept is the module TargetMappings.                          *)
(***************************************************************************)
EXTENDS SourceProjection

VARIABLES
    run,          \* the worker's sync run, its locals
    copied        \* cursor of the snapshot each copy was made from, 0 for no copy

copyVars == <<vars, run, copied>>

IdleRun == [pc |-> "idle", op |-> None, revision |-> 0, todo |-> {}, dispatched |-> FALSE]

CopyTypeOK ==
    /\ TypeOK /\ copied \in [Instances -> 0..MaxHistory]
    /\ run \in [pc : {"idle", "reserved", "copying"}, op : CopyRuns \cup {None},
                revision : Nat, todo : SUBSET Instances, dispatched : BOOLEAN]
    /\ run.pc # "idle" => op[run.op] = "open"

CopyInit == Init /\ run = IdleRun /\ copied = [i \in Instances |-> 0]

(* BeginExclusiveDispatch for the target of the rule. *)
BeginRun(o) ==
    /\ run = IdleRun /\ BeginExclusiveDispatch(o)
    /\ run' = [IdleRun EXCEPT !.pc = "reserved", !.op = o]
    /\ UNCHANGED copied

(* Faulty: an eviction counts as a cancellation. *)
AnyRemoved(s) == {o.instance : o \in {r \in s.observations : r.resolved}} \ s.events
(* runCachedBatch: resolved provider cancellations no active instance      *)
(* supersedes; evictions and unresolved cancellations are passed over.     *)
Cancelled(s) ==
    {o.instance : o \in {r \in s.observations : r.cancelled /\ r.resolved}} \ s.events

HasCopy == {i \in Instances : copied[i] # 0}

(* RunCacheCopy reads the source once. *)
ReadSource ==
    /\ run.pc = "reserved"
    /\ \E s \in Served :
        run' = [run EXCEPT !.pc = "copying", !.revision = s.revision,
                           !.todo = (s.events \ HasCopy) \cup (Cancelled(s) \cap HasCopy)]
    /\ UNCHANGED <<vars, copied>>

(* Faulty: the revision is read once and trusted from then on. *)
OnceServed == run.revision # 0
(* CheckSourceProjectionCurrent, asked right before the call. *)
StillServed == \E s \in Served : s.revision = run.revision

(* One call of the run: a create or the deletion of the copy of i. *)
Dispatch(i) ==
    /\ run.pc = "copying" /\ i \in run.todo /\ StillServed
    /\ copied' = [copied EXCEPT ![i] = IF @ = 0 THEN source.cursor ELSE 0]
    /\ run' = [run EXCEPT !.todo = @ \ {i}, !.dispatched = TRUE]
    /\ UNCHANGED vars

(* The run ended well: everything planned was done. *)
FinishRun ==
    /\ run.pc = "copying" /\ run.todo = {}
    /\ ReleaseExclusiveAfterConfirmedRun(run.op)
    /\ run' = IdleRun /\ UNCHANGED copied

(* The source is not or no longer served, or the run fails otherwise.  The *)
(* reservation is released only if no call was made, else it is parked.    *)
FailRun ==
    /\ run.pc # "idle"
    /\ IF run.dispatched THEN UNCHANGED vars ELSE ReleaseExclusiveAfterConfirmedRun(run.op)
    /\ run' = IdleRun /\ UNCHANGED copied

(* A crash leaves the reservation behind. *)
CrashRun ==
    /\ run.pc # "idle" /\ run' = IdleRun /\ UNCHANGED <<vars, copied>>

CopyNext ==
    \/ ProviderChange /\ UNCHANGED <<run, copied>>
    \/ (\E o \in Ops \ CopyRuns : FenceStep(o)) /\ UNCHANGED <<run, copied>>
    \/ SyncStep /\ UNCHANGED <<run, copied>>
    \/ \E o \in CopyRuns : BeginRun(o)
    \/ ReadSource
    \/ \E i \in Instances : Dispatch(i)
    \/ FinishRun
    \/ FailRun
    \/ CrashRun

CopySpec == CopyInit /\ [][CopyNext]_copyVars

-----------------------------------------------------------------------------
Deleted(i) == copied[i] # 0 /\ copied'[i] = 0

(* A copy is deleted only for an instance the provider once cancelled and  *)
(* that the published snapshot does not hold: never because it left the    *)
(* window or is merely absent (runCachedBatch, Materialize).               *)
DeletionsAreCancellations ==
    [][\A i \in Instances, s \in Current : Deleted(i) =>
        /\ i \notin Inside(s.cursor)
        /\ \E q \in 1..s.cursor : history[q][i] = "gone"]_copyVars

(* When a call is made, no mutation of the source by this program is       *)
(* pending, and the plan it comes from was made from a snapshot that has   *)
(* every resolved one.                                                     *)
CallsSeeOwnMutations ==
    [][copied' # copied => \A s \in Current, o \in Ops :
            s.revision = run.revision /\ landed[o] <= s.cursor]_copyVars
=============================================================================
