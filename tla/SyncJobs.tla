------------------------------ MODULE SyncJobs ------------------------------
(***************************************************************************)
(* The synchronization job queue of the calendar control plane: the rows   *)
(* of sync_rules, sync_jobs and sync_runs, the global provider-dispatch    *)
(* reservation, the worker processes that claim and execute jobs, and the  *)
(* API writers that share the reservation with them.                       *)
(*                                                                         *)
(* Every storage function runs in one database transaction and is one      *)
(* action.  A worker's executeJob spans many transactions and is split     *)
(* where another process can act in between; a worker may stall, lose its  *)
(* lease or crash at each of those points.  Time appears only as "the      *)
(* lease of a job has run out", which may happen at any moment.            *)
(***************************************************************************)
EXTENDS Naturals, FiniteSets

CONSTANTS
    Rules,        \* identities of sync_rules rows
    Jobs,         \* identities of sync_jobs rows, each inserted at most once
    RuleOf,       \* the rule a job row belongs to
    DryRuns,      \* the jobs of kind dry_run; the others are manual or
                  \* scheduled, kinds the queue treats alike
    Workers,      \* worker processes
    Writers,      \* API writers (MCP, REST, web, quarantine repair)
    MaxAttempts,  \* bound on the claims of one job
    None          \* the NULL of an owner, a claim or a reservation

ASSUME ConstantsAssumption ==
    /\ RuleOf \in [Jobs -> Rules]
    /\ DryRuns \subseteq Jobs
    /\ MaxAttempts \in Nat
    /\ None \notin Workers \cup Writers \cup (Jobs \X (1..MaxAttempts))
    /\ Writers \cap (Jobs \X (1..MaxAttempts)) = {}

VARIABLES
    ruleState,    \* sync_rules.state
    selected,     \* source and target calendar of the rule are enabled
    jobs,         \* sync_jobs rows
    runs,         \* sync_runs.outcome of each attempt's run row
    pending,      \* attempts that left an event_mappings row in pending_*
    reservation,  \* the unreleased exclusive_dispatch_reservations row
    sent,         \* operations with a provider mutation that was issued and
                  \* whose result is not confirmed (the provider's side)
    pc,           \* where each worker stands in executeJob
    claim,        \* the attempt a worker executes
    reserved,     \* executeJob's local: BeginExclusiveDispatch returned nil
    dispatched,   \* executeJob's local: the dispatch observer has run
    failed,       \* executeJob's local: err # nil
    halt,         \* why syncCtx was cancelled: "none", "stop" or "lease"
    writer        \* where each API writer stands in GuardedWrite

dbVars     == <<ruleState, selected, jobs, runs, pending>>
workerVars == <<pc, claim, reserved, dispatched, failed, halt>>
fenceVars  == <<reservation, sent>>
vars       == <<dbVars, fenceVars, workerVars, writer>>

-----------------------------------------------------------------------------
(* Types *)

Attempts   == Jobs \X (1..MaxAttempts)
Operations == Attempts \cup Writers

RuleStates == {"paused", "enabled", "archived"}
JobStates  == {"absent", "pending", "running", "succeeded", "failed",
               "stopped", "cancelled", "unknown"}
Terminal   == {"succeeded", "failed", "stopped", "cancelled", "unknown"}
Outcomes   == {"none", "running", "succeeded", "failed", "stopped", "unknown"}
WorkerPCs  == {"idle", "claimed", "started", "engine", "intent", "fenced",
               "sent", "ending", "finishing"}
WriterPCs  == {"idle", "reserved", "sent", "parked"}

JobRow == [state : JobStates, attempt : 0..MaxAttempts,
           by : Workers \cup {None}, lease : {"none", "live", "expired"},
           stop : BOOLEAN]

TypeOK ==
    /\ ruleState \in [Rules -> RuleStates]
    /\ selected \in [Rules -> BOOLEAN]
    /\ jobs \in [Jobs -> JobRow]
    /\ runs \in [Attempts -> Outcomes]
    /\ pending \in SUBSET Attempts
    /\ reservation \in Operations \cup {None}
    /\ sent \in SUBSET Operations
    /\ pc \in [Workers -> WorkerPCs]
    /\ claim \in [Workers -> Attempts \cup {None}]
    /\ reserved \in [Workers -> BOOLEAN]
    /\ dispatched \in [Workers -> BOOLEAN]
    /\ failed \in [Workers -> BOOLEAN]
    /\ halt \in [Workers -> {"none", "stop", "lease"}]
    /\ writer \in [Writers -> WriterPCs]

-----------------------------------------------------------------------------
(* State functions *)

JobsOf(r) == {j \in Jobs : RuleOf[j] = r}
SyncJobsOf(r) == JobsOf(r) \ DryRuns

JobOf(w) == claim[w][1]
RuleAt(w) == RuleOf[JobOf(w)]

HasUnknownJob(r) == \E j \in JobsOf(r) : jobs[j].state = "unknown"

\* A job row is still the one this worker claimed (lockJobLeaseForUpdate).
OwnsJob(w) ==
    /\ jobs[JobOf(w)].state = "running"
    /\ jobs[JobOf(w)].by = w
    /\ jobs[JobOf(w)].attempt = claim[w][2]

\* Faulty: trusts the worker's own claim.
HeldOnce(w) == claim[w] # None

HoldsLease(w) == OwnsJob(w) /\ jobs[JobOf(w)].lease = "live"

\* The dispatch fence, read immediately before a provider call.  Its query
\* runs on syncCtx, so it fails once that context has been cancelled.
CheckJobDispatchLease(w) ==
    /\ HoldsLease(w)
    /\ ~jobs[JobOf(w)].stop
    /\ JobOf(w) \in DryRuns \/ ruleState[RuleAt(w)] = "enabled"
    /\ halt[w] = "none"

\* Faulty: accepts a dry run whatever its outcome.
HasFinishedDryRun(r) ==
    \E op \in Attempts : /\ op[1] \in JobsOf(r) \cap DryRuns
                         /\ runs[op] \notin {"none", "running"}

HasSuccessfulDryRun(r) ==
    \E op \in Attempts : /\ op[1] \in JobsOf(r) \cap DryRuns
                         /\ runs[op] = "succeeded"

HasPendingMapping(r) == \E op \in pending : RuleOf[op[1]] = r

\* What the control plane shows for a rule.
RuleControlStatus(r) ==
    LET active == \E j \in SyncJobsOf(r) : jobs[j].state \in {"pending", "running"}
        stopping == \E j \in JobsOf(r) : jobs[j].state = "running" /\ jobs[j].stop
        dryRun == \E j \in JobsOf(r) \cap DryRuns :
                      jobs[j].state \in {"pending", "running"}
        uncertain == \/ HasUnknownJob(r)
                     \/ HasPendingMapping(r)
                     \/ reservation # None
    IN  CASE ruleState[r] = "enabled" /\ stopping -> "stopping"
          [] ruleState[r] = "enabled" /\ ~stopping /\ ~active /\ uncertain
                 -> "needs_review"
          [] ruleState[r] = "enabled" /\ ~stopping /\ (active \/ ~uncertain)
                 -> "active"
          [] ruleState[r] = "archived" -> "unknown"
          [] ruleState[r] = "paused" /\ active -> "pausing"
          [] ruleState[r] = "paused" /\ ~active /\ uncertain -> "needs_review"
          [] ruleState[r] = "paused" /\ ~active /\ ~uncertain /\ dryRun -> "busy"
          [] ruleState[r] = "paused" /\ ~active /\ ~uncertain /\ ~dryRun -> "paused"

-----------------------------------------------------------------------------
(* Initial state: rules have been created (paused), nothing has been run.  *)

AbsentJob == [state |-> "absent", attempt |-> 0, by |-> None,
              lease |-> "none", stop |-> FALSE]

Init ==
    /\ ruleState = [r \in Rules |-> "paused"]
    /\ selected = [r \in Rules |-> TRUE]
    /\ jobs = [j \in Jobs |-> AbsentJob]
    /\ runs = [op \in Attempts |-> "none"]
    /\ pending = {}
    /\ reservation = None
    /\ sent = {}
    /\ pc = [w \in Workers |-> "idle"]
    /\ claim = [w \in Workers |-> None]
    /\ reserved = [w \in Workers |-> FALSE]
    /\ dispatched = [w \in Workers |-> FALSE]
    /\ failed = [w \in Workers |-> FALSE]
    /\ halt = [w \in Workers |-> "none"]
    /\ writer = [x \in Writers |-> "idle"]

-----------------------------------------------------------------------------
(* Control plane: the handlers behind the web UI *)

\* Insert a pending row: "run now" (sync) or "dry run".
EnqueueJob(j) ==
    LET r == RuleOf[j] IN
    /\ jobs[j].state = "absent"
    /\ ruleState[r] = "enabled" \/ (ruleState[r] = "paused" /\ j \in DryRuns)
    /\ j \notin DryRuns => ~HasUnknownJob(r) /\ reservation = None
    /\ selected[r]
    /\ jobs' = [jobs EXCEPT ![j].state = "pending"]
    /\ UNCHANGED <<ruleState, selected, runs, pending, fenceVars, workerVars,
                   writer>>

\* enableRule: the successful dry run is looked up first; run rows are never
\* reopened, so the lookup cannot have become stale by the time the state
\* transition (SetRuleState, EnableCachedRuleIfReady) commits.
EnableRule(r) ==
    /\ HasSuccessfulDryRun(r)
    /\ ruleState[r] = "paused"
    /\ \A j \in JobsOf(r) : /\ jobs[j].state # "unknown"
                            /\ ~(jobs[j].state = "running" /\ jobs[j].stop)
    /\ reservation = None
    /\ selected[r]
    /\ ruleState' = [ruleState EXCEPT ![r] = "enabled"]
    /\ UNCHANGED <<selected, jobs, runs, pending, fenceVars, workerVars, writer>>

\* Faulty: stops what runs but forgets what is queued.
PauseRunningOnly(r) ==
    /\ ruleState[r] = "enabled"
    /\ ruleState' = [ruleState EXCEPT ![r] = "paused"]
    /\ jobs' = [j \in Jobs |->
          IF j \in SyncJobsOf(r) /\ jobs[j].state = "running"
          THEN [jobs[j] EXCEPT !.stop = TRUE] ELSE jobs[j]]
    /\ UNCHANGED <<selected, runs, pending, fenceVars, workerVars, writer>>

\* Pause: cancel the queued sync jobs of the rule, ask the running one to stop.
RequestRulePause(r) ==
    /\ ruleState[r] = "enabled"
    /\ ruleState' = [ruleState EXCEPT ![r] = "paused"]
    /\ jobs' = [j \in Jobs |->
          CASE j \in SyncJobsOf(r) /\ jobs[j].state = "pending"
                   -> [jobs[j] EXCEPT !.state = "cancelled"]
            [] j \in SyncJobsOf(r) /\ jobs[j].state = "running"
                   -> [jobs[j] EXCEPT !.stop = TRUE]
            [] OTHER -> jobs[j]]
    /\ UNCHANGED <<selected, runs, pending, fenceVars, workerVars, writer>>

\* Stop one job: a queued one is cancelled, a running one is asked to stop.
RequestJobStop(j) ==
    /\ jobs[j].state \in {"pending", "running"}
    /\ ~jobs[j].stop
    /\ jobs' = [jobs EXCEPT ![j].stop = TRUE,
                            ![j].state = IF @ = "pending" THEN "cancelled" ELSE @]
    /\ UNCHANGED <<ruleState, selected, runs, pending, fenceVars, workerVars,
                   writer>>

\* Faulty: archives although a mapping records an unsettled mutation.
ArchiveUnsettledRule(r) ==
    /\ ruleState[r] = "paused"
    /\ \A j \in JobsOf(r) : jobs[j].state \notin {"pending", "running", "unknown"}
    /\ reservation = None
    /\ ruleState' = [ruleState EXCEPT ![r] = "archived"]
    /\ UNCHANGED <<selected, jobs, runs, pending, fenceVars, workerVars, writer>>

\* Archiving needs a rule with nothing active and nothing uncertain.
ArchiveRule(r) ==
    /\ ruleState[r] = "paused"
    /\ \A j \in JobsOf(r) : jobs[j].state \notin {"pending", "running", "unknown"}
    /\ ~HasPendingMapping(r)
    /\ reservation = None
    /\ ruleState' = [ruleState EXCEPT ![r] = "archived"]
    /\ UNCHANGED <<selected, jobs, runs, pending, fenceVars, workerVars, writer>>

\* The user's calendar selection, seen from the rule that uses the calendars.
SetCalendarEnabled(r) ==
    /\ selected' = [selected EXCEPT ![r] = ~@]
    /\ UNCHANGED <<ruleState, jobs, runs, pending, fenceVars, workerVars, writer>>

-----------------------------------------------------------------------------
(* The worker cycle: recover, schedule, claim *)

\* The lease deadline of a running job passes before a heartbeat renewed it.
\* (A renewal in time leaves the lease live: it changes nothing here.)
LeaseExpires(j) ==
    /\ jobs[j].state = "running"
    /\ jobs[j].lease = "live"
    /\ jobs' = [jobs EXCEPT ![j].lease = "expired"]
    /\ UNCHANGED <<ruleState, selected, runs, pending, fenceVars, workerVars,
                   writer>>

\* Faulty: looks for stale jobs among those whose run has begun.
StaleStartedJobs ==
    {j \in Jobs : /\ jobs[j].state = "running" /\ jobs[j].lease = "expired"
                  /\ runs[<<j, jobs[j].attempt>>] = "running"}

StaleJobs == {j \in Jobs : jobs[j].state = "running" /\ jobs[j].lease = "expired"}

\* Faulty: a job that was asked to stop is queued again like any other.
RequeuedState(j) == "pending"

RecoveredState(j) == IF jobs[j].stop THEN "unknown" ELSE "pending"

\* The cycle samples "now" before its event synchronization: leases that ran
\* out since then are left to a later cycle, so any part of the stale jobs may
\* be recovered.
RecoverStaleJobs(S) ==
    /\ \E w \in Workers : pc[w] = "idle"
    /\ S # {}
    /\ jobs' = [j \in Jobs |->
          IF j \in S
          THEN [jobs[j] EXCEPT !.state = RecoveredState(j),
                               !.by = None, !.lease = "none"]
          ELSE jobs[j]]
    /\ runs' = [op \in Attempts |->
          IF op[1] \in S /\ runs[op] = "running"
          THEN IF RecoveredState(op[1]) = "unknown" THEN "unknown" ELSE "failed"
          ELSE runs[op]]
    /\ UNCHANGED <<ruleState, selected, pending, fenceVars, workerVars, writer>>

\* One due rule of the transaction: the insertions do not influence each other.
\* next_run_at only delays, so an enabled rule may be due at any time.
ScheduleDueJobs(j) ==
    LET r == RuleOf[j] IN
    /\ \E w \in Workers : pc[w] = "idle"
    /\ j \notin DryRuns
    /\ jobs[j].state = "absent"
    /\ ruleState[r] = "enabled"
    /\ ~HasUnknownJob(r)
    /\ reservation = None
    /\ selected[r]
    /\ jobs' = [jobs EXCEPT ![j].state = "pending"]
    /\ UNCHANGED <<ruleState, selected, runs, pending, fenceVars, workerVars,
                   writer>>

\* Faulty: does not look for a running job of the same rule.
ClaimableBesideAnother(j) ==
    LET r == RuleOf[j] IN
    /\ jobs[j].state = "pending"
    /\ selected[r]
    /\ ruleState[r] = "enabled" \/ (ruleState[r] = "paused" /\ j \in DryRuns)

Claimable(j) ==
    LET r == RuleOf[j] IN
    /\ jobs[j].state = "pending"
    /\ selected[r]
    /\ ruleState[r] = "enabled" \/ (ruleState[r] = "paused" /\ j \in DryRuns)
    /\ \A k \in JobsOf(r) : jobs[k].state # "running"

\* Faulty: counts the attempt twice.
DoubleCountedRow(j, w) ==
    [jobs[j] EXCEPT !.state = "running", !.attempt = @ + 2,
                    !.by = w, !.lease = "live"]

ClaimedRow(j, w) ==
    [jobs[j] EXCEPT !.state = "running", !.attempt = @ + 1,
                    !.by = w, !.lease = "live"]

ClaimJob(w, j) ==
    /\ pc[w] = "idle"
    /\ Claimable(j)
    /\ jobs[j].attempt < MaxAttempts
    /\ jobs' = [jobs EXCEPT ![j] = ClaimedRow(j, w)]
    /\ pc' = [pc EXCEPT ![w] = "claimed"]
    /\ claim' = [claim EXCEPT ![w] = <<j, jobs[j].attempt + 1>>]
    /\ UNCHANGED <<ruleState, selected, runs, pending, fenceVars, reserved,
                   dispatched, failed, halt, writer>>

\* The claim commits but is not returned: the commit took the whole lease, or
\* its reply was lost.  The row stays running with nobody executing it.
ClaimJobLost(w, j) ==
    /\ pc[w] = "idle"
    /\ Claimable(j)
    /\ jobs[j].attempt < MaxAttempts
    /\ jobs' = [jobs EXCEPT ![j] = ClaimedRow(j, w)]
    /\ UNCHANGED <<ruleState, selected, runs, pending, fenceVars, workerVars,
                   writer>>

-----------------------------------------------------------------------------
(* executeJob *)

\* Leaving executeJob (or dying inside it) discards the worker's locals.
BecomeIdle(w) ==
    /\ pc' = [pc EXCEPT ![w] = "idle"]
    /\ claim' = [claim EXCEPT ![w] = None]
    /\ reserved' = [reserved EXCEPT ![w] = FALSE]
    /\ dispatched' = [dispatched EXCEPT ![w] = FALSE]
    /\ failed' = [failed EXCEPT ![w] = FALSE]
    /\ halt' = [halt EXCEPT ![w] = "none"]

\* The run row is inserted without looking at the job row.
StartRun(w) ==
    /\ pc[w] = "claimed"
    /\ runs' = [runs EXCEPT ![claim[w]] = "running"]
    /\ pc' = [pc EXCEPT ![w] = "started"]
    /\ UNCHANGED <<ruleState, selected, jobs, pending, fenceVars, claim,
                   reserved, dispatched, failed, halt, writer>>

\* RuleByID or StartRun returned an error: the job is left running.
StartRunFails(w) ==
    /\ pc[w] = "claimed"
    /\ BecomeIdle(w)
    /\ UNCHANGED <<dbVars, fenceVars, writer>>

\* A dry run goes to the engine without a reservation.
StartDryRun(w) ==
    /\ pc[w] = "started"
    /\ JobOf(w) \in DryRuns
    /\ pc' = [pc EXCEPT ![w] = "engine"]
    /\ UNCHANGED <<dbVars, fenceVars, claim, reserved, dispatched, failed,
                   halt, writer>>

\* Faulty: treats the reservation of a job that stopped running as expired.
TakeOverDispatch(w) ==
    /\ pc[w] = "started"
    /\ JobOf(w) \notin DryRuns
    /\ halt[w] = "none"
    /\ \/ reservation = None
       \/ reservation \in Attempts /\ jobs[reservation[1]].state # "running"
    /\ reservation' = claim[w]
    /\ reserved' = [reserved EXCEPT ![w] = TRUE]
    /\ pc' = [pc EXCEPT ![w] = "engine"]
    /\ UNCHANGED <<dbVars, sent, claim, dispatched, failed, halt, writer>>

\* A sync run reserves the one global target key first.
BeginExclusiveDispatch(w) ==
    /\ pc[w] = "started"
    /\ JobOf(w) \notin DryRuns
    /\ halt[w] = "none"
    /\ reservation = None
    /\ reservation' = claim[w]
    /\ reserved' = [reserved EXCEPT ![w] = TRUE]
    /\ pc' = [pc EXCEPT ![w] = "engine"]
    /\ UNCHANGED <<dbVars, sent, claim, dispatched, failed, halt, writer>>

\* The key is taken, syncCtx is cancelled, or the database failed.  A commit
\* whose reply was lost leaves a reservation that this worker does not count
\* as its own.
BeginExclusiveDispatchFails(w) ==
    /\ pc[w] = "started"
    /\ JobOf(w) \notin DryRuns
    /\ \/ reservation' = reservation
       \/ reservation = None /\ reservation' = claim[w]
    /\ failed' = [failed EXCEPT ![w] = TRUE]
    /\ pc' = [pc EXCEPT ![w] = "ending"]
    /\ UNCHANGED <<dbVars, sent, claim, reserved, dispatched, halt, writer>>

\* The engine decides to mutate one target event: it checks the fence and
\* records the intent as a pending mapping row.
BeginMutation(w) ==
    /\ pc[w] = "engine"
    /\ JobOf(w) \notin DryRuns
    /\ CheckJobDispatchLease(w)
    /\ pending' = pending \cup {claim[w]}
    /\ pc' = [pc EXCEPT ![w] = "intent"]
    /\ UNCHANGED <<ruleState, selected, jobs, runs, fenceVars, claim, reserved,
                   dispatched, failed, halt, writer>>

\* The guarded target checks the calendar selection and the fence once more,
\* immediately before the call ...
PassDispatchFence(w) ==
    /\ pc[w] = "intent"
    /\ selected[RuleAt(w)]
    /\ CheckJobDispatchLease(w)
    /\ pc' = [pc EXCEPT ![w] = "fenced"]
    /\ UNCHANGED <<dbVars, fenceVars, claim, reserved, dispatched, failed,
                   halt, writer>>

\* ... and calls the provider.  Whatever happened since the check, the call
\* goes out.
DispatchMutation(w) ==
    /\ pc[w] = "fenced"
    /\ dispatched' = [dispatched EXCEPT ![w] = TRUE]
    /\ sent' = sent \cup {claim[w]}
    /\ pc' = [pc EXCEPT ![w] = "sent"]
    /\ UNCHANGED <<dbVars, reservation, claim, reserved, failed, halt, writer>>

\* The provider confirmed and the mapping row was completed.
ConfirmMutation(w) ==
    /\ pc[w] = "sent"
    /\ halt[w] = "none"
    /\ sent' = sent \ {claim[w]}
    /\ pending' = pending \ {claim[w]}
    /\ pc' = [pc EXCEPT ![w] = "engine"]
    /\ UNCHANGED <<ruleState, selected, jobs, runs, reservation, claim,
                   reserved, dispatched, failed, halt, writer>>

\* Every change of the source has been handled.
EngineSucceeds(w) ==
    /\ pc[w] = "engine"
    /\ pc' = [pc EXCEPT ![w] = "ending"]
    /\ UNCHANGED <<dbVars, fenceVars, claim, reserved, dispatched, failed,
                   halt, writer>>

\* Ineligible target, provider setup, source read, fence, provider or mapping
\* error: the engine gives up at once.
EngineFails(w) ==
    /\ pc[w] \in {"engine", "intent", "sent"}
    /\ failed' = [failed EXCEPT ![w] = TRUE]
    /\ pc' = [pc EXCEPT ![w] = "ending"]
    /\ UNCHANGED <<dbVars, fenceVars, claim, reserved, dispatched, halt, writer>>

Executing(w) == pc[w] \in {"started", "engine", "intent", "fenced", "sent"}

\* The stop poll: the row asks for a stop or is no longer this attempt's.
PollStopRequest(w) ==
    /\ Executing(w)
    /\ halt[w] = "none"
    /\ ~OwnsJob(w) \/ jobs[JobOf(w)].stop
    /\ halt' = [halt EXCEPT ![w] = "stop"]
    /\ UNCHANGED <<dbVars, fenceVars, pc, claim, reserved, dispatched, failed,
                   writer>>

\* The heartbeat cannot renew the lease (lost, or a database error).
HeartbeatFails(w) ==
    /\ Executing(w)
    /\ halt[w] # "lease"
    /\ halt' = [halt EXCEPT ![w] = "lease"]
    /\ UNCHANGED <<dbVars, fenceVars, pc, claim, reserved, dispatched, failed,
                   writer>>

\* executeJob's err once the heartbeat has been joined.
RunFailed(w) == failed[w] \/ halt[w] = "lease"

\* Faulty: gives back whatever it reserved, like a deferred unlock.
AlwaysRelease(w) == reserved[w]

\* A release is allowed after a fully successful run or one that never called
\* a provider.
MayRelease(w) == reserved[w] /\ (~RunFailed(w) \/ ~dispatched[w])

ReleaseExclusiveAfterConfirmedRun(w) ==
    /\ pc[w] = "ending"
    /\ MayRelease(w)
    /\ reservation = claim[w]
    /\ reservation' = None
    \* an error after the commit is reported although the release happened
    /\ \E lost \in BOOLEAN :
          failed' = [failed EXCEPT ![w] = RunFailed(w) \/ lost]
    /\ pc' = [pc EXCEPT ![w] = "finishing"]
    /\ UNCHANGED <<dbVars, sent, claim, reserved, dispatched, halt, writer>>

\* The release transaction fails.
ReleaseFails(w) ==
    /\ pc[w] = "ending"
    /\ MayRelease(w)
    /\ failed' = [failed EXCEPT ![w] = TRUE]
    /\ pc' = [pc EXCEPT ![w] = "finishing"]
    /\ UNCHANGED <<dbVars, fenceVars, claim, reserved, dispatched, halt, writer>>

\* Nothing was reserved, or the outcome is uncertain: the reservation parks.
KeepReservation(w) ==
    /\ pc[w] = "ending"
    /\ ~MayRelease(w)
    /\ failed' = [failed EXCEPT ![w] = RunFailed(w)]
    /\ pc' = [pc EXCEPT ![w] = "finishing"]
    /\ UNCHANGED <<dbVars, fenceVars, claim, reserved, dispatched, halt, writer>>

\* Faulty: a stop always counts as a clean stop.
CleanStop(w) ==
    CASE ~failed[w] -> "succeeded"
      [] failed[w] /\ ~jobs[JobOf(w)].stop -> "failed"
      [] failed[w] /\ jobs[JobOf(w)].stop -> "stopped"

\* The outcome FinishRun records: a failed run that was asked to stop is
\* "unknown" if a provider was called and "stopped" otherwise.
RecordedOutcome(w) ==
    CASE ~failed[w] -> "succeeded"
      [] failed[w] /\ ~jobs[JobOf(w)].stop -> "failed"
      [] failed[w] /\ jobs[JobOf(w)].stop /\ dispatched[w] -> "unknown"
      [] failed[w] /\ jobs[JobOf(w)].stop /\ ~dispatched[w] -> "stopped"

FinishRun(w) ==
    /\ pc[w] = "finishing"
    /\ HoldsLease(w)
    /\ runs[claim[w]] = "running"
    /\ jobs' = [jobs EXCEPT ![JobOf(w)].state = RecordedOutcome(w),
                            ![JobOf(w)].lease = "none"]
    /\ runs' = [runs EXCEPT ![claim[w]] = RecordedOutcome(w)]
    /\ BecomeIdle(w)
    /\ UNCHANGED <<ruleState, selected, pending, fenceVars, writer>>

\* The lease is gone or the transaction failed: nothing is recorded.
FinishRunFails(w) ==
    /\ pc[w] = "finishing"
    /\ BecomeIdle(w)
    /\ UNCHANGED <<dbVars, fenceVars, writer>>

\* The process dies or is shut down.  A shutdown cancels the context of every
\* later transaction of the job, so nothing of it is recorded either.
Crash(w) ==
    /\ pc[w] # "idle"
    /\ BecomeIdle(w)
    /\ UNCHANGED <<dbVars, fenceVars, writer>>

-----------------------------------------------------------------------------
(* API writers: GuardedWrite around one provider mutation *)

BeginWriteDispatch(x) ==
    /\ writer[x] = "idle"
    /\ reservation = None
    /\ reservation' = x
    \* the commit's reply may be lost: the write is refused, the row remains
    /\ \E pos \in {"reserved", "parked"} :
          writer' = [writer EXCEPT ![x] = pos]
    /\ UNCHANGED <<dbVars, sent, workerVars>>

WriterDispatches(x) ==
    /\ writer[x] = "reserved"
    /\ sent' = sent \cup {x}
    /\ writer' = [writer EXCEPT ![x] = "sent"]
    /\ UNCHANGED <<dbVars, reservation, workerVars>>

\* Confirmed, or proven to have called no provider: release.
WriterReleases(x) ==
    /\ writer[x] \in {"reserved", "sent"}
    /\ reservation' = None
    /\ sent' = sent \ {x}
    /\ writer' = [writer EXCEPT ![x] = "idle"]
    /\ UNCHANGED <<dbVars, workerVars>>

\* Unknown outcome, failed release or a crash: the reservation parks.
WriterParks(x) ==
    /\ writer[x] \in {"reserved", "sent"}
    /\ writer' = [writer EXCEPT ![x] = "parked"]
    /\ UNCHANGED <<dbVars, fenceVars, workerVars>>

-----------------------------------------------------------------------------

ControlPlane ==
    \/ \E j \in Jobs : EnqueueJob(j) \/ RequestJobStop(j)
    \/ \E r \in Rules : \/ EnableRule(r)
                        \/ RequestRulePause(r)
                        \/ ArchiveRule(r)
                        \/ SetCalendarEnabled(r)

Queue ==
    \/ \E j \in Jobs : LeaseExpires(j) \/ ScheduleDueJobs(j)
    \/ \E S \in SUBSET StaleJobs : RecoverStaleJobs(S)
    \/ \E w \in Workers, j \in Jobs : ClaimJob(w, j) \/ ClaimJobLost(w, j)

Execute(w) ==
    \/ StartRun(w)
    \/ StartRunFails(w)
    \/ StartDryRun(w)
    \/ BeginExclusiveDispatch(w)
    \/ BeginExclusiveDispatchFails(w)
    \/ BeginMutation(w)
    \/ PassDispatchFence(w)
    \/ DispatchMutation(w)
    \/ ConfirmMutation(w)
    \/ EngineSucceeds(w)
    \/ EngineFails(w)
    \/ ReleaseExclusiveAfterConfirmedRun(w)
    \/ ReleaseFails(w)
    \/ KeepReservation(w)
    \/ FinishRun(w)
    \/ FinishRunFails(w)

Interrupt(w) == PollStopRequest(w) \/ HeartbeatFails(w) \/ Crash(w)

Write(x) ==
    \/ BeginWriteDispatch(x)
    \/ WriterDispatches(x)
    \/ WriterReleases(x)
    \/ WriterParks(x)

Next ==
    \/ ControlPlane
    \/ Queue
    \/ \E w \in Workers : Execute(w) \/ Interrupt(w)
    \/ \E x \in Writers : Write(x)

Spec == Init /\ [][Next]_vars

(***************************************************************************)
(* Fairness.  A worker that is executing a job keeps going; a run handles  *)
(* finitely many source events, so the engine is not for ever in between   *)
(* two mutations; an abandoned lease runs out; the 5-second ticker keeps   *)
(* starting cycles, each of which recovers stale jobs.                     *)
(***************************************************************************)
Abandoned(j) == \A w \in Workers : claim[w] # <<j, jobs[j].attempt>>

Fairness ==
    /\ \A w \in Workers : /\ WF_vars(Execute(w))
                          /\ SF_vars(EngineSucceeds(w))
    /\ \A j \in Jobs : WF_vars(Abandoned(j) /\ LeaseExpires(j))
    /\ WF_vars(\E S \in SUBSET StaleJobs : RecoverStaleJobs(S))

FairSpec == Spec /\ Fairness

-----------------------------------------------------------------------------
(* Properties *)

\* An operation may have changed the provider, or may do so in its next step.
InFlight(op) ==
    \/ op \in sent
    \/ \E w \in Workers : claim[w] = op /\ pc[w] \in {"intent", "fenced", "sent"}
    \/ op \in Writers /\ writer[op] \in {"reserved", "sent"}

\* Whoever is about to call a provider, and whoever called one without a
\* confirmed result, holds the one global reservation; hence no two of them
\* overlap, whatever leases were lost, and an uncertain result keeps blocking
\* every other writer.
ProviderAccessIsReserved ==
    \A op \in Operations : InFlight(op) => reservation = op

\* Nobody executes the operation any more.
Forsaken(op) == IF op \in Writers THEN writer[op] = "parked"
                                 ELSE \A w \in Workers : claim[w] # op

\* A reservation left behind stays: no recovery, pause, stop, archive or later
\* run clears it.
ParkedStaysParked ==
    [][reservation # None /\ Forsaken(reservation)
           => reservation' = reservation]_vars

\* A closed job and a closed run are never rewritten, in particular not by a
\* stalled worker that comes back after its job was recovered.
ClosedIsFinal ==
    [][/\ \A j \in Jobs : jobs[j].state \in Terminal => jobs'[j] = jobs[j]
       /\ \A op \in Attempts : runs[op] \notin {"none", "running"}
                                  => runs'[op] = runs[op]]_vars

\* Pausing leaves no way back into the queue: a rule that is not enabled has no
\* queued sync job, and one that still runs is asked to stop.  An archived rule
\* has nothing left to run or to review.
PauseIsEffective ==
    \A r \in Rules :
        /\ ruleState[r] # "enabled" =>
              \A j \in SyncJobsOf(r) : /\ jobs[j].state # "pending"
                                       /\ jobs[j].state = "running" => jobs[j].stop
        /\ ruleState[r] = "archived" =>
              \A j \in JobsOf(r) :
                  jobs[j].state \notin {"pending", "running", "unknown"}

\* What the history claims about the provider is true: a succeeded run has
\* confirmed every call and given its reservation back, a stopped run never
\* called, and a closed job shows what its last run shows.
OutcomesAreHonest ==
    /\ \A op \in Attempts :
          /\ runs[op] \in {"succeeded", "stopped"} => op \notin sent
          /\ runs[op] = "succeeded" => reservation # op
    /\ \A j \in Jobs : jobs[j].state \in {"succeeded", "failed", "stopped"} =>
          runs[<<j, jobs[j].attempt>>] = jobs[j].state

\* The control plane says "paused" (and "unknown", for an archived rule) only
\* when no mutation of the rule is under way or unsettled.
QuietWhenPaused ==
    \A r \in Rules : RuleControlStatus(r) \in {"paused", "unknown"} =>
        \A op \in Attempts : RuleOf[op[1]] = r =>
            ~InFlight(op) /\ op \notin pending

\* Nothing is mutated for a rule before a read-only dry run succeeded.
MutationNeedsDryRun ==
    \A op \in Attempts : InFlight(op) \/ op \in pending =>
        /\ op[1] \notin DryRuns
        /\ \E dry \in Attempts : /\ dry[1] \in DryRuns
                               /\ RuleOf[dry[1]] = RuleOf[op[1]]
                               /\ runs[dry] = "succeeded"

\* At most one job of a rule is running.
OneRunningJobPerRule ==
    \A j, k \in Jobs : /\ RuleOf[j] = RuleOf[k]
                        /\ jobs[j].state = "running"
                        /\ jobs[k].state = "running"
                        => j = k

\* No job is left running for ever, whatever its worker did.
RunningJobEnds ==
    \A j \in Jobs : jobs[j].state = "running" ~> jobs[j].state # "running"

\* A stop request leads to a closed job.
StopIsHonoured ==
    \A j \in Jobs : jobs[j].stop ~> jobs[j].state \in Terminal

=============================================================================
