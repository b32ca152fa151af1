--------------------------- MODULE SyncJobs_proofs ---------------------------
(***************************************************************************)
(* Proofs about SyncJobs, for every set of rules, jobs, workers and        *)
(* writers and every bound on the attempts.                                *)
(***************************************************************************)
EXTENDS SyncJobs, TLAPS

-----------------------------------------------------------------------------
(* Lemmas: how the actions edit a job row *)

LeaseStates == {"none", "live", "expired"}

\* Setting any of the fields to a value of its type leaves a job row.
LEMMA RowEdits ==
    ASSUME NEW row \in JobRow, NEW s \in JobStates,
           NEW b \in Workers \cup {None}, NEW l \in LeaseStates
    PROVE  /\ [row EXCEPT !.state = s] \in JobRow
           /\ [row EXCEPT !.stop = TRUE] \in JobRow
           /\ [row EXCEPT !.lease = l] \in JobRow
           /\ [row EXCEPT !.stop = TRUE, !.state = s] \in JobRow
           /\ [row EXCEPT !.state = s, !.lease = l] \in JobRow
           /\ [row EXCEPT !.state = s, !.by = b, !.lease = l] \in JobRow
  BY DEF JobRow, LeaseStates

\* A claim counts one attempt and names its worker.
LEMMA RowClaim ==
    ASSUME NEW row \in JobRow, NEW s \in JobStates, NEW n \in 0..MaxAttempts,
           NEW b \in Workers \cup {None}, NEW l \in LeaseStates
    PROVE  [row EXCEPT !.state = s, !.attempt = n, !.by = b, !.lease = l]
               \in JobRow
  BY DEF JobRow, LeaseStates

\* A claimed row is of its type, and its attempt an operation.
LEMMA ClaimedRowType ==
    ASSUME TypeOK, NEW w \in Workers, NEW j \in Jobs,
           jobs[j].attempt < MaxAttempts
    PROVE  /\ ClaimedRow(j, w) \in JobRow
           /\ <<j, jobs[j].attempt + 1>> \in Attempts
<1>1. jobs[j] \in JobRow
  BY DEF TypeOK
<1>2. jobs[j].attempt + 1 \in 1..MaxAttempts
  BY <1>1, ConstantsAssumption DEF JobRow
<1>3. jobs[j].attempt + 1 \in 0..MaxAttempts
  BY <1>2, ConstantsAssumption
<1>4. "running" \in JobStates /\ "live" \in LeaseStates
  BY DEF JobStates, LeaseStates
<1> QED BY <1>1, <1>2, <1>3, <1>4, RowClaim, Zenon DEF ClaimedRow, Attempts

\* A job table whose rows are job rows.
LEMMA TableType ==
    ASSUME NEW t, t = [j \in Jobs |-> t[j]], \A j \in Jobs : t[j] \in JobRow
    PROVE  t \in [Jobs -> JobRow]
  OBVIOUS

-----------------------------------------------------------------------------
(* Type correctness *)

\* A worker executes an attempt exactly when it is inside executeJob.
ClaimsOK ==
    \A w \in Workers : pc[w] = "idle" <=> claim[w] = None

TypeInv == TypeOK /\ ClaimsOK

\* The initial state is of its type.
LEMMA InitTypeInv == Init => TypeInv
<1> SUFFICES ASSUME Init PROVE TypeInv
  OBVIOUS
<1>1. jobs \in [Jobs -> JobRow]
  BY ConstantsAssumption DEF Init, AbsentJob, JobRow, JobStates
<1>2. ruleState \in [Rules -> RuleStates] /\ runs \in [Attempts -> Outcomes]
  BY DEF Init, RuleStates, Outcomes
<1>3. pc \in [Workers -> WorkerPCs] /\ writer \in [Writers -> WriterPCs]
  BY DEF Init, WorkerPCs, WriterPCs
<1> QED BY <1>1, <1>2, <1>3 DEF Init, TypeInv, TypeOK, ClaimsOK

\* The control plane changes rules and job rows only.
LEMMA ControlPlaneType == TypeInv /\ ControlPlane => TypeInv'
<1> SUFFICES ASSUME TypeInv, ControlPlane PROVE TypeInv'
  OBVIOUS
<1> USE DEF TypeInv, TypeOK
<1>1. ASSUME NEW j \in Jobs, EnqueueJob(j) PROVE TypeInv'
  <2>1. jobs' \in [Jobs -> JobRow]
    BY <1>1, RowEdits DEF EnqueueJob, JobStates, LeaseStates
  <2> QED BY <1>1, <2>1 DEF EnqueueJob, fenceVars, workerVars, ClaimsOK
<1>2. ASSUME NEW j \in Jobs, RequestJobStop(j) PROVE TypeInv'
  <2>1. PICK s \in JobStates :
            jobs' = [jobs EXCEPT ![j] = [@ EXCEPT !.stop = TRUE, !.state = s]]
    BY <1>2 DEF RequestJobStop, JobRow, JobStates
  <2>2. jobs' \in [Jobs -> JobRow]
    BY <2>1, RowEdits DEF LeaseStates
  <2> QED BY <1>2, <2>2 DEF RequestJobStop, fenceVars, workerVars, ClaimsOK
<1>3. ASSUME NEW r \in Rules, RequestRulePause(r) PROVE TypeInv'
  <2>1. ASSUME NEW j \in Jobs PROVE jobs'[j] \in JobRow
    BY <1>3, RowEdits DEF RequestRulePause, JobStates, LeaseStates
  <2>2. jobs' \in [Jobs -> JobRow]
    BY <1>3, <2>1, TableType DEF RequestRulePause
  <2>3. ruleState' \in [Rules -> RuleStates]
    BY <1>3 DEF RequestRulePause, RuleStates
  <2> QED BY <1>3, <2>2, <2>3
          DEF RequestRulePause, fenceVars, workerVars, ClaimsOK
<1>4. ASSUME NEW r \in Rules, EnableRule(r) \/ ArchiveRule(r) PROVE TypeInv'
  <2>1. ruleState' \in [Rules -> RuleStates]
    BY <1>4 DEF EnableRule, ArchiveRule, RuleStates
  <2> QED BY <1>4, <2>1
          DEF EnableRule, ArchiveRule, fenceVars, workerVars, ClaimsOK
<1>5. ASSUME NEW r \in Rules, SetCalendarEnabled(r) PROVE TypeInv'
  <2>1. selected' \in [Rules -> BOOLEAN]
    BY <1>5 DEF SetCalendarEnabled
  <2> QED BY <1>5, <2>1 DEF SetCalendarEnabled, fenceVars, workerVars, ClaimsOK
<1> QED BY <1>1, <1>2, <1>3, <1>4, <1>5 DEF ControlPlane

\* Recovering, scheduling and claiming jobs.
LEMMA QueueType == TypeInv /\ Queue => TypeInv'
<1> SUFFICES ASSUME TypeInv, Queue PROVE TypeInv'
  OBVIOUS
<1> USE DEF TypeInv, TypeOK
<1>1. ASSUME NEW j \in Jobs, LeaseExpires(j) \/ ScheduleDueJobs(j) PROVE TypeInv'
  <2>1. jobs' \in [Jobs -> JobRow]
    <3>1. "pending" \in JobStates /\ "expired" \in LeaseStates
      BY DEF JobStates, LeaseStates
    <3>2. [jobs[j] EXCEPT !.lease = "expired"] \in JobRow
      BY <3>1, RowEdits
    <3>3. [jobs[j] EXCEPT !.state = "pending"] \in JobRow
      BY <3>1, RowEdits
    <3> QED BY <1>1, <3>2, <3>3 DEF LeaseExpires, ScheduleDueJobs
  <2> QED BY <1>1, <2>1
          DEF LeaseExpires, ScheduleDueJobs, fenceVars, workerVars, ClaimsOK
<1>2. ASSUME NEW S \in SUBSET StaleJobs, RecoverStaleJobs(S) PROVE TypeInv'
  <2>1. \A j \in Jobs : RecoveredState(j) \in JobStates
    BY DEF RecoveredState, JobStates
  <2>2. ASSUME NEW j \in Jobs PROVE jobs'[j] \in JobRow
    BY <1>2, <2>1, RowEdits DEF RecoverStaleJobs, LeaseStates
  <2>3. jobs' \in [Jobs -> JobRow]
    BY <1>2, <2>2, TableType DEF RecoverStaleJobs
  <2>4. runs' \in [Attempts -> Outcomes]
    BY <1>2 DEF RecoverStaleJobs, Outcomes
  <2> QED BY <1>2, <2>3, <2>4
          DEF RecoverStaleJobs, fenceVars, workerVars, ClaimsOK
<1>3. ASSUME NEW w \in Workers, NEW j \in Jobs, ClaimJob(w, j) PROVE TypeInv'
  <2>1. jobs' \in [Jobs -> JobRow] /\ <<j, jobs[j].attempt + 1>> \in Attempts
    BY <1>3, ClaimedRowType DEF ClaimJob
  <2>2. claim' \in [Workers -> Attempts \cup {None}]
    BY <1>3, <2>1 DEF ClaimJob
  <2>3. pc' \in [Workers -> WorkerPCs]
    BY <1>3 DEF ClaimJob, WorkerPCs
  <2>4. ClaimsOK'
    BY <1>3, <2>1, ConstantsAssumption DEF ClaimJob, ClaimsOK, Attempts
  <2> QED BY <1>3, <2>1, <2>2, <2>3, <2>4 DEF ClaimJob, fenceVars
<1>4. ASSUME NEW w \in Workers, NEW j \in Jobs, ClaimJobLost(w, j) PROVE TypeInv'
  <2>1. jobs' \in [Jobs -> JobRow]
    BY <1>4, ClaimedRowType DEF ClaimJobLost
  <2> QED BY <1>4, <2>1 DEF ClaimJobLost, fenceVars, workerVars, ClaimsOK
<1> QED BY <1>1, <1>2, <1>3, <1>4 DEF Queue

\* One worker's steps; only FinishRun edits a job row.
LEMMA WorkerType ==
    ASSUME TypeInv, NEW w \in Workers, Execute(w) \/ Interrupt(w)
    PROVE  TypeInv'
<1> USE DEF TypeInv, TypeOK
<1>1. CASE StartRun(w) \/ StartDryRun(w)
  <2>1. pc' \in [Workers -> WorkerPCs] /\ runs' \in [Attempts -> Outcomes]
    BY <1>1 DEF StartRun, StartDryRun, WorkerPCs, Outcomes, dbVars
  <2>2. ClaimsOK'
    BY <1>1 DEF StartRun, StartDryRun, ClaimsOK
  <2> QED BY <1>1, <2>1, <2>2 DEF StartRun, StartDryRun, dbVars, fenceVars
<1>2. CASE StartRunFails(w) \/ FinishRunFails(w) \/ Crash(w)
  <2>1. pc' \in [Workers -> WorkerPCs] /\ claim' \in [Workers -> Attempts \cup {None}]
    BY <1>2 DEF StartRunFails, FinishRunFails, Crash, BecomeIdle, WorkerPCs
  <2>2. ClaimsOK'
    BY <1>2 DEF StartRunFails, FinishRunFails, Crash, BecomeIdle, ClaimsOK
  <2> QED BY <1>2, <2>1, <2>2
          DEF StartRunFails, FinishRunFails, Crash, BecomeIdle, dbVars, fenceVars
<1>3. CASE BeginExclusiveDispatch(w) \/ BeginExclusiveDispatchFails(w)
  <2>1. claim[w] \in Attempts
    BY <1>3 DEF BeginExclusiveDispatch, BeginExclusiveDispatchFails, ClaimsOK
  <2>2. pc' \in [Workers -> WorkerPCs] /\ reservation' \in Operations \cup {None}
    BY <1>3, <2>1 DEF BeginExclusiveDispatch, BeginExclusiveDispatchFails,
                      WorkerPCs, Operations
  <2>3. ClaimsOK'
    BY <1>3 DEF BeginExclusiveDispatch, BeginExclusiveDispatchFails, ClaimsOK
  <2> QED BY <1>3, <2>2, <2>3
          DEF BeginExclusiveDispatch, BeginExclusiveDispatchFails, dbVars
<1>4. CASE BeginMutation(w) \/ PassDispatchFence(w) \/ DispatchMutation(w)
  <2>1. claim[w] \in Attempts
    BY <1>4 DEF BeginMutation, PassDispatchFence, DispatchMutation, ClaimsOK
  <2>2. /\ pc' \in [Workers -> WorkerPCs]
        /\ pending' \in SUBSET Attempts
        /\ sent' \in SUBSET Operations
    BY <1>4, <2>1 DEF BeginMutation, PassDispatchFence, DispatchMutation,
                      WorkerPCs, Operations, dbVars, fenceVars
  <2>3. ClaimsOK'
    BY <1>4 DEF BeginMutation, PassDispatchFence, DispatchMutation, ClaimsOK
  <2> QED BY <1>4, <2>2, <2>3
          DEF BeginMutation, PassDispatchFence, DispatchMutation, dbVars, fenceVars
<1>5. CASE ConfirmMutation(w) \/ EngineSucceeds(w) \/ EngineFails(w)
  <2>1. pc' \in [Workers -> WorkerPCs] /\ ClaimsOK'
    BY <1>5 DEF ConfirmMutation, EngineSucceeds, EngineFails, WorkerPCs, ClaimsOK
  <2> QED BY <1>5, <2>1
          DEF ConfirmMutation, EngineSucceeds, EngineFails, dbVars, fenceVars
<1>6. CASE PollStopRequest(w) \/ HeartbeatFails(w)
  BY <1>6 DEF PollStopRequest, HeartbeatFails, ClaimsOK, dbVars, fenceVars
<1>7. CASE ReleaseExclusiveAfterConfirmedRun(w) \/ ReleaseFails(w) \/ KeepReservation(w)
  <2>1. pc' \in [Workers -> WorkerPCs] /\ ClaimsOK'
    BY <1>7 DEF ReleaseExclusiveAfterConfirmedRun, ReleaseFails, KeepReservation,
                WorkerPCs, ClaimsOK
  <2>2. failed' \in [Workers -> BOOLEAN]
    BY <1>7 DEF ReleaseExclusiveAfterConfirmedRun, ReleaseFails, KeepReservation,
                RunFailed
  <2> QED BY <1>7, <2>1, <2>2
          DEF ReleaseExclusiveAfterConfirmedRun, ReleaseFails, KeepReservation,
              dbVars, fenceVars
<1>8. CASE FinishRun(w)
  <2>1. claim[w] \in Attempts /\ JobOf(w) \in Jobs
    BY <1>8 DEF FinishRun, ClaimsOK, JobOf, Attempts
  <2>2. RecordedOutcome(w) \in {"succeeded", "failed", "stopped", "unknown"}
    <3>1. jobs[JobOf(w)].stop \in BOOLEAN
      BY <2>1 DEF JobRow
    <3> QED BY <3>1 DEF RecordedOutcome
  <2>3. runs' \in [Attempts -> Outcomes]
    BY <1>8, <2>2 DEF FinishRun, Outcomes
  <2>4. jobs' \in [Jobs -> JobRow]
    <3>1. RecordedOutcome(w) \in JobStates /\ "none" \in LeaseStates
      BY <2>2 DEF JobStates, LeaseStates
    <3>2. [jobs[JobOf(w)] EXCEPT !.state = RecordedOutcome(w), !.lease = "none"]
              \in JobRow
      BY <2>1, <3>1, RowEdits
    <3> QED BY <1>8, <3>2 DEF FinishRun
  <2>5. pc' \in [Workers -> WorkerPCs] /\ claim' \in [Workers -> Attempts \cup {None}]
    BY <1>8 DEF FinishRun, BecomeIdle, WorkerPCs
  <2>6. ClaimsOK'
    BY <1>8 DEF FinishRun, BecomeIdle, ClaimsOK
  <2> QED BY <1>8, <2>3, <2>4, <2>5, <2>6 DEF FinishRun, BecomeIdle, fenceVars
<1> QED BY <1>1, <1>2, <1>3, <1>4, <1>5, <1>6, <1>7, <1>8 DEF Execute, Interrupt

\* Steps of the API writers keep the types.
LEMMA WriterType ==
    ASSUME TypeInv, NEW x \in Writers, Write(x)
    PROVE  TypeInv'
<1> USE DEF TypeInv, TypeOK
<1>1. /\ writer' \in [Writers -> WriterPCs]
      /\ reservation' \in Operations \cup {None}
      /\ sent' \in SUBSET Operations
  BY DEF Write, BeginWriteDispatch, WriterDispatches, WriterReleases,
         WriterParks, WriterPCs, Operations, fenceVars
<1> QED BY <1>1 DEF Write, BeginWriteDispatch, WriterDispatches, WriterReleases,
                    WriterParks, dbVars, workerVars, ClaimsOK

\* Every step keeps the types.
LEMMA TypeStep == TypeInv /\ [Next]_vars => TypeInv'
<1> SUFFICES ASSUME TypeInv, [Next]_vars PROVE TypeInv'
  OBVIOUS
<1>1. ASSUME UNCHANGED vars PROVE TypeInv'
  BY <1>1 DEF TypeInv, TypeOK, ClaimsOK, vars, dbVars, workerVars, fenceVars
<1> QED BY <1>1, ControlPlaneType, QueueType, WorkerType, WriterType DEF Next

\* Every row, run, reservation and worker of the queue keeps its type.
THEOREM TypeCorrect == Spec => []TypeOK
<1>1. TypeInv => TypeOK
  BY DEF TypeInv
<1> QED BY <1>1, InitTypeInv, TypeStep, PTL DEF Spec

-----------------------------------------------------------------------------
(* Provider access is reserved *)

\* Attempts are numbered by the claims of their job, so that no two workers
\* ever execute the same one and a fresh claim has never called a provider.
ClaimsAreFresh ==
    /\ \A w \in Workers : claim[w] # None =>
          claim[w][2] <= jobs[claim[w][1]].attempt
    /\ \A v, w \in Workers : claim[v] = claim[w] /\ claim[v] # None => v = w
    /\ \A op \in sent \cap Attempts : op[2] <= jobs[op[1]].attempt

\* What a worker's locals promise: nothing before BeginExclusiveDispatch
\* returned, and the reservation from then until the release.
LocalsOK ==
    \A w \in Workers :
        /\ pc[w] \in {"idle", "claimed", "started"} => ~reserved[w] /\ ~dispatched[w]
        /\ pc[w] \in {"idle", "claimed", "started", "engine", "intent", "fenced", "sent"}
               => ~failed[w]
        /\ pc[w] = "engine" /\ JobOf(w) \notin DryRuns => reserved[w]
        /\ pc[w] \in {"intent", "fenced", "sent"} => reserved[w]
        /\ reserved[w] /\ pc[w] # "finishing" => reservation = claim[w]

\* A worker with an unconfirmed call is still in it or has failed, and in
\* either case remembers the call.
UnconfirmedIsKnown ==
    \A w \in Workers : claim[w] \in sent =>
        /\ dispatched[w]
        /\ pc[w] = "sent" \/ (pc[w] \in {"ending", "finishing"} /\ failed[w])

WritersOK ==
    \A x \in Writers : writer[x] \in {"reserved", "sent"} => reservation = x

SentIsReserved == \A op \in sent : reservation = op

DispatchInv ==
    /\ TypeInv
    /\ ClaimsAreFresh
    /\ LocalsOK
    /\ UnconfirmedIsKnown
    /\ WritersOK
    /\ SentIsReserved

\* The initial state.
LEMMA InitDispatchInv == Init => DispatchInv
<1> SUFFICES ASSUME Init PROVE DispatchInv
  OBVIOUS
<1>1. ClaimsAreFresh
  BY DEF Init, ClaimsAreFresh
<1>2. LocalsOK /\ UnconfirmedIsKnown /\ WritersOK /\ SentIsReserved
  BY DEF Init, LocalsOK, UnconfirmedIsKnown, WritersOK, SentIsReserved
<1> QED BY <1>1, <1>2, InitTypeInv DEF DispatchInv

\* The parts of an attempt, and the attempt number of a row.
LEMMA AttemptParts ==
    /\ \A op \in Attempts : /\ op[1] \in Jobs /\ op[2] \in Nat
                            /\ op \notin Writers /\ op # None
    /\ TypeInv => \A j \in Jobs : jobs[j].attempt \in Nat
<1>1. \A n \in 0..MaxAttempts : n \in Nat
  BY ConstantsAssumption
<1>2. \A row \in JobRow : row.attempt \in Nat
  BY <1>1 DEF JobRow
<1> QED BY <1>1, <1>2, ConstantsAssumption DEF Attempts, TypeInv, TypeOK

\* The attempts of a job are only ever counted up.
LEMMA AttemptsGrow ==
    ASSUME TypeInv, [Next]_vars
    PROVE  \A k \in Jobs : jobs[k].attempt <= jobs'[k].attempt
<1> DEFINE Kept == \A k \in Jobs : jobs'[k].attempt = jobs[k].attempt
<1> USE DEF TypeInv, TypeOK
<1>1. CASE ControlPlane
  <2>1. ASSUME NEW j \in Jobs, EnqueueJob(j) PROVE Kept
    BY <2>1 DEF EnqueueJob, JobRow
  <2>2. ASSUME NEW j \in Jobs, RequestJobStop(j) PROVE Kept
    BY <2>2 DEF RequestJobStop, JobRow
  <2>3. ASSUME NEW r \in Rules, RequestRulePause(r) PROVE Kept
    BY <2>3 DEF RequestRulePause, JobRow
  <2>4. ASSUME NEW r \in Rules,
               EnableRule(r) \/ ArchiveRule(r) \/ SetCalendarEnabled(r)
        PROVE  Kept
    BY <2>4 DEF EnableRule, ArchiveRule, SetCalendarEnabled
  <2> HIDE DEF Kept
  <2>5. Kept
    BY <1>1, <2>1, <2>2, <2>3, <2>4 DEF ControlPlane
  <2> QED BY <2>5, AttemptParts DEF Kept
<1>2. ASSUME NEW j \in Jobs, LeaseExpires(j) \/ ScheduleDueJobs(j)
      PROVE  Kept
  BY <1>2 DEF LeaseExpires, ScheduleDueJobs, JobRow
<1>3. ASSUME NEW S \in SUBSET StaleJobs, RecoverStaleJobs(S)
      PROVE  Kept
  <2>1. ASSUME NEW k \in Jobs PROVE jobs'[k].attempt = jobs[k].attempt
    <3>1. jobs[k] \in JobRow
      OBVIOUS
    <3>2. CASE k \notin S
      BY <1>3, <3>2 DEF RecoverStaleJobs
    <3>3. CASE k \in S
      <4>1. jobs'[k] = [jobs[k] EXCEPT !.state = RecoveredState(k),
                                      !.by = None, !.lease = "none"]
        BY <1>3, <3>3 DEF RecoverStaleJobs
      <4> QED BY <3>1, <4>1 DEF JobRow
    <3> QED BY <3>2, <3>3
  <2> QED BY <2>1
<1>4. ASSUME NEW w \in Workers, NEW j \in Jobs,
             ClaimJob(w, j) \/ ClaimJobLost(w, j)
      PROVE  \A k \in Jobs : jobs[k].attempt <= jobs'[k].attempt
  <2>1. ClaimedRow(j, w).attempt = jobs[j].attempt + 1
    BY DEF ClaimedRow, JobRow
  <2>2. /\ \A k \in Jobs \ {j} : jobs'[k] = jobs[k]
        /\ jobs'[j].attempt = jobs[j].attempt + 1
    BY <1>4, <2>1 DEF ClaimJob, ClaimJobLost
  <2> QED BY <2>2, AttemptParts
<1>5. ASSUME NEW w \in Workers, FinishRun(w) PROVE Kept
  BY <1>5 DEF FinishRun, JobRow
<1>6. ASSUME NEW w \in Workers, Execute(w) \/ Interrupt(w), ~FinishRun(w)
      PROVE  jobs' = jobs
  BY <1>6 DEF Execute, Interrupt, StartRun, StartRunFails, StartDryRun,
        BeginExclusiveDispatch, BeginExclusiveDispatchFails, BeginMutation,
        PassDispatchFence, DispatchMutation, ConfirmMutation, EngineSucceeds,
        EngineFails, ReleaseExclusiveAfterConfirmedRun, ReleaseFails,
        KeepReservation, FinishRunFails, PollStopRequest, HeartbeatFails,
        Crash, dbVars
<1>7. ASSUME NEW x \in Writers, Write(x) PROVE jobs' = jobs
  BY <1>7 DEF Write, BeginWriteDispatch, WriterDispatches, WriterReleases,
              WriterParks, dbVars
<1>8. ASSUME UNCHANGED vars PROVE jobs' = jobs
  BY <1>8 DEF vars, dbVars
<1>9. Kept => \A k \in Jobs : jobs[k].attempt <= jobs'[k].attempt
  BY AttemptParts
<1> QED
  <2> HIDE DEF Kept
  <2>1. ASSUME jobs' = jobs PROVE \A k \in Jobs : jobs[k].attempt <= jobs'[k].attempt
    BY <2>1, AttemptParts
  <2>2. CASE Queue
    BY <2>2, <1>2, <1>3, <1>4, <1>9 DEF Queue
  <2>3. ASSUME NEW w \in Workers, Execute(w) \/ Interrupt(w)
        PROVE  \A k \in Jobs : jobs[k].attempt <= jobs'[k].attempt
    BY <2>1, <2>3, <1>5, <1>6, <1>9
  <2> QED BY <2>1, <2>2, <2>3, <1>7, <1>8, <1>1 DEF Next

\* ClaimsAreFresh survives a step in which workers at most drop their claims,
\* rows at most count further, and only claimed attempts are issued.
LEMMA FreshFrame ==
    ASSUME TypeInv, TypeInv', ClaimsAreFresh,
           \A j \in Jobs : jobs[j].attempt <= jobs'[j].attempt,
           \A w \in Workers : claim'[w] = claim[w] \/ claim'[w] = None,
           \A op \in sent' \cap Attempts :
               op \in sent \/ \E w \in Workers : op = claim[w]
    PROVE  ClaimsAreFresh'
<1>1. ASSUME NEW op \in Attempts, op[2] <= jobs[op[1]].attempt
      PROVE  op[2] <= jobs'[op[1]].attempt
  <2>1. op[1] \in Jobs /\ op[2] \in Nat
    BY AttemptParts
  <2>2. jobs[op[1]].attempt \in Nat /\ jobs'[op[1]].attempt \in Nat
    <3>1. \A n \in 0..MaxAttempts : n \in Nat
      BY ConstantsAssumption
    <3>2. jobs[op[1]] \in JobRow /\ jobs'[op[1]] \in JobRow
      BY <2>1 DEF TypeInv, TypeOK
    <3> QED BY <3>1, <3>2 DEF JobRow
  <2>3. jobs[op[1]].attempt <= jobs'[op[1]].attempt
    BY <2>1
  <2> QED BY <1>1, <2>1, <2>2, <2>3
<1>2. ASSUME NEW w \in Workers, claim'[w] # None
      PROVE  claim'[w][2] <= jobs'[claim'[w][1]].attempt
  <2>1. claim'[w] = claim[w] /\ claim[w] \in Attempts
    BY <1>2 DEF TypeInv, TypeOK
  <2> QED BY <1>2, <2>1, <1>1 DEF ClaimsAreFresh
<1>3. ASSUME NEW op \in sent' \cap Attempts PROVE op[2] <= jobs'[op[1]].attempt
  <2>1. op \in Attempts /\ op # None
    BY AttemptParts
  <2> QED BY <1>1, <2>1 DEF ClaimsAreFresh
<1>4. ASSUME NEW v \in Workers, NEW w \in Workers,
             claim'[v] = claim'[w], claim'[v] # None
      PROVE  v = w
  BY <1>4 DEF ClaimsAreFresh
<1> QED BY <1>2, <1>3, <1>4 DEF ClaimsAreFresh

\* A step that touches neither workers, writers nor the provider.
LEMMA QuietFrame ==
    ASSUME DispatchInv, TypeInv', UNCHANGED <<fenceVars, workerVars, writer>>,
           \A j \in Jobs : jobs[j].attempt <= jobs'[j].attempt
    PROVE  DispatchInv'
<1>1. ClaimsAreFresh'
  BY FreshFrame DEF DispatchInv, fenceVars, workerVars
<1>2. /\ LocalsOK'
      /\ UnconfirmedIsKnown'
      /\ WritersOK'
      /\ SentIsReserved'
  BY DEF DispatchInv, LocalsOK, UnconfirmedIsKnown, WritersOK, SentIsReserved,
         fenceVars, workerVars, JobOf
<1> QED BY <1>1, <1>2 DEF DispatchInv

\* The control plane neither claims nor calls.
LEMMA ControlPlaneDispatch ==
    ASSUME DispatchInv, TypeInv', ControlPlane
    PROVE  DispatchInv'
<1>1. UNCHANGED <<fenceVars, workerVars, writer>>
  BY DEF ControlPlane, EnqueueJob, RequestJobStop, EnableRule, RequestRulePause,
         ArchiveRule, SetCalendarEnabled
<1>2. \A j \in Jobs : jobs[j].attempt <= jobs'[j].attempt
  BY AttemptsGrow DEF DispatchInv, Next
<1> QED BY <1>1, <1>2, QuietFrame

\* A claim names an attempt nobody ever executed.
LEMMA QueueDispatch ==
    ASSUME DispatchInv, TypeInv', Queue
    PROVE  DispatchInv'
<1> USE DEF DispatchInv, TypeInv, TypeOK
<1>1. \A k \in Jobs : jobs[k].attempt <= jobs'[k].attempt
  BY AttemptsGrow DEF Next
<1>2. ASSUME NEW j \in Jobs, LeaseExpires(j) \/ ScheduleDueJobs(j)
      PROVE  DispatchInv'
  BY <1>1, <1>2, QuietFrame DEF LeaseExpires, ScheduleDueJobs
<1>3. ASSUME NEW S \in SUBSET StaleJobs, RecoverStaleJobs(S)
      PROVE  DispatchInv'
  BY <1>1, <1>3, QuietFrame DEF RecoverStaleJobs
<1>4. ASSUME NEW w \in Workers, NEW j \in Jobs, ClaimJobLost(w, j)
      PROVE  DispatchInv'
  BY <1>1, <1>4, QuietFrame DEF ClaimJobLost
<1>5. ASSUME NEW w \in Workers, NEW j \in Jobs, ClaimJob(w, j)
      PROVE  DispatchInv'
  <2> DEFINE new == <<j, jobs[j].attempt + 1>>
  <2>0. /\ \A k \in Jobs \ {j} : jobs'[k] = jobs[k]
        /\ jobs'[j].attempt = jobs[j].attempt + 1
    BY <1>5 DEF ClaimJob, ClaimedRow, JobRow
  <2>1. /\ claim'[w] = new
        /\ \A v \in Workers \ {w} : claim'[v] = claim[v]
        /\ new \in Attempts
    BY <1>5, ClaimedRowType DEF ClaimJob
  <2>2. \A op \in Attempts : op[2] <= jobs[op[1]].attempt
            => op # new /\ op[2] <= jobs'[op[1]].attempt
    BY <2>0, AttemptParts
  <2>3. \A v \in Workers \ {w} : claim[v] # None =>
            claim[v] # new /\ claim[v][2] <= jobs'[claim[v][1]].attempt
    BY <2>2 DEF ClaimsAreFresh
  <2>4. new[2] <= jobs'[new[1]].attempt
    BY <2>0, AttemptParts
  <2>5. sent' = sent /\ new \notin sent
    BY <1>5, <2>1, <2>2 DEF ClaimJob, fenceVars, ClaimsAreFresh
  <2>6. ClaimsAreFresh'
    <3> HIDE DEF new
    <3>1. \A op \in sent' \cap Attempts : op[2] <= jobs'[op[1]].attempt
      BY <2>2, <2>5 DEF ClaimsAreFresh
    <3>2. \A v \in Workers : claim'[v] # None =>
              claim'[v][2] <= jobs'[claim'[v][1]].attempt
      BY <2>1, <2>3, <2>4
    <3>3. \A u, v \in Workers : claim'[u] = claim'[v] /\ claim'[u] # None => u = v
      BY <2>1, <2>3 DEF ClaimsAreFresh
    <3> QED BY <3>1, <3>2, <3>3 DEF ClaimsAreFresh
  <2>7. LocalsOK'
    BY <1>5 DEF ClaimJob, LocalsOK, JobOf, fenceVars
  <2>8. UnconfirmedIsKnown'
    <3> HIDE DEF new
    <3> QED BY <1>5, <2>1, <2>5 DEF ClaimJob, UnconfirmedIsKnown
  <2>9. WritersOK' /\ SentIsReserved'
    BY <1>5 DEF ClaimJob, WritersOK, SentIsReserved, fenceVars
  <2> QED BY <2>6, <2>7, <2>8, <2>9
<1> QED BY <1>2, <1>3, <1>4, <1>5 DEF Queue

\* Steps of one API writer.
LEMMA WriterDispatch ==
    ASSUME DispatchInv, TypeInv', NEW x \in Writers, Write(x)
    PROVE  DispatchInv'
<1> USE DEF DispatchInv, TypeInv, TypeOK
<1>1. /\ UNCHANGED <<dbVars, workerVars>>
      /\ sent' \subseteq sent \cup {x}
  BY DEF Write, BeginWriteDispatch, WriterDispatches, WriterReleases, WriterParks,
         fenceVars
<1>2. \A op \in Attempts \cup {None} : op # x
  BY ConstantsAssumption DEF Attempts
<1>3. ClaimsAreFresh'
  BY <1>1, <1>2, FreshFrame, AttemptParts DEF dbVars, workerVars
<1>4. reservation' # reservation => \A w \in Workers : ~reserved[w] \/ pc[w] = "finishing"
  BY <1>2, ConstantsAssumption
  DEF Write, BeginWriteDispatch, WriterDispatches, WriterReleases, WriterParks,
      fenceVars, LocalsOK, WritersOK, ClaimsOK
<1>5. LocalsOK'
  BY <1>1, <1>4 DEF LocalsOK, workerVars, JobOf
<1>6. UnconfirmedIsKnown'
  BY <1>1, <1>2 DEF UnconfirmedIsKnown, workerVars
<1>7. CASE BeginWriteDispatch(x)
  <2>1. \A op \in Operations : op # None
    BY ConstantsAssumption DEF Operations, Attempts
  <2>2. sent' = {}
    BY <1>7, <2>1 DEF BeginWriteDispatch, SentIsReserved
  <2>3. \A y \in Writers \ {x} : writer'[y] \notin {"reserved", "sent"}
    BY <1>7, <2>1 DEF BeginWriteDispatch, WritersOK, Operations
  <2>4. WritersOK'
    BY <1>7, <2>3 DEF BeginWriteDispatch, WritersOK
  <2> QED BY <1>3, <1>5, <1>6, <2>2, <2>4 DEF SentIsReserved
<1>8. CASE WriterDispatches(x) \/ WriterReleases(x) \/ WriterParks(x)
  <2>1. reservation = x
    BY <1>8 DEF WriterDispatches, WriterReleases, WriterParks, WritersOK
  <2>2. SentIsReserved'
    BY <1>8, <2>1 DEF WriterDispatches, WriterReleases, WriterParks, fenceVars,
                      SentIsReserved
  <2>3. WritersOK'
    BY <1>8, <2>1 DEF WriterDispatches, WriterReleases, WriterParks, fenceVars,
                      WritersOK
  <2> QED BY <1>3, <1>5, <1>6, <2>2, <2>3
<1> QED BY <1>7, <1>8 DEF Write

\* Steps of executeJob between the claim and its end.
LEMMA WorkerDispatch ==
    ASSUME DispatchInv, TypeInv', NEW w \in Workers, Execute(w) \/ Interrupt(w)
    PROVE  DispatchInv'
<1> USE DEF DispatchInv, TypeInv, TypeOK
<1>1. /\ \A v \in Workers : claim'[v] = claim[v] \/ claim'[v] = None
      /\ sent' \subseteq sent \cup {claim[w]}
  <2>1. \A v \in Workers : claim'[v] = claim[v] \/ claim'[v] = None
    BY DEF Execute, Interrupt, StartRun, StartRunFails, StartDryRun,
          BeginExclusiveDispatch, BeginExclusiveDispatchFails, BeginMutation,
          PassDispatchFence, DispatchMutation, ConfirmMutation, EngineSucceeds,
          EngineFails, ReleaseExclusiveAfterConfirmedRun, ReleaseFails,
          KeepReservation, FinishRun, FinishRunFails, PollStopRequest,
          HeartbeatFails, Crash, BecomeIdle
  <2>2. sent' \subseteq sent \cup {claim[w]}
    BY DEF Execute, Interrupt, StartRun, StartRunFails, StartDryRun,
          BeginExclusiveDispatch, BeginExclusiveDispatchFails, BeginMutation,
          PassDispatchFence, DispatchMutation, ConfirmMutation, EngineSucceeds,
          EngineFails, ReleaseExclusiveAfterConfirmedRun, ReleaseFails,
          KeepReservation, FinishRun, FinishRunFails, PollStopRequest,
          HeartbeatFails, Crash, fenceVars
  <2> QED BY <2>1, <2>2
<1>2. ClaimsAreFresh'
  <2>1. \A j \in Jobs : jobs[j].attempt <= jobs'[j].attempt
    BY AttemptsGrow DEF Next
  <2> QED BY <1>1, <2>1, FreshFrame
<1>3. ASSUME LocalsOK', UnconfirmedIsKnown', SentIsReserved',
             reservation' = reservation \/ reservation = None \/ reservation \in Attempts,
             writer' = writer
      PROVE  DispatchInv'
  <2>1. \A x \in Writers : x # None /\ x \notin Attempts
    BY ConstantsAssumption DEF Attempts
  <2>2. WritersOK'
    BY <1>3, <2>1 DEF WritersOK
  <2> QED BY <1>2, <1>3, <2>2
<1>4. ASSUME UNCHANGED <<reservation, sent, writer>>,
             LocalsOK', UnconfirmedIsKnown'
      PROVE  DispatchInv'
  BY <1>3, <1>4 DEF SentIsReserved
<1>5. CASE StartRun(w) \/ StartDryRun(w)
  <2>1. UNCHANGED <<reservation, sent, writer>>
    BY <1>5 DEF StartRun, StartDryRun, fenceVars
  <2>2. LocalsOK' /\ UnconfirmedIsKnown'
    BY <1>5, <2>1 DEF StartRun, StartDryRun, LocalsOK, UnconfirmedIsKnown, JobOf
  <2> QED BY <1>4, <2>1, <2>2
<1>6. CASE StartRunFails(w) \/ FinishRun(w) \/ FinishRunFails(w) \/ Crash(w)
  <2>1. UNCHANGED <<reservation, sent, writer>>
    BY <1>6 DEF StartRunFails, FinishRun, FinishRunFails, Crash, fenceVars
  <2>2. None \notin sent
    BY ConstantsAssumption DEF Operations, Attempts
  <2>3. /\ BecomeIdle(w)
        /\ \A v \in Workers \ {w} :
              UNCHANGED <<pc[v], claim[v], reserved[v], dispatched[v], failed[v]>>
    BY <1>6 DEF StartRunFails, FinishRun, FinishRunFails, Crash, BecomeIdle
  <2>4. LocalsOK' /\ UnconfirmedIsKnown'
    BY <2>1, <2>2, <2>3 DEF BecomeIdle, LocalsOK, UnconfirmedIsKnown, JobOf
  <2> QED BY <1>4, <2>1, <2>4
<1>7. CASE BeginMutation(w) \/ PassDispatchFence(w)
  <2>1. UNCHANGED <<reservation, sent, writer>>
    BY <1>7 DEF BeginMutation, PassDispatchFence, fenceVars
  <2>2. LocalsOK' /\ UnconfirmedIsKnown'
    BY <1>7, <2>1 DEF BeginMutation, PassDispatchFence, LocalsOK,
                      UnconfirmedIsKnown, JobOf
  <2> QED BY <1>4, <2>1, <2>2
<1>8. CASE EngineSucceeds(w) \/ EngineFails(w)
  <2>1. UNCHANGED <<reservation, sent, writer>>
    BY <1>8 DEF EngineSucceeds, EngineFails, fenceVars
  <2>2. LocalsOK' /\ UnconfirmedIsKnown'
    BY <1>8, <2>1 DEF EngineSucceeds, EngineFails, LocalsOK, UnconfirmedIsKnown, JobOf
  <2> QED BY <1>4, <2>1, <2>2
<1>9. CASE ReleaseFails(w) \/ KeepReservation(w)
  <2>1. UNCHANGED <<reservation, sent, writer>>
    BY <1>9 DEF ReleaseFails, KeepReservation, fenceVars
  <2>2. LocalsOK' /\ UnconfirmedIsKnown'
    BY <1>9, <2>1 DEF ReleaseFails, KeepReservation, RunFailed, LocalsOK,
                      UnconfirmedIsKnown, JobOf
  <2> QED BY <1>4, <2>1, <2>2
<1>10. CASE PollStopRequest(w) \/ HeartbeatFails(w)
  <2>1. UNCHANGED <<reservation, sent, writer>>
    BY <1>10 DEF PollStopRequest, HeartbeatFails, fenceVars
  <2>2. LocalsOK' /\ UnconfirmedIsKnown'
    BY <1>10, <2>1 DEF PollStopRequest, HeartbeatFails, LocalsOK,
                       UnconfirmedIsKnown, JobOf
  <2> QED BY <1>4, <2>1, <2>2
\* The reservation is taken: it was free, so nobody counts on it and nothing
\* is unconfirmed.
<1>11. CASE BeginExclusiveDispatch(w) \/ BeginExclusiveDispatchFails(w)
  <2>1. UNCHANGED <<sent, writer, claim>>
    BY <1>11 DEF BeginExclusiveDispatch, BeginExclusiveDispatchFails
  <2>2. UnconfirmedIsKnown'
    BY <1>11 DEF BeginExclusiveDispatch, BeginExclusiveDispatchFails,
                 LocalsOK, UnconfirmedIsKnown
  <2>3. CASE reservation' = reservation
    <3>1. claim[w] # None
      BY <1>11 DEF BeginExclusiveDispatch, BeginExclusiveDispatchFails, ClaimsOK
    <3>2. BeginExclusiveDispatchFails(w)
      BY <1>11, <2>3, <3>1 DEF BeginExclusiveDispatch
    <3>3. LocalsOK'
      BY <2>3, <3>2 DEF BeginExclusiveDispatchFails, LocalsOK, JobOf
    <3> QED BY <1>4, <2>1, <2>2, <2>3, <3>3
  <2>4. CASE reservation = None /\ reservation' = claim[w]
    <3>1. \A op \in Operations : op # None
      BY ConstantsAssumption DEF Operations, Attempts
    <3>2. SentIsReserved'
      BY <2>1, <2>4, <3>1 DEF SentIsReserved
    <3>3. \A v \in Workers : reserved[v] => pc[v] = "finishing"
      BY <2>4, <3>1 DEF LocalsOK, ClaimsOK, Operations
    <3>4. LocalsOK'
      BY <1>11, <2>4, <3>3 DEF BeginExclusiveDispatch, BeginExclusiveDispatchFails,
                               LocalsOK, JobOf
    <3> QED BY <1>3, <2>1, <2>2, <2>4, <3>2, <3>4
  <2> QED BY <1>11, <2>3, <2>4
          DEF BeginExclusiveDispatch, BeginExclusiveDispatchFails
\* A call goes out or is confirmed, under this worker's own reservation.
<1>12. CASE DispatchMutation(w) \/ ConfirmMutation(w)
  <2>1. UNCHANGED <<reservation, writer, claim, reserved, failed>>
    BY <1>12 DEF DispatchMutation, ConfirmMutation
  <2>2. claim[w] # None /\ reservation = claim[w]
    BY <1>12 DEF DispatchMutation, ConfirmMutation, LocalsOK, ClaimsOK
  <2>3. SentIsReserved'
    BY <1>12, <2>1, <2>2 DEF DispatchMutation, ConfirmMutation, SentIsReserved
  <2>4. LocalsOK'
    BY <1>12, <2>1 DEF DispatchMutation, ConfirmMutation, LocalsOK, JobOf
  <2>5. UnconfirmedIsKnown'
    BY <1>12, <2>2 DEF DispatchMutation, ConfirmMutation, UnconfirmedIsKnown,
                       ClaimsAreFresh
  <2> QED BY <1>3, <2>1, <2>3, <2>4, <2>5
\* The reservation is given back: the run confirmed every call or made none.
<1>13. CASE ReleaseExclusiveAfterConfirmedRun(w)
  <2>1. UNCHANGED <<sent, writer, claim>>
    BY <1>13 DEF ReleaseExclusiveAfterConfirmedRun
  <2>2. claim[w] \in Attempts /\ reservation = claim[w]
    BY <1>13 DEF ReleaseExclusiveAfterConfirmedRun, ClaimsOK
  <2>3. claim[w] \notin sent
    BY <1>13 DEF ReleaseExclusiveAfterConfirmedRun, MayRelease, RunFailed,
                 UnconfirmedIsKnown
  <2>4. SentIsReserved'
    BY <2>1, <2>2, <2>3 DEF SentIsReserved
  <2>5. \A v \in Workers \ {w} : reserved[v] => pc[v] = "finishing"
    BY <2>2, AttemptParts DEF LocalsOK, ClaimsAreFresh
  <2>6. LocalsOK'
    BY <1>13, <2>5 DEF ReleaseExclusiveAfterConfirmedRun, LocalsOK, JobOf
  <2>7. UnconfirmedIsKnown'
    BY <1>13, <2>1, <2>3 DEF ReleaseExclusiveAfterConfirmedRun, UnconfirmedIsKnown
  <2> QED BY <1>3, <2>1, <2>2, <2>4, <2>6, <2>7
<1> QED BY <1>5, <1>6, <1>7, <1>8, <1>9, <1>10, <1>11, <1>12, <1>13
        DEF Execute, Interrupt

\* Every step keeps the invariant.
LEMMA DispatchStep == DispatchInv /\ [Next]_vars => DispatchInv'
<1> SUFFICES ASSUME DispatchInv, [Next]_vars PROVE DispatchInv'
  OBVIOUS
<1>1. TypeInv'
  BY TypeStep DEF DispatchInv
<1>2. ASSUME UNCHANGED vars PROVE DispatchInv'
  <2>1. UNCHANGED <<fenceVars, workerVars, writer>> /\ jobs' = jobs
    BY <1>2 DEF vars, dbVars
  <2>2. \A j \in Jobs : jobs[j].attempt <= jobs'[j].attempt
    BY <2>1, AttemptParts DEF DispatchInv
  <2> QED BY <1>1, <2>1, <2>2, QuietFrame
<1> QED BY <1>1, <1>2, ControlPlaneDispatch, QueueDispatch, WorkerDispatch,
           WriterDispatch DEF Next

\* Whoever is about to call a provider, or has called one without a confirmed
\* result, holds the one global reservation, whatever leases expire, workers
\* stall or crash and requests arrive in between.
THEOREM ProviderAccessReserved == Spec => []ProviderAccessIsReserved
<1>1. DispatchInv => ProviderAccessIsReserved
  BY ConstantsAssumption
  DEF DispatchInv, TypeInv, TypeOK, LocalsOK, WritersOK, SentIsReserved,
      ProviderAccessIsReserved, InFlight
<1> QED BY <1>1, InitDispatchInv, DispatchStep, PTL DEF Spec

-----------------------------------------------------------------------------
(* Jobs, runs and what they claim *)

\* A row is numbered by its claims: one that ran was claimed, and one that was
\* never inserted was not.
RowsAreCounted ==
    \A j \in Jobs :
        /\ jobs[j].state \in {"running", "succeeded", "failed", "stopped",
                              "unknown"} => jobs[j].attempt > 0
        /\ jobs[j].state = "absent" => jobs[j].attempt = 0

\* An attempt that was not claimed yet has left no trace.
UnclaimedIsNew ==
    \A op \in Attempts : op[2] > jobs[op[1]].attempt =>
        runs[op] = "none" /\ op \notin pending

\* A worker starts from a missing run row, and while it executes only a
\* recovery may have closed that row.
ExecutedIsOpen ==
    \A w \in Workers :
        /\ pc[w] = "claimed" => runs[claim[w]] = "none"
        /\ pc[w] \notin {"idle", "claimed"} =>
              runs[claim[w]] \in {"running", "unknown", "failed"}

\* A dry run neither reserves, nor records an intent, nor calls.
DryRunsOnlyRead ==
    /\ \A op \in Attempts :
          op \in sent \/ op \in pending \/ reservation = op => op[1] \notin DryRuns
    /\ \A w \in Workers :
          pc[w] \in {"intent", "fenced", "sent"} => JobOf(w) \notin DryRuns

\* Every call, and every imminent one, is recorded in a pending mapping.
CallsAreRecorded ==
    /\ sent \cap Attempts \subseteq pending
    /\ \A w \in Workers : pc[w] \in {"intent", "fenced", "sent"} =>
          claim[w] \in pending

\* A rule was enabled, and a sync job of it queued, only after a dry run.
SyncFollowsDryRun ==
    \A r \in Rules :
        ruleState[r] = "enabled" \/ (\E j \in SyncJobsOf(r) : jobs[j].state # "absent")
            => HasSuccessfulDryRun(r)

\* A worker that is going to report success reserved the provider if it could
\* call it, and has given the reservation back before it reports.
SuccessIsReleased ==
    \A w \in Workers : ~failed[w] =>
        /\ pc[w] = "ending" /\ JobOf(w) \notin DryRuns => reserved[w]
        /\ pc[w] = "finishing" => reservation # claim[w]

ArchivedIsSettled ==
    \A r \in Rules : ruleState[r] = "archived" => ~HasPendingMapping(r)

HistoryInv ==
    /\ DispatchInv
    /\ OneRunningJobPerRule
    /\ PauseIsEffective
    /\ RowsAreCounted
    /\ UnclaimedIsNew
    /\ ExecutedIsOpen
    /\ DryRunsOnlyRead
    /\ CallsAreRecorded
    /\ SyncFollowsDryRun
    /\ SuccessIsReleased
    /\ ArchivedIsSettled
    /\ OutcomesAreHonest
\* The initial state.
LEMMA InitHistoryInv == Init => HistoryInv
<1> SUFFICES ASSUME Init PROVE HistoryInv
  OBVIOUS
<1> USE DEF Init, AbsentJob
<1>1. DispatchInv
  BY InitDispatchInv
<1>2. /\ \A j \in Jobs : jobs[j].state = "absent" /\ jobs[j].attempt = 0
      /\ \A op \in Attempts : runs[op] = "none"
      /\ \A w \in Workers : pc[w] = "idle"
      /\ \A r \in Rules : ruleState[r] = "paused"
      /\ sent = {} /\ pending = {} /\ reservation = None
  OBVIOUS
<1>3. OneRunningJobPerRule /\ RowsAreCounted /\ PauseIsEffective
  BY <1>2 DEF OneRunningJobPerRule, RowsAreCounted, PauseIsEffective,
              SyncJobsOf, JobsOf
<1>4. UnclaimedIsNew /\ ExecutedIsOpen /\ CallsAreRecorded
  BY <1>2 DEF UnclaimedIsNew, ExecutedIsOpen, CallsAreRecorded
<1>5. DryRunsOnlyRead
  BY <1>2, AttemptParts DEF DryRunsOnlyRead
<1>6. SyncFollowsDryRun /\ ArchivedIsSettled
  BY <1>2 DEF SyncFollowsDryRun, ArchivedIsSettled, SyncJobsOf, JobsOf
<1>7. SuccessIsReleased /\ OutcomesAreHonest
  BY <1>2 DEF SuccessIsReleased, OutcomesAreHonest
<1> QED BY <1>1, <1>3, <1>4, <1>5, <1>6, <1>7 DEF HistoryInv

\* Job rows and the states of the rules under every action that edits them.
RowsInv == OneRunningJobPerRule /\ PauseIsEffective /\ RowsAreCounted

\* The control plane's edits.
LEMMA ControlPlaneRows ==
    ASSUME TypeInv, RowsInv, ControlPlane
    PROVE  RowsInv'
<1> USE DEF TypeInv, TypeOK
<1> USE DEF RowsInv, OneRunningJobPerRule, PauseIsEffective, RowsAreCounted,
            SyncJobsOf, JobsOf
<1>r. RuleOf \in [Jobs -> Rules]
  BY ConstantsAssumption
<1>1. ASSUME NEW j \in Jobs, EnqueueJob(j) PROVE RowsInv'
  <2>1. /\ jobs[j].state = "absent" /\ ruleState' = ruleState
        /\ jobs'[j].state = "pending" /\ jobs'[j].attempt = jobs[j].attempt
        /\ \A k \in Jobs \ {j} : jobs'[k] = jobs[k]
        /\ \/ ruleState[RuleOf[j]] = "enabled"
           \/ ruleState[RuleOf[j]] = "paused" /\ j \in DryRuns
    BY <1>1 DEF EnqueueJob, JobRow
  <2> QED BY <2>1, <1>r
<1>2. ASSUME NEW j \in Jobs, RequestJobStop(j) PROVE RowsInv'
  <2>1. /\ ruleState' = ruleState
        /\ jobs[j].state \in {"pending", "running"}
        /\ jobs'[j].state = IF jobs[j].state = "pending" THEN "cancelled"
                                                          ELSE jobs[j].state
        /\ jobs'[j].attempt = jobs[j].attempt /\ jobs'[j].stop
        /\ \A k \in Jobs \ {j} : jobs'[k] = jobs[k]
    BY <1>2 DEF RequestJobStop, JobRow
  <2> QED BY <2>1, <1>r
<1>3. ASSUME NEW r \in Rules, RequestRulePause(r) PROVE RowsInv'
  <2>1. \A k \in Jobs :
            /\ jobs'[k].attempt = jobs[k].attempt
            /\ RuleOf[k] = r /\ k \notin DryRuns /\ jobs[k].state = "pending"
                  => jobs'[k].state = "cancelled"
            /\ RuleOf[k] = r /\ k \notin DryRuns /\ jobs[k].state = "running"
                  => jobs'[k].state = "running" /\ jobs'[k].stop
            /\ ~(RuleOf[k] = r /\ k \notin DryRuns
                    /\ jobs[k].state \in {"pending", "running"})
                  => jobs'[k] = jobs[k]
    BY <1>3 DEF RequestRulePause, JobRow
  <2>2. ruleState' = [ruleState EXCEPT ![r] = "paused"]
    BY <1>3 DEF RequestRulePause
  <2>3. OneRunningJobPerRule' /\ RowsAreCounted'
    BY <2>1
  <2>4. PauseIsEffective'
    BY <2>1, <2>2
  <2> QED BY <2>3, <2>4
<1>4. ASSUME NEW r \in Rules, EnableRule(r) \/ ArchiveRule(r) PROVE RowsInv'
  BY <1>4, <1>r DEF EnableRule, ArchiveRule
<1>5. ASSUME NEW r \in Rules, SetCalendarEnabled(r) PROVE RowsInv'
  BY <1>5 DEF SetCalendarEnabled
<1> QED BY <1>1, <1>2, <1>3, <1>4, <1>5 DEF ControlPlane

\* Recovery, the schedule and the claims.
LEMMA QueueRows ==
    ASSUME TypeInv, RowsInv, Queue
    PROVE  RowsInv'
<1> USE DEF TypeInv, TypeOK
<1> USE DEF RowsInv, OneRunningJobPerRule, PauseIsEffective, RowsAreCounted,
            SyncJobsOf, JobsOf
<1>r. RuleOf \in [Jobs -> Rules]
  BY ConstantsAssumption
<1>1. ASSUME NEW j \in Jobs, LeaseExpires(j) PROVE RowsInv'
  <2>1. \A k \in Jobs : /\ jobs'[k].state = jobs[k].state
                        /\ jobs'[k].attempt = jobs[k].attempt
                        /\ jobs'[k].stop = jobs[k].stop
    BY <1>1 DEF LeaseExpires, JobRow
  <2> QED BY <1>1, <2>1 DEF LeaseExpires
<1>2. ASSUME NEW j \in Jobs, ScheduleDueJobs(j) PROVE RowsInv'
  <2>1. /\ jobs[j].state = "absent" /\ ruleState' = ruleState
        /\ jobs'[j].state = "pending" /\ jobs'[j].attempt = jobs[j].attempt
        /\ \A k \in Jobs \ {j} : jobs'[k] = jobs[k]
        /\ ruleState[RuleOf[j]] = "enabled"
    BY <1>2 DEF ScheduleDueJobs, JobRow
  <2> QED BY <2>1, <1>r
<1>3. ASSUME NEW S \in SUBSET StaleJobs, RecoverStaleJobs(S) PROVE RowsInv'
  <2>1. ruleState' = ruleState /\ \A k \in S : jobs[k].state = "running"
    BY <1>3 DEF RecoverStaleJobs, StaleJobs
  <2>2. \A k \in Jobs : k \notin S => jobs'[k] = jobs[k]
    BY <1>3 DEF RecoverStaleJobs
  <2>3. ASSUME NEW k \in S
        PROVE  /\ jobs'[k].state = IF jobs[k].stop THEN "unknown" ELSE "pending"
               /\ jobs'[k].attempt = jobs[k].attempt
    <3>1. k \in Jobs /\ jobs[k] \in JobRow
      BY DEF StaleJobs
    <3>2. jobs'[k] = [jobs[k] EXCEPT !.state = RecoveredState(k),
                                     !.by = None, !.lease = "none"]
      BY <1>3, <3>1 DEF RecoverStaleJobs
    <3> QED BY <3>1, <3>2 DEF JobRow, RecoveredState
  <2>4. OneRunningJobPerRule' /\ RowsAreCounted'
    BY <2>1, <2>2, <2>3
  <2>5. PauseIsEffective'
    BY <2>1, <2>2, <2>3
  <2> QED BY <2>4, <2>5
<1>4. ASSUME NEW w \in Workers, NEW j \in Jobs,
             ClaimJob(w, j) \/ ClaimJobLost(w, j)
      PROVE  RowsInv'
  <2>1. /\ ruleState' = ruleState /\ Claimable(j)
        /\ jobs' = [jobs EXCEPT ![j] = ClaimedRow(j, w)]
    BY <1>4 DEF ClaimJob, ClaimJobLost
  <2>2. /\ jobs[j].state = "pending" /\ jobs'[j].state = "running"
        /\ jobs'[j].attempt = jobs[j].attempt + 1
        /\ \A k \in Jobs \ {j} : jobs'[k] = jobs[k]
    BY <2>1 DEF Claimable, ClaimedRow, JobRow
  <2>3. jobs'[j].attempt > 0
    BY <2>2, AttemptParts
  <2>4. \A k \in Jobs : RuleOf[k] = RuleOf[j] => jobs[k].state # "running"
    BY <2>1 DEF Claimable
  <2>5. OneRunningJobPerRule' /\ RowsAreCounted'
    BY <2>2, <2>3, <2>4
  <2>6. PauseIsEffective'
    BY <2>1, <2>2, <1>r DEF Claimable
  <2> QED BY <2>5, <2>6
<1> QED BY <1>1, <1>2, <1>3, <1>4 DEF Queue

\* What FinishRun does to the row of its job.
LEMMA FinishedRow ==
    ASSUME TypeInv, NEW w \in Workers, FinishRun(w)
    PROVE  /\ claim[w] \in Attempts /\ JobOf(w) \in Jobs
           /\ claim[w] = <<JobOf(w), jobs[JobOf(w)].attempt>>
           /\ jobs[JobOf(w)].state = "running" /\ runs[claim[w]] = "running"
           /\ RecordedOutcome(w) \in {"succeeded", "failed", "stopped", "unknown"}
           /\ jobs'[JobOf(w)].state = RecordedOutcome(w)
           /\ jobs'[JobOf(w)].attempt = jobs[JobOf(w)].attempt
           /\ \A k \in Jobs \ {JobOf(w)} : jobs'[k] = jobs[k]
           /\ runs' = [runs EXCEPT ![claim[w]] = RecordedOutcome(w)]
<1> USE DEF TypeInv, TypeOK
<1>1. claim[w] \in Attempts /\ JobOf(w) \in Jobs
  BY DEF FinishRun, ClaimsOK, JobOf, Attempts
<1>2. claim[w] = <<JobOf(w), jobs[JobOf(w)].attempt>>
  BY <1>1 DEF FinishRun, HoldsLease, OwnsJob, JobOf, Attempts
<1>3. jobs[JobOf(w)] \in JobRow
  BY <1>1
<1>4. RecordedOutcome(w) \in {"succeeded", "failed", "stopped", "unknown"}
  BY <1>3 DEF RecordedOutcome, JobRow
<1>5. /\ jobs'[JobOf(w)].state = RecordedOutcome(w)
      /\ jobs'[JobOf(w)].attempt = jobs[JobOf(w)].attempt
      /\ \A k \in Jobs \ {JobOf(w)} : jobs'[k] = jobs[k]
  <2>1. jobs' = [jobs EXCEPT ![JobOf(w)] =
                    [@ EXCEPT !.state = RecordedOutcome(w), !.lease = "none"]]
    BY <1>1 DEF FinishRun
  <2> QED BY <1>1, <1>3, <2>1 DEF JobRow
<1> QED BY <1>1, <1>2, <1>4, <1>5 DEF FinishRun, HoldsLease, OwnsJob

\* Of a worker's steps only FinishRun edits a row, and none edits a rule.
LEMMA WorkerRows ==
    ASSUME TypeInv, NEW w \in Workers, Execute(w) \/ Interrupt(w)
    PROVE  /\ ruleState' = ruleState
           /\ ~FinishRun(w) => jobs' = jobs
  BY DEF Execute, Interrupt, StartRun, StartRunFails, StartDryRun,
         BeginExclusiveDispatch, BeginExclusiveDispatchFails, BeginMutation,
         PassDispatchFence, DispatchMutation, ConfirmMutation, EngineSucceeds,
         EngineFails, ReleaseExclusiveAfterConfirmedRun, ReleaseFails,
         KeepReservation, FinishRun, FinishRunFails, PollStopRequest,
         HeartbeatFails, Crash, dbVars

\* Every step keeps the rows in order.
LEMMA RowsStep ==
    ASSUME TypeInv, RowsInv, [Next]_vars
    PROVE  RowsInv'
<1> USE DEF RowsInv, OneRunningJobPerRule, PauseIsEffective, RowsAreCounted,
            SyncJobsOf, JobsOf
<1>1. ASSUME ruleState' = ruleState, jobs' = jobs PROVE RowsInv'
  BY <1>1
<1>2. ASSUME NEW w \in Workers, Execute(w) \/ Interrupt(w) PROVE RowsInv'
  <2>1. CASE ~FinishRun(w)
    BY <1>1, <1>2, <2>1, WorkerRows
  <2>2. CASE FinishRun(w)
    <3>1. ruleState' = ruleState
      BY <1>2, WorkerRows
    <3>2. OneRunningJobPerRule' /\ RowsAreCounted'
      BY <2>2, FinishedRow
    <3>3. PauseIsEffective'
      BY <2>2, <3>1, FinishedRow
    <3> QED BY <3>2, <3>3
  <2> QED BY <2>1, <2>2
<1>3. ASSUME NEW x \in Writers, Write(x) PROVE RowsInv'
  BY <1>1, <1>3 DEF Write, BeginWriteDispatch, WriterDispatches, WriterReleases,
                    WriterParks, dbVars
<1>4. ASSUME UNCHANGED vars PROVE RowsInv'
  BY <1>1, <1>4 DEF vars, dbVars
<1> HIDE DEF RowsInv
<1> QED BY <1>2, <1>3, <1>4, ControlPlaneRows, QueueRows DEF Next
\* A worker's step leaves every other worker where it stands.
LEMMA OthersStand ==
    ASSUME TypeInv, NEW w \in Workers, Execute(w) \/ Interrupt(w)
    PROVE  \A v \in Workers \ {w} :
               UNCHANGED <<pc[v], claim[v], reserved[v], dispatched[v], failed[v]>>
  BY DEF TypeInv, TypeOK, Execute, Interrupt, StartRun, StartRunFails, StartDryRun,
         BeginExclusiveDispatch, BeginExclusiveDispatchFails, BeginMutation,
         PassDispatchFence, DispatchMutation, ConfirmMutation, EngineSucceeds,
         EngineFails, ReleaseExclusiveAfterConfirmedRun, ReleaseFails,
         KeepReservation, FinishRun, FinishRunFails, PollStopRequest,
         HeartbeatFails, Crash, BecomeIdle

\* It starts its run, records its outcome, goes idle, or keeps executing the
\* same attempt and leaves the run rows alone.
LEMMA WorkerMoves ==
    ASSUME TypeInv, NEW w \in Workers, Execute(w) \/ Interrupt(w)
    PROVE  \/ StartRun(w)
           \/ FinishRun(w)
           \/ runs' = runs /\ pc'[w] = "idle"
           \/ /\ runs' = runs /\ claim' = claim
              /\ pc[w] \notin {"idle", "claimed"}
              /\ pc'[w] \notin {"idle", "claimed"}
<1> USE DEF TypeInv, TypeOK
<1>1. CASE StartRunFails(w) \/ FinishRunFails(w) \/ Crash(w)
  BY <1>1 DEF StartRunFails, FinishRunFails, Crash, BecomeIdle, dbVars
<1>2. CASE \/ StartDryRun(w) \/ BeginExclusiveDispatch(w)
           \/ BeginExclusiveDispatchFails(w) \/ BeginMutation(w)
           \/ PassDispatchFence(w) \/ DispatchMutation(w) \/ ConfirmMutation(w)
  BY <1>2 DEF StartDryRun, BeginExclusiveDispatch, BeginExclusiveDispatchFails,
              BeginMutation, PassDispatchFence, DispatchMutation,
              ConfirmMutation, dbVars
<1>3. CASE \/ EngineSucceeds(w) \/ EngineFails(w)
           \/ ReleaseExclusiveAfterConfirmedRun(w) \/ ReleaseFails(w)
           \/ KeepReservation(w) \/ PollStopRequest(w) \/ HeartbeatFails(w)
  BY <1>3 DEF EngineSucceeds, EngineFails, ReleaseExclusiveAfterConfirmedRun,
              ReleaseFails, KeepReservation, PollStopRequest, HeartbeatFails,
              Executing, dbVars
<1> QED BY <1>1, <1>2, <1>3 DEF Execute, Interrupt

\* Who edits a run row: its worker when it starts or finishes, and a recovery
\* that finds the run open.
LEMMA RunsEdited ==
    ASSUME TypeInv, [Next]_vars, NEW op \in Attempts
    PROVE  \/ runs'[op] = runs[op]
           \/ \E w \in Workers : StartRun(w) /\ op = claim[w]
           \/ \E w \in Workers : FinishRun(w) /\ op = claim[w]
           \/ /\ runs[op] = "running" /\ runs'[op] \in {"unknown", "failed"}
              /\ jobs[op[1]].state = "running"
              /\ UNCHANGED <<fenceVars, workerVars>>
<1> USE DEF TypeInv, TypeOK
<1>1. CASE ControlPlane
  BY <1>1 DEF ControlPlane, EnqueueJob, RequestJobStop, EnableRule,
              RequestRulePause, ArchiveRule, SetCalendarEnabled
<1>2. ASSUME NEW j \in Jobs, LeaseExpires(j) \/ ScheduleDueJobs(j)
      PROVE  runs' = runs
  BY <1>2 DEF LeaseExpires, ScheduleDueJobs
<1>3. ASSUME NEW w \in Workers, NEW j \in Jobs, ClaimJob(w, j) \/ ClaimJobLost(w, j)
      PROVE  runs' = runs
  BY <1>3 DEF ClaimJob, ClaimJobLost
<1>4. ASSUME NEW S \in SUBSET StaleJobs, RecoverStaleJobs(S), runs'[op] # runs[op]
      PROVE  /\ runs[op] = "running" /\ runs'[op] \in {"unknown", "failed"}
             /\ jobs[op[1]].state = "running"
             /\ UNCHANGED <<fenceVars, workerVars>>
  <2>1. op[1] \in S /\ runs[op] = "running" /\ runs'[op] \in {"unknown", "failed"}
    BY <1>4 DEF RecoverStaleJobs
  <2>2. jobs[op[1]].state = "running"
    BY <2>1 DEF StaleJobs
  <2> QED BY <1>4, <2>1, <2>2 DEF RecoverStaleJobs
<1>5. ASSUME NEW w \in Workers, Execute(w) \/ Interrupt(w), runs'[op] # runs[op]
      PROVE  (StartRun(w) \/ FinishRun(w)) /\ op = claim[w]
  <2>1. StartRun(w) \/ FinishRun(w)
    BY <1>5, WorkerMoves
  <2> QED BY <1>5, <2>1 DEF StartRun, FinishRun
<1>6. ASSUME NEW x \in Writers, Write(x) PROVE runs' = runs
  BY <1>6 DEF Write, BeginWriteDispatch, WriterDispatches, WriterReleases,
              WriterParks, dbVars
<1>7. ASSUME UNCHANGED vars PROVE runs' = runs
  BY <1>7 DEF vars, dbVars
<1>8. CASE Queue
  BY <1>2, <1>3, <1>4, <1>8 DEF Queue
<1> QED BY <1>1, <1>5, <1>6, <1>7, <1>8 DEF Next

\* Closed rows stay as they are: the step behind ClosedIsFinal.
LEMMA FinalStep ==
    ASSUME TypeInv, ExecutedIsOpen, [Next]_vars
    PROVE  /\ \A j \in Jobs : jobs[j].state \in Terminal => jobs'[j] = jobs[j]
           /\ \A op \in Attempts : runs[op] \notin {"none", "running"}
                                      => runs'[op] = runs[op]
<1> USE DEF TypeInv, TypeOK, Terminal
<1>1. ASSUME NEW op \in Attempts, runs[op] \notin {"none", "running"}
      PROVE  runs'[op] = runs[op]
  <2>1. ~\E w \in Workers : StartRun(w) /\ op = claim[w]
    BY <1>1 DEF StartRun, ExecutedIsOpen
  <2>2. ~\E w \in Workers : FinishRun(w) /\ op = claim[w]
    BY <1>1 DEF FinishRun
  <2> QED BY <1>1, <2>1, <2>2, RunsEdited
<1>2. ASSUME NEW j \in Jobs, jobs[j].state \in Terminal
      PROVE  jobs'[j] = jobs[j]
  <2>1. CASE ControlPlane
    BY <1>2, <2>1 DEF ControlPlane, EnqueueJob, RequestJobStop, EnableRule,
                 RequestRulePause, ArchiveRule, SetCalendarEnabled
  <2>2. CASE Queue
    <3>1. ASSUME NEW k \in Jobs, LeaseExpires(k) \/ ScheduleDueJobs(k)
          PROVE  jobs'[j] = jobs[j]
      BY <1>2, <3>1 DEF LeaseExpires, ScheduleDueJobs
    <3>2. ASSUME NEW w \in Workers, NEW k \in Jobs,
                 ClaimJob(w, k) \/ ClaimJobLost(w, k)
          PROVE  jobs'[j] = jobs[j]
      BY <1>2, <3>2 DEF ClaimJob, ClaimJobLost, Claimable
    <3>3. ASSUME NEW S \in SUBSET StaleJobs, RecoverStaleJobs(S)
          PROVE  jobs'[j] = jobs[j]
      BY <1>2, <3>3 DEF RecoverStaleJobs, StaleJobs
    <3> QED BY <2>2, <3>1, <3>2, <3>3 DEF Queue
  <2>3. ASSUME NEW w \in Workers, Execute(w) \/ Interrupt(w)
        PROVE  jobs'[j] = jobs[j]
    BY <1>2, <2>3, WorkerRows, FinishedRow
  <2>4. ASSUME NEW x \in Writers, Write(x) PROVE jobs' = jobs
    BY <2>4 DEF Write, BeginWriteDispatch, WriterDispatches, WriterReleases,
                WriterParks, dbVars
  <2>5. ASSUME UNCHANGED vars PROVE jobs' = jobs
    BY <2>5 DEF vars, dbVars
  <2> QED BY <2>1, <2>2, <2>3, <2>4, <2>5 DEF Next
<1> QED BY <1>1, <1>2

\* What an attempt has left behind.
RunsInv == DispatchInv /\ UnclaimedIsNew /\ ExecutedIsOpen

\* An attempt leaves traces only after it was claimed.
LEMMA UnclaimedStep ==
    ASSUME RunsInv, TypeInv', [Next]_vars
    PROVE  UnclaimedIsNew'
<1> USE DEF RunsInv, DispatchInv, TypeInv, TypeOK
<1> SUFFICES ASSUME NEW op \in Attempts, op[2] > jobs'[op[1]].attempt
             PROVE  runs'[op] = "none" /\ op \notin pending'
  BY DEF UnclaimedIsNew
<1>1. op[2] > jobs[op[1]].attempt
  <2>1. op[1] \in Jobs /\ op[2] \in Nat
    BY AttemptParts
  <2>2. jobs[op[1]].attempt \in Nat /\ jobs'[op[1]].attempt \in Nat
    <3>1. \A n \in 0..MaxAttempts : n \in Nat
      BY ConstantsAssumption
    <3> QED BY <2>1, <3>1 DEF JobRow
  <2> QED BY <2>1, <2>2, AttemptsGrow
<1>2. \A w \in Workers : claim[w] # None => op # claim[w]
  <2>1. op[1] \in Jobs /\ op[2] \in Nat
    BY AttemptParts
  <2>2. jobs[op[1]].attempt \in Nat
    BY <2>1, AttemptParts
  <2> QED BY <1>1, <2>1, <2>2 DEF ClaimsAreFresh
<1>3. runs[op] = "none" /\ op \notin pending
  BY <1>1 DEF UnclaimedIsNew
<1>4. runs'[op] = "none"
  <2>1. \A w \in Workers : StartRun(w) \/ FinishRun(w) => claim[w] # None
    BY DEF StartRun, FinishRun, ClaimsOK
  <2> QED BY <1>2, <1>3, <2>1, RunsEdited
<1>5. op \notin pending'
  <2>1. ASSUME NEW w \in Workers, Execute(w) \/ Interrupt(w)
        PROVE  pending' \subseteq pending \/ (claim[w] # None /\ pending' = pending \cup {claim[w]})
    BY <2>1 DEF Execute, Interrupt, StartRun, StartRunFails, StartDryRun,
          BeginExclusiveDispatch, BeginExclusiveDispatchFails, BeginMutation,
          PassDispatchFence, DispatchMutation, ConfirmMutation, EngineSucceeds,
          EngineFails, ReleaseExclusiveAfterConfirmedRun, ReleaseFails,
          KeepReservation, FinishRun, FinishRunFails, PollStopRequest,
          HeartbeatFails, Crash, dbVars, ClaimsOK
  <2>2. CASE ControlPlane \/ Queue
    BY <1>3, <2>2 DEF ControlPlane, EnqueueJob, RequestJobStop, EnableRule,
            RequestRulePause, ArchiveRule, SetCalendarEnabled, Queue,
            LeaseExpires, ScheduleDueJobs, ClaimJob, ClaimJobLost, RecoverStaleJobs
  <2>3. ASSUME NEW x \in Writers, Write(x) PROVE pending' = pending
    BY <2>3 DEF Write, BeginWriteDispatch, WriterDispatches, WriterReleases,
                WriterParks, dbVars
  <2>4. ASSUME UNCHANGED vars PROVE pending' = pending
    BY <2>4 DEF vars, dbVars
  <2> QED BY <1>2, <1>3, <2>1, <2>2, <2>3, <2>4 DEF Next
<1> QED BY <1>4, <1>5

\* The run row of an executing worker is open, or was closed by a recovery.
LEMMA ExecutedStep ==
    ASSUME RunsInv, TypeInv', [Next]_vars
    PROVE  ExecutedIsOpen'
<1> USE DEF RunsInv, DispatchInv, TypeInv, TypeOK
<1>1. ASSUME UNCHANGED workerVars PROVE ExecutedIsOpen'
  <2>1. \A w \in Workers : ~StartRun(w) /\ ~FinishRun(w)
    BY <1>1 DEF StartRun, FinishRun, BecomeIdle, workerVars
  <2>2. \A op \in Attempts :
            runs'[op] = runs[op] \/ (/\ runs[op] = "running"
                                     /\ runs'[op] \in {"unknown", "failed"})
    BY <2>1, RunsEdited
  <2>3. \A w \in Workers : pc[w] # "idle" => claim[w] \in Attempts
    BY DEF ClaimsOK
  <2> QED BY <1>1, <2>2, <2>3 DEF ExecutedIsOpen, workerVars
<1>2. ASSUME NEW w \in Workers, NEW j \in Jobs, ClaimJob(w, j)
      PROVE  ExecutedIsOpen'
  <2>1. /\ claim'[w] = <<j, jobs[j].attempt + 1>> /\ pc'[w] = "claimed"
        /\ \A v \in Workers \ {w} : claim'[v] = claim[v] /\ pc'[v] = pc[v]
        /\ runs' = runs
    BY <1>2 DEF ClaimJob
  <2>2. runs[<<j, jobs[j].attempt + 1>>] = "none"
    <3>1. PICK op \in Attempts : op = <<j, jobs[j].attempt + 1>>
      BY <1>2, ClaimedRowType DEF ClaimJob
    <3>2. op[2] > jobs[op[1]].attempt
      BY <3>1, AttemptParts
    <3> QED BY <3>1, <3>2 DEF UnclaimedIsNew
  <2> QED BY <2>1, <2>2 DEF ExecutedIsOpen
<1>3. ASSUME NEW w \in Workers, Execute(w) \/ Interrupt(w)
      PROVE  ExecutedIsOpen'
  <2>1. \A v \in Workers \ {w} : pc'[v] = pc[v] /\ claim'[v] = claim[v]
    BY <1>3, OthersStand
  <2>2. ASSUME NEW v \in Workers \ {w}, pc[v] # "idle"
        PROVE  runs'[claim[v]] = runs[claim[v]]
    <3>1. claim[v] \in Attempts /\ claim[v] # claim[w]
      BY <2>2 DEF ClaimsOK, ClaimsAreFresh
    <3> QED BY <1>3, <3>1, WorkerMoves DEF StartRun, FinishRun
  <2>3. CASE StartRun(w)
    <3>1. /\ pc'[w] = "started" /\ claim'[w] = claim[w] /\ claim[w] \in Attempts
          /\ runs'[claim[w]] = "running"
      BY <2>3 DEF StartRun, ClaimsOK
    <3> QED BY <2>1, <2>2, <3>1 DEF ExecutedIsOpen
  <2>4. CASE pc'[w] = "idle"
    BY <2>1, <2>2, <2>4 DEF ExecutedIsOpen
  <2>5. CASE /\ runs' = runs /\ claim' = claim
             /\ pc[w] \notin {"idle", "claimed"}
             /\ pc'[w] \notin {"idle", "claimed"}
    BY <2>1, <2>5 DEF ExecutedIsOpen
  <2>6. FinishRun(w) => pc'[w] = "idle"
    BY DEF FinishRun, BecomeIdle
  <2> QED BY <1>3, <2>3, <2>4, <2>5, <2>6, WorkerMoves
<1>4. CASE ControlPlane
  BY <1>1, <1>4 DEF ControlPlane, EnqueueJob, RequestJobStop, EnableRule,
                    RequestRulePause, ArchiveRule, SetCalendarEnabled
<1>5. CASE Queue
  <2>1. ASSUME ~\E w \in Workers, j \in Jobs : ClaimJob(w, j)
        PROVE  UNCHANGED workerVars
    BY <1>5, <2>1 DEF Queue, LeaseExpires, ScheduleDueJobs, RecoverStaleJobs,
                      ClaimJobLost
  <2> QED BY <1>1, <1>2, <2>1
<1>6. ASSUME NEW x \in Writers, Write(x) PROVE UNCHANGED workerVars
  BY <1>6 DEF Write, BeginWriteDispatch, WriterDispatches, WriterReleases,
              WriterParks
<1>7. UNCHANGED vars => UNCHANGED workerVars
  BY DEF vars
<1> QED BY <1>1, <1>3, <1>4, <1>5, <1>6, <1>7 DEF Next
\* How a job is inserted and closed, and how a rule becomes enabled.
LEMMA RowOrigins ==
    ASSUME TypeInv, [Next]_vars, NEW j \in Jobs
    PROVE  /\ jobs[j].state = "absent" /\ jobs'[j].state # "absent"
                 => j \in DryRuns \/ ruleState[RuleOf[j]] = "enabled"
           /\ jobs'[j].state \in {"succeeded", "failed", "stopped"}
                 => \/ jobs'[j] = jobs[j]
                    \/ \E w \in Workers : FinishRun(w) /\ j = JobOf(w)
<1> USE DEF TypeInv, TypeOK
<1> DEFINE Open == /\ jobs'[j].state \in {"absent", "pending", "running",
                                          "cancelled", "unknown"}
                   /\ jobs[j].state = "absent" /\ jobs'[j].state # "absent"
                         => j \in DryRuns \/ ruleState[RuleOf[j]] = "enabled"
<1> DEFINE Kept == jobs'[j] = jobs[j]
<1>j. jobs[j] \in JobRow
  OBVIOUS
<1>1. ASSUME NEW k \in Jobs, EnqueueJob(k) \/ ScheduleDueJobs(k)
      PROVE  Open \/ Kept
  BY <1>j, <1>1 DEF EnqueueJob, ScheduleDueJobs, JobRow
<1>2. ASSUME NEW k \in Jobs, RequestJobStop(k) PROVE Open \/ Kept
  <2>1. CASE j = k
    <3>1. /\ jobs[j].state \in {"pending", "running"}
          /\ jobs'[j].state = IF jobs[j].state = "pending" THEN "cancelled"
                                                            ELSE jobs[j].state
      BY <1>j, <1>2, <2>1 DEF RequestJobStop, JobRow
    <3> QED BY <3>1
  <2>2. CASE j # k
    BY <1>2, <2>2 DEF RequestJobStop
  <2> QED BY <2>1, <2>2
<1>3. ASSUME NEW r \in Rules, RequestRulePause(r) PROVE Open \/ Kept
  BY <1>j, <1>3 DEF RequestRulePause, JobRow
<1>4. ASSUME NEW r \in Rules, EnableRule(r) \/ ArchiveRule(r) \/ SetCalendarEnabled(r)
      PROVE  Kept
  BY <1>4 DEF EnableRule, ArchiveRule, SetCalendarEnabled
<1>5. ASSUME NEW k \in Jobs, LeaseExpires(k) PROVE Open \/ Kept
  BY <1>j, <1>5 DEF LeaseExpires, JobRow
<1>6. ASSUME NEW S \in SUBSET StaleJobs, RecoverStaleJobs(S) PROVE Open \/ Kept
  <2>1. CASE j \in S
    <3>1. jobs'[j] = [jobs[j] EXCEPT !.state = RecoveredState(j),
                                     !.by = None, !.lease = "none"]
      BY <1>6, <2>1 DEF RecoverStaleJobs
    <3>2. jobs[j].state = "running"
      BY <2>1 DEF StaleJobs
    <3> QED BY <1>j, <3>1, <3>2 DEF JobRow, RecoveredState
  <2>2. CASE j \notin S
    BY <1>6, <2>2 DEF RecoverStaleJobs
  <2> QED BY <2>1, <2>2
<1>7. ASSUME NEW w \in Workers, NEW k \in Jobs, ClaimJob(w, k) \/ ClaimJobLost(w, k)
      PROVE  Open \/ Kept
  <2>1. CASE j = k
    <3>1. jobs[j].state = "pending" /\ jobs'[j] = ClaimedRow(j, w)
      BY <1>7, <2>1 DEF ClaimJob, ClaimJobLost, Claimable
    <3> QED BY <1>j, <3>1 DEF ClaimedRow, JobRow
  <2>2. CASE j # k
    BY <1>7, <2>2 DEF ClaimJob, ClaimJobLost
  <2> QED BY <2>1, <2>2
<1>8. ASSUME NEW w \in Workers, Execute(w) \/ Interrupt(w)
      PROVE  \/ Kept
             \/ FinishRun(w) /\ j = JobOf(w) /\ jobs[j].state = "running"
  BY <1>8, WorkerRows, FinishedRow
<1>9. ASSUME NEW x \in Writers, Write(x) PROVE Kept
  BY <1>9 DEF Write, BeginWriteDispatch, WriterDispatches, WriterReleases,
              WriterParks, dbVars
<1>10. ASSUME UNCHANGED vars PROVE Kept
  BY <1>10 DEF vars, dbVars
<1>11. CASE Open
  BY <1>11
<1>12. CASE Kept
  BY <1>12
<1> HIDE DEF Open, Kept
<1> QED BY <1>1, <1>2, <1>3, <1>4, <1>5, <1>6, <1>7, <1>8, <1>9, <1>10, <1>11,
           <1>12 DEF Next, ControlPlane, Queue

\* Only EnableRule enables, and only ArchiveRule archives.
LEMMA RuleOrigins ==
    ASSUME TypeInv, [Next]_vars, NEW r \in Rules, ruleState'[r] # ruleState[r]
    PROVE  /\ ruleState'[r] = "enabled" => HasSuccessfulDryRun(r)
           /\ ruleState'[r] = "archived" => /\ ~HasPendingMapping(r)
                                            /\ pending' = pending
<1> USE DEF TypeInv, TypeOK
<1>1. CASE ControlPlane
  BY <1>1 DEF ControlPlane, EnqueueJob, RequestJobStop, EnableRule,
              RequestRulePause, ArchiveRule, SetCalendarEnabled
<1>2. CASE Queue
  BY <1>2 DEF Queue, LeaseExpires, ScheduleDueJobs, RecoverStaleJobs, ClaimJob,
              ClaimJobLost
<1>3. ASSUME NEW x \in Writers, Write(x) PROVE ruleState' = ruleState
  BY <1>3 DEF Write, BeginWriteDispatch, WriterDispatches, WriterReleases,
              WriterParks, dbVars
<1>4. UNCHANGED vars => ruleState' = ruleState
  BY DEF vars, dbVars
<1> QED BY <1>1, <1>2, <1>3, <1>4, WorkerRows DEF Next

\* A rule once allowed to mutate stays so: dry runs are not forgotten.
LEMMA DryRunStep ==
    ASSUME TypeInv, ExecutedIsOpen, SyncFollowsDryRun, [Next]_vars
    PROVE  SyncFollowsDryRun'
<1> SUFFICES ASSUME NEW r \in Rules,
                    \/ ruleState'[r] = "enabled"
                    \/ \E j \in SyncJobsOf(r) : jobs'[j].state # "absent"
             PROVE  HasSuccessfulDryRun(r)'
  BY DEF SyncFollowsDryRun, SyncJobsOf, JobsOf
<1>1. HasSuccessfulDryRun(r) => HasSuccessfulDryRun(r)'
  BY FinalStep DEF HasSuccessfulDryRun, JobsOf
<1>2. CASE ruleState'[r] = "enabled"
  <2>1. ruleState[r] = "enabled" \/ HasSuccessfulDryRun(r)
    BY <1>2, RuleOrigins
  <2> QED BY <1>1, <2>1 DEF SyncFollowsDryRun
<1>3. ASSUME NEW j \in SyncJobsOf(r), jobs'[j].state # "absent"
      PROVE  HasSuccessfulDryRun(r)'
  <2>1. j \in Jobs /\ RuleOf[j] = r /\ j \notin DryRuns
    BY DEF SyncJobsOf, JobsOf
  <2>2. jobs[j].state # "absent" \/ ruleState[r] = "enabled"
    BY <1>3, <2>1, RowOrigins
  <2> QED BY <1>1, <2>2 DEF SyncFollowsDryRun
<1> QED BY <1>2, <1>3

\* What a worker's calls leave behind, and what it may report.
CallsInv ==
    /\ DryRunsOnlyRead
    /\ CallsAreRecorded
    /\ SuccessIsReleased
    /\ ArchivedIsSettled

\* A step that leaves reservation, calls, intents and workers alone.
LEMMA CallsFrame ==
    ASSUME DryRunsOnlyRead, CallsAreRecorded, SuccessIsReleased,
           UNCHANGED <<fenceVars, workerVars, pending>>
    PROVE  DryRunsOnlyRead' /\ CallsAreRecorded' /\ SuccessIsReleased'
  BY DEF DryRunsOnlyRead, CallsAreRecorded, SuccessIsReleased, fenceVars,
         workerVars, JobOf

\* A worker's steps.
LEMMA WorkerCalls ==
    ASSUME DispatchInv, TypeInv', CallsInv,
           NEW w \in Workers, Execute(w) \/ Interrupt(w)
    PROVE  CallsInv'
<1> USE DEF DispatchInv, TypeInv, TypeOK
<1>0. /\ ruleState' = ruleState
      /\ \A v \in Workers \ {w} :
             UNCHANGED <<pc[v], claim[v], reserved[v], dispatched[v], failed[v]>>
  BY WorkerRows, OthersStand
<1>c. \A v \in Workers : pc[v] # "idle" => claim[v] \in Attempts /\ JobOf(v) \in Jobs
  BY DEF ClaimsOK, Attempts, JobOf
<1>d. \A v \in Workers \ {w} : pc[v] # "idle" => claim[v] # claim[w]
  BY DEF ClaimsOK, ClaimsAreFresh
<1> USE DEF CallsInv
<1>1. CASE \/ StartRun(w) \/ StartDryRun(w) \/ PassDispatchFence(w)
           \/ EngineSucceeds(w) \/ EngineFails(w) \/ PollStopRequest(w)
           \/ HeartbeatFails(w)
  <2>1. UNCHANGED <<reservation, sent, pending, claim, reserved>>
    BY <1>1 DEF StartRun, StartDryRun, PassDispatchFence, EngineSucceeds,
                EngineFails, PollStopRequest, HeartbeatFails, dbVars, fenceVars
  <2>2. /\ pc'[w] \in {"intent", "fenced", "sent"} =>
               pc[w] \in {"intent", "fenced", "sent"}
        /\ pc'[w] = "ending" /\ ~failed'[w] =>
               ~failed[w] /\ pc[w] \in {"engine", "ending"}
        /\ pc'[w] = "finishing" => pc[w] = "finishing" /\ failed'[w] = failed[w]
    BY <1>1 DEF StartRun, StartDryRun, PassDispatchFence, EngineSucceeds,
                EngineFails, PollStopRequest, HeartbeatFails
  <2>3. DryRunsOnlyRead' /\ CallsAreRecorded'
    BY <1>0, <2>1, <2>2 DEF DryRunsOnlyRead, CallsAreRecorded, JobOf
  <2>4. SuccessIsReleased'
    <3>1. pc[w] = "engine" /\ JobOf(w) \notin DryRuns => reserved[w]
      BY DEF LocalsOK
    <3> QED BY <1>0, <2>1, <2>2, <3>1 DEF SuccessIsReleased, JobOf
  <2> QED BY <1>0, <2>1, <2>3, <2>4 DEF ArchivedIsSettled, HasPendingMapping
<1>2. CASE StartRunFails(w) \/ FinishRun(w) \/ FinishRunFails(w) \/ Crash(w)
  <2>1. UNCHANGED <<reservation, sent, pending>> /\ pc'[w] = "idle"
    BY <1>2 DEF StartRunFails, FinishRun, FinishRunFails, Crash, BecomeIdle,
                dbVars, fenceVars
  <2>2. DryRunsOnlyRead' /\ CallsAreRecorded'
    BY <1>0, <2>1 DEF DryRunsOnlyRead, CallsAreRecorded, JobOf
  <2>3. SuccessIsReleased'
    BY <1>0, <2>1 DEF SuccessIsReleased, JobOf
  <2> QED BY <1>0, <2>1, <2>2, <2>3 DEF ArchivedIsSettled, HasPendingMapping
<1>3. CASE BeginExclusiveDispatch(w) \/ BeginExclusiveDispatchFails(w)
  <2>1. /\ UNCHANGED <<sent, pending, claim>>
        /\ reservation' = reservation \/ reservation' = claim[w]
        /\ JobOf(w) \notin DryRuns /\ pc[w] = "started"
        /\ pc'[w] = "engine" \/ (pc'[w] = "ending" /\ failed'[w])
    BY <1>3 DEF BeginExclusiveDispatch, BeginExclusiveDispatchFails, dbVars
  <2>2. DryRunsOnlyRead' /\ CallsAreRecorded'
    BY <1>0, <2>1 DEF DryRunsOnlyRead, CallsAreRecorded, JobOf
  <2>3. SuccessIsReleased'
    <3>1. \A v \in Workers \ {w} : pc[v] = "finishing" /\ ~failed[v] =>
              reservation' # claim[v]
      BY <1>d, <2>1 DEF SuccessIsReleased
    <3> QED BY <1>0, <2>1, <3>1 DEF SuccessIsReleased, JobOf
  <2> QED BY <1>0, <2>1, <2>2, <2>3 DEF ArchivedIsSettled, HasPendingMapping
<1>4. CASE BeginMutation(w)
  <2>1. /\ UNCHANGED <<reservation, sent, claim>>
        /\ pending' = pending \cup {claim[w]} /\ pc'[w] = "intent"
        /\ JobOf(w) \notin DryRuns /\ ruleState[RuleAt(w)] = "enabled"
        /\ claim[w] \in Attempts
    BY <1>4, <1>c DEF BeginMutation, CheckJobDispatchLease, fenceVars
  <2>2. DryRunsOnlyRead' /\ CallsAreRecorded'
    BY <1>0, <2>1 DEF DryRunsOnlyRead, CallsAreRecorded, JobOf
  <2>3. SuccessIsReleased'
    BY <1>0, <2>1 DEF SuccessIsReleased, JobOf
  <2>4. ArchivedIsSettled'
    BY <1>0, <2>1 DEF ArchivedIsSettled, HasPendingMapping, RuleAt, JobOf
  <2> QED BY <2>2, <2>3, <2>4
<1>5. CASE DispatchMutation(w)
  <2>1. /\ UNCHANGED <<reservation, pending, claim>>
        /\ sent' = sent \cup {claim[w]} /\ pc'[w] = "sent" /\ pc[w] = "fenced"
        /\ claim[w] \in Attempts
    BY <1>5, <1>c DEF DispatchMutation, dbVars
  <2>2. DryRunsOnlyRead' /\ CallsAreRecorded'
    BY <1>0, <2>1 DEF DryRunsOnlyRead, CallsAreRecorded, JobOf
  <2>3. SuccessIsReleased'
    BY <1>0, <2>1 DEF SuccessIsReleased, JobOf
  <2> QED BY <1>0, <2>1, <2>2, <2>3 DEF ArchivedIsSettled, HasPendingMapping
<1>6. CASE ConfirmMutation(w)
  <2>1. /\ UNCHANGED <<reservation, claim>>
        /\ sent' = sent \ {claim[w]} /\ pending' = pending \ {claim[w]}
        /\ pc'[w] = "engine"
    BY <1>6 DEF ConfirmMutation
  <2>2. DryRunsOnlyRead'
    BY <1>0, <2>1 DEF DryRunsOnlyRead, JobOf
  <2>3. CallsAreRecorded'
    BY <1>0, <1>d, <2>1 DEF CallsAreRecorded
  <2>4. SuccessIsReleased'
    BY <1>0, <2>1 DEF SuccessIsReleased, JobOf
  <2> QED BY <1>0, <2>1, <2>2, <2>3, <2>4 DEF ArchivedIsSettled, HasPendingMapping
<1>7. CASE ReleaseExclusiveAfterConfirmedRun(w)
  <2>1. /\ UNCHANGED <<sent, pending, claim>>
        /\ reservation' = None
        /\ pc[w] = "ending" /\ pc'[w] = "finishing"
    BY <1>7 DEF ReleaseExclusiveAfterConfirmedRun, dbVars
  <2>2. DryRunsOnlyRead' /\ CallsAreRecorded'
    BY <1>0, <2>1, AttemptParts DEF DryRunsOnlyRead, CallsAreRecorded, JobOf
  <2>3. SuccessIsReleased'
    <3>1. \A v \in Workers : pc[v] # "idle" => claim[v] # None
      BY DEF ClaimsOK
    <3> QED BY <1>0, <2>1, <3>1 DEF SuccessIsReleased, JobOf
  <2> QED BY <1>0, <2>1, <2>2, <2>3 DEF ArchivedIsSettled, HasPendingMapping
<1>8. CASE ReleaseFails(w) \/ KeepReservation(w)
  <2>1. /\ UNCHANGED <<reservation, sent, pending, claim>>
        /\ pc[w] = "ending" /\ pc'[w] = "finishing"
        /\ failed'[w] \/ (~failed[w] /\ ~reserved[w])
    BY <1>8 DEF ReleaseFails, KeepReservation, MayRelease, RunFailed, dbVars,
                fenceVars
  <2>2. DryRunsOnlyRead' /\ CallsAreRecorded'
    BY <1>0, <2>1 DEF DryRunsOnlyRead, CallsAreRecorded, JobOf
  <2>3. SuccessIsReleased'
    <3>1. ~failed'[w] => reservation # claim[w]
      <4>1. ~failed'[w] => JobOf(w) \in DryRuns
        BY <2>1 DEF SuccessIsReleased
      <4> QED BY <1>c, <2>1, <4>1 DEF DryRunsOnlyRead, JobOf
    <3> QED BY <1>0, <2>1, <3>1 DEF SuccessIsReleased, JobOf
  <2> QED BY <1>0, <2>1, <2>2, <2>3 DEF ArchivedIsSettled, HasPendingMapping
<1> QED BY <1>1, <1>2, <1>3, <1>4, <1>5, <1>6, <1>7, <1>8 DEF Execute, Interrupt
\* Every step: the others take a reservation only for themselves, or none.
LEMMA CallsStep ==
    ASSUME DispatchInv, TypeInv', CallsInv, [Next]_vars
    PROVE  CallsInv'
<1> USE DEF DispatchInv, TypeInv, TypeOK, CallsInv
<1>1. ASSUME UNCHANGED <<fenceVars, workerVars, pending>> PROVE CallsInv'
  <2>1. ArchivedIsSettled'
    BY <1>1, RuleOrigins DEF ArchivedIsSettled, HasPendingMapping
  <2> QED BY <1>1, <2>1, CallsFrame
<1>2. CASE ControlPlane
  BY <1>1, <1>2 DEF ControlPlane, EnqueueJob, RequestJobStop, EnableRule,
                    RequestRulePause, ArchiveRule, SetCalendarEnabled
<1>3. ASSUME NEW w \in Workers, NEW j \in Jobs, ClaimJob(w, j) PROVE CallsInv'
  <2>1. /\ UNCHANGED <<fenceVars, pending, ruleState, reserved, failed>>
        /\ pc'[w] = "claimed"
        /\ \A v \in Workers \ {w} : claim'[v] = claim[v] /\ pc'[v] = pc[v]
    BY <1>3 DEF ClaimJob
  <2>2. DryRunsOnlyRead' /\ CallsAreRecorded'
    BY <2>1 DEF DryRunsOnlyRead, CallsAreRecorded, JobOf, fenceVars
  <2>3. SuccessIsReleased'
    BY <2>1 DEF SuccessIsReleased, JobOf, fenceVars
  <2> QED BY <2>1, <2>2, <2>3 DEF ArchivedIsSettled, HasPendingMapping
<1>4. CASE Queue
  <2>1. ASSUME ~\E w \in Workers, j \in Jobs : ClaimJob(w, j)
        PROVE  UNCHANGED <<fenceVars, workerVars, pending>>
    BY <1>4, <2>1 DEF Queue, LeaseExpires, ScheduleDueJobs, RecoverStaleJobs,
                      ClaimJobLost
  <2> QED BY <1>1, <1>3, <2>1
<1>5. ASSUME NEW x \in Writers, Write(x) PROVE CallsInv'
  <2>1. /\ UNCHANGED <<dbVars, workerVars>>
        /\ sent' \subseteq sent \cup {x}
        /\ reservation' \in {reservation, None, x}
    BY <1>5 DEF Write, BeginWriteDispatch, WriterDispatches, WriterReleases,
                WriterParks, fenceVars
  <2>2. \A op \in Attempts : op # x /\ op # None
    BY AttemptParts
  <2>3. \A w \in Workers : pc[w] # "idle" => claim[w] \in Attempts
    BY DEF ClaimsOK
  <2>4. DryRunsOnlyRead'
    BY <2>1, <2>2 DEF DryRunsOnlyRead, JobOf, dbVars, workerVars
  <2>5. CallsAreRecorded'
    BY <2>1, <2>2 DEF CallsAreRecorded, dbVars, workerVars
  <2>6. SuccessIsReleased'
    <3>1. ASSUME NEW w \in Workers, pc[w] = "finishing", reservation # claim[w]
          PROVE  reservation' # claim[w]
      BY <2>1, <2>2, <2>3, <3>1
    <3> QED BY <2>1, <3>1 DEF SuccessIsReleased, JobOf, workerVars
  <2> QED BY <2>1, <2>4, <2>5, <2>6
          DEF ArchivedIsSettled, HasPendingMapping, dbVars
<1>6. UNCHANGED vars => UNCHANGED <<fenceVars, workerVars, pending>>
  BY DEF vars, dbVars
<1> HIDE DEF CallsInv
<1> QED BY <1>1, <1>2, <1>4, <1>5, <1>6, WorkerCalls DEF Next

\* The step of an operation that calls, and the step that reserves.
LEMMA OwnSteps ==
    ASSUME TypeInv, [Next]_vars, NEW op \in Attempts
    PROVE  /\ op \in sent' \ sent =>
                \E w \in Workers : DispatchMutation(w) /\ op = claim[w]
           /\ reservation' = op /\ reservation # op =>
                \E w \in Workers : pc[w] = "started" /\ op = claim[w]
<1> USE DEF TypeInv, TypeOK
<1>1. CASE ControlPlane \/ Queue
  BY <1>1 DEF ControlPlane, EnqueueJob, RequestJobStop, EnableRule,
              RequestRulePause, ArchiveRule, SetCalendarEnabled, Queue,
              LeaseExpires, ScheduleDueJobs, RecoverStaleJobs, ClaimJob,
              ClaimJobLost, fenceVars
<1>2. ASSUME NEW w \in Workers, Execute(w) \/ Interrupt(w)
      PROVE  /\ sent' \subseteq sent \/ (DispatchMutation(w) /\ sent' = sent \cup {claim[w]})
             /\ \/ reservation' \in {reservation, None}
                \/ pc[w] = "started" /\ reservation' = claim[w]
  BY <1>2 DEF Execute, Interrupt, StartRun, StartRunFails, StartDryRun,
         BeginExclusiveDispatch, BeginExclusiveDispatchFails, BeginMutation,
         PassDispatchFence, DispatchMutation, ConfirmMutation, EngineSucceeds,
         EngineFails, ReleaseExclusiveAfterConfirmedRun, ReleaseFails,
         KeepReservation, FinishRun, FinishRunFails, PollStopRequest,
         HeartbeatFails, Crash, fenceVars
<1>3. ASSUME NEW x \in Writers, Write(x)
      PROVE  sent' \subseteq sent \cup {x} /\ reservation' \in {reservation, None, x}
  BY <1>3 DEF Write, BeginWriteDispatch, WriterDispatches, WriterReleases,
              WriterParks, fenceVars
<1>4. UNCHANGED vars => UNCHANGED fenceVars
  BY DEF vars
<1>5. op # None /\ \A x \in Writers : op # x
  BY AttemptParts
<1>6. CASE Next
  <2>1. ASSUME NEW w \in Workers, Execute(w) \/ Interrupt(w)
        PROVE  /\ op \in sent' \ sent =>
                    \E v \in Workers : DispatchMutation(v) /\ op = claim[v]
               /\ reservation' = op /\ reservation # op =>
                    \E v \in Workers : pc[v] = "started" /\ op = claim[v]
    BY <1>2, <1>5, <2>1
  <2>2. ASSUME NEW x \in Writers, Write(x)
        PROVE  op \notin sent' \ sent /\ (reservation' = op => reservation = op)
    BY <1>3, <1>5, <2>2
  <2> QED BY <1>1, <1>6, <2>1, <2>2 DEF Next
<1> QED BY <1>4, <1>6 DEF fenceVars

\* What a worker reports when it finishes is true.
LEMMA ReportIsTrue ==
    ASSUME TypeInv, UnconfirmedIsKnown, SuccessIsReleased,
           NEW w \in Workers, FinishRun(w)
    PROVE  /\ RecordedOutcome(w) \in {"succeeded", "stopped"} => claim[w] \notin sent
           /\ RecordedOutcome(w) = "succeeded" => reservation # claim[w]
<1> USE DEF TypeInv, TypeOK
<1>1. jobs[JobOf(w)].stop \in BOOLEAN
  BY FinishedRow DEF JobRow
<1>2. /\ RecordedOutcome(w) = "succeeded" => ~failed[w]
      /\ RecordedOutcome(w) = "stopped" => ~dispatched[w]
  BY <1>1 DEF RecordedOutcome
<1> QED BY <1>2 DEF UnconfirmedIsKnown, SuccessIsReleased, FinishRun

\* The history stays honest.
LEMMA HonestStep ==
    ASSUME HistoryInv, [Next]_vars
    PROVE  OutcomesAreHonest'
<1> USE DEF HistoryInv, DispatchInv, TypeInv, TypeOK
<1>1. ASSUME NEW op \in Attempts, runs'[op] \in {"succeeded", "stopped"}
      PROVE  op \notin sent' /\ (runs'[op] = "succeeded" => reservation' # op)
  <2>1. CASE runs'[op] = runs[op]
    <3>1. op \notin sent /\ (runs[op] = "succeeded" => reservation # op)
      BY <1>1, <2>1 DEF OutcomesAreHonest
    <3>2. ASSUME NEW w \in Workers, pc[w] \in {"started", "fenced"} PROVE op # claim[w]
      BY <1>1, <2>1, <3>2 DEF ExecutedIsOpen
    <3> QED BY <2>1, <3>1, <3>2, OwnSteps DEF DispatchMutation
  <2>2. CASE runs'[op] # runs[op]
    <3>1. \A w \in Workers : StartRun(w) /\ op = claim[w] => runs'[op] = "running"
      BY DEF StartRun
    <3>2. PICK w \in Workers : FinishRun(w) /\ op = claim[w]
      BY <1>1, <2>2, <3>1, RunsEdited
    <3>3. runs'[op] = RecordedOutcome(w)
      BY <3>2, FinishedRow
    <3> QED BY <1>1, <3>2, <3>3, ReportIsTrue DEF FinishRun, fenceVars
  <2> QED BY <2>1, <2>2
<1>2. ASSUME NEW j \in Jobs, jobs'[j].state \in {"succeeded", "failed", "stopped"}
      PROVE  runs'[<<j, jobs'[j].attempt>>] = jobs'[j].state
  <2>1. CASE jobs'[j] = jobs[j]
    <3>1. PICK op : op = <<j, jobs[j].attempt>>
      OBVIOUS
    <3>2. op \in Attempts
      <4>1. jobs[j].attempt \in 0..MaxAttempts /\ jobs[j].attempt > 0
        BY <1>2, <2>1 DEF RowsAreCounted, JobRow
      <4>2. jobs[j].attempt \in 1..MaxAttempts
        BY <4>1, ConstantsAssumption
      <4> QED BY <3>1, <4>2 DEF Attempts
    <3>3. runs[op] = jobs[j].state
      BY <1>2, <2>1, <3>1 DEF OutcomesAreHonest
    <3>4. runs'[op] = runs[op]
      BY <1>2, <2>1, <3>2, <3>3, FinalStep
    <3> QED BY <2>1, <3>1, <3>3, <3>4
  <2>2. CASE jobs'[j] # jobs[j]
    <3>1. PICK w \in Workers : FinishRun(w) /\ j = JobOf(w)
      BY <1>2, <2>2, RowOrigins
    <3> QED BY <3>1, FinishedRow
  <2> QED BY <2>1, <2>2
<1> QED BY <1>1, <1>2 DEF OutcomesAreHonest

\* Every step keeps the invariant.
LEMMA HistoryStep == HistoryInv /\ [Next]_vars => HistoryInv'
<1> SUFFICES ASSUME HistoryInv, [Next]_vars PROVE HistoryInv'
  OBVIOUS
<1> USE DEF HistoryInv
<1>1. DispatchInv' /\ TypeInv /\ TypeInv'
  BY DispatchStep DEF DispatchInv
<1>2. RowsInv'
  BY <1>1, RowsStep DEF RowsInv
<1>3. UnclaimedIsNew' /\ ExecutedIsOpen'
  BY <1>1, UnclaimedStep, ExecutedStep DEF RunsInv
<1>4. SyncFollowsDryRun'
  BY <1>1, DryRunStep
<1>5. CallsInv'
  BY <1>1, CallsStep DEF CallsInv
<1>6. OutcomesAreHonest'
  BY HonestStep
<1> QED BY <1>1, <1>2, <1>3, <1>4, <1>5, <1>6 DEF RowsInv, CallsInv

\* The invariant holds throughout.
LEMMA History == Spec => []HistoryInv
  BY InitHistoryInv, HistoryStep, PTL DEF Spec

\* Two jobs of one rule are never running together, however claims, lost
\* claims, lease losses and recoveries interleave.
THEOREM OneJobAtATime == Spec => []OneRunningJobPerRule
<1>1. HistoryInv => OneRunningJobPerRule
  BY DEF HistoryInv
<1> QED BY <1>1, History, PTL

\* A pause reaches every queued and running sync job of the rule, and no later
\* recovery, schedule or request brings one back; an archived rule is over.
THEOREM PauseHolds == Spec => []PauseIsEffective
<1>1. HistoryInv => PauseIsEffective
  BY DEF HistoryInv
<1> QED BY <1>1, History, PTL

\* The recorded outcomes are true of the provider.
THEOREM HistoryIsHonest == Spec => []OutcomesAreHonest
<1>1. HistoryInv => OutcomesAreHonest
  BY DEF HistoryInv
<1> QED BY <1>1, History, PTL

\* An operation in flight has recorded its intent.
LEMMA InFlightIsPending ==
    ASSUME HistoryInv, NEW op \in Attempts, InFlight(op) \/ op \in pending
    PROVE  op \in pending
  BY AttemptParts DEF HistoryInv, CallsAreRecorded, InFlight

\* No call and no intent to call exists for a rule before one of its dry runs
\* succeeded, and none of them is a dry run's own.
THEOREM DryRunComesFirst == Spec => []MutationNeedsDryRun
<1>1. HistoryInv => MutationNeedsDryRun
  <2> SUFFICES ASSUME HistoryInv, NEW op \in Attempts, InFlight(op) \/ op \in pending
               PROVE  /\ op[1] \notin DryRuns
                      /\ \E dry \in Attempts : /\ dry[1] \in DryRuns
                                             /\ RuleOf[dry[1]] = RuleOf[op[1]]
                                             /\ runs[dry] = "succeeded"
    BY DEF MutationNeedsDryRun
  <2> USE DEF HistoryInv
  <2>1. op \in pending /\ op[1] \in Jobs /\ op[2] \in Nat /\ op[2] > 0
    BY InFlightIsPending, AttemptParts DEF Attempts
  <2>2. op[1] \notin DryRuns
    BY <2>1 DEF DryRunsOnlyRead
  <2>3. jobs[op[1]].attempt # 0
    BY <2>1 DEF UnclaimedIsNew
  <2>4. jobs[op[1]].state # "absent"
    BY <2>1, <2>3 DEF RowsAreCounted
  <2>5. op[1] \in SyncJobsOf(RuleOf[op[1]]) /\ RuleOf[op[1]] \in Rules
    BY <2>1, <2>2, ConstantsAssumption DEF SyncJobsOf, JobsOf
  <2>6. HasSuccessfulDryRun(RuleOf[op[1]])
    BY <2>4, <2>5 DEF SyncFollowsDryRun
  <2> QED BY <2>2, <2>6 DEF HasSuccessfulDryRun, JobsOf
<1> QED BY <1>1, History, PTL

\* A rule is shown as paused or archived only when none of its mutations is
\* under way or unsettled.
THEOREM PausedIsQuiet == Spec => []QuietWhenPaused
<1>1. HistoryInv => QuietWhenPaused
  <2> SUFFICES ASSUME HistoryInv, NEW r \in Rules,
                      RuleControlStatus(r) \in {"paused", "unknown"},
                      NEW op \in Attempts, RuleOf[op[1]] = r
               PROVE  ~InFlight(op) /\ op \notin pending
    BY DEF QuietWhenPaused
  <2>1. ~HasPendingMapping(r)
    <3>1. ruleState[r] \in {"paused", "enabled", "archived"}
      BY DEF HistoryInv, DispatchInv, TypeInv, TypeOK, RuleStates
    <3>2. CASE ruleState[r] = "archived"
      BY <3>2 DEF HistoryInv, ArchivedIsSettled
    <3>3. CASE ruleState[r] = "enabled"
      BY <3>3 DEF RuleControlStatus
    <3>4. CASE ruleState[r] = "paused"
      BY <3>4 DEF RuleControlStatus
    <3> QED BY <3>1, <3>2, <3>3, <3>4
  <2>2. op \notin pending
    BY <2>1 DEF HasPendingMapping
  <2> QED BY <2>2, InFlightIsPending
<1> QED BY <1>1, History, PTL

\* A closed job row and a closed run row are never rewritten.
THEOREM HistoryIsFinal == Spec => ClosedIsFinal
<1>1. HistoryInv /\ [Next]_vars =>
          [/\ \A j \in Jobs : jobs[j].state \in Terminal => jobs'[j] = jobs[j]
           /\ \A op \in Attempts : runs[op] \notin {"none", "running"}
                                      => runs'[op] = runs[op]]_vars
  BY FinalStep DEF HistoryInv, DispatchInv
<1> QED BY <1>1, History, PTL DEF Spec, ClosedIsFinal

\* A reservation whose operation nobody executes any more is never cleared.
THEOREM ParkedForever == Spec => ParkedStaysParked
<1>1. HistoryInv /\ [Next]_vars =>
          [reservation # None /\ Forsaken(reservation)
               => reservation' = reservation]_vars
  <2> SUFFICES ASSUME HistoryInv, Next, reservation # None, Forsaken(reservation)
               PROVE  reservation' = reservation
    OBVIOUS
  <2> USE DEF HistoryInv, DispatchInv, TypeInv, TypeOK
  <2>1. CASE ControlPlane \/ Queue
    BY <2>1 DEF ControlPlane, EnqueueJob, RequestJobStop, EnableRule,
                RequestRulePause, ArchiveRule, SetCalendarEnabled, Queue,
                LeaseExpires, ScheduleDueJobs, RecoverStaleJobs, ClaimJob,
                ClaimJobLost, fenceVars
  <2>2. ASSUME NEW w \in Workers, Execute(w) \/ Interrupt(w)
        PROVE  reservation' = reservation
    <3>1. ASSUME ReleaseExclusiveAfterConfirmedRun(w) PROVE FALSE
      <4>1. reservation = claim[w] /\ claim[w] \in Attempts
        BY <3>1 DEF ReleaseExclusiveAfterConfirmedRun, ClaimsOK
      <4> QED BY <4>1, AttemptParts DEF Forsaken
    <3> QED BY <2>2, <3>1
            DEF Execute, Interrupt, StartRun, StartRunFails, StartDryRun,
            BeginExclusiveDispatch, BeginExclusiveDispatchFails, BeginMutation,
            PassDispatchFence, DispatchMutation, ConfirmMutation, EngineSucceeds,
            EngineFails, ReleaseFails, KeepReservation, FinishRun, FinishRunFails,
            PollStopRequest, HeartbeatFails, Crash, fenceVars
  <2>3. ASSUME NEW x \in Writers, Write(x) PROVE reservation' = reservation
    BY <2>3 DEF Write, BeginWriteDispatch, WriterDispatches, WriterReleases,
                WriterParks, fenceVars, WritersOK, Forsaken
  <2> QED BY <2>1, <2>2, <2>3 DEF Next
<1> QED BY <1>1, History, PTL DEF Spec, ParkedStaysParked
=============================================================================
