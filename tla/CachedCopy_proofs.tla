------------------------- MODULE CachedCopy_proofs -------------------------
(***************************************************************************)
(* Proofs about CachedCopy: a copy run acts on a snapshot that is still    *)
(* the current one, for every set of instances, runs and operations.       *)
(***************************************************************************)
EXTENDS CachedCopy, SourceProjection_proofs

-----------------------------------------------------------------------------
(* The inductive invariant: that of the projection (IInv), and             *)

(* a capture lists the calendar after the snapshot it builds on,           *)
BasesAreEarlier ==
    \A w \in Workers :
        session[w].capture /\ session[w].upTo # 0 /\ MyAttempt(w) # {} =>
            \A b \in snapshots : b.cursor <= session[w].upTo

(* a cancellation in the journal was once in the calendar,                 *)
JournalIsTrue ==
    \A s \in snapshots : \A o \in s.observations : o.cancelled =>
        \E q \in 1..s.cursor : history[q][o.instance] = "gone"

(* a run that is under way holds the global key,                           *)
RunRow == [pc : {"idle", "reserved", "copying"}, op : CopyRuns \cup {None},
           revision : Nat, todo : SUBSET Instances, dispatched : BOOLEAN]

RunIsReserved ==
    /\ copied \in [Instances -> Nat] /\ run \in RunRow
    /\ run.pc # "idle" => run.op \in CopyRuns /\ op[run.op] = "open"

(* and the copies it plans to delete are those of instances that the       *)
(* snapshot of its revision has as cancelled.                              *)
PlanIsCurrent ==
    run.pc = "copying" => \A s \in snapshots : s.revision = run.revision =>
        \A i \in run.todo : copied[i] # 0 => i \in Cancelled(s)

CopyInv ==
    /\ IInv
    /\ BasesAreEarlier
    /\ JournalIsTrue
    /\ RunIsReserved
    /\ PlanIsCurrent

-----------------------------------------------------------------------------
(* The steps of a copy run are steps of the projection.                    *)

(* A run takes and returns the global key as any dispatch does, and leaves *)
(* the projection alone otherwise.                                         *)
LEMMA CopyStepIsStep ==
    ASSUME RunIsReserved, [CopyNext]_copyVars
    PROVE  [Next]_vars
<1>1. CASE UNCHANGED copyVars
  BY <1>1 DEF copyVars
<1>2. CASE \/ ProviderChange /\ UNCHANGED <<run, copied>>
           \/ (\E o \in Ops \ CopyRuns : FenceStep(o)) /\ UNCHANGED <<run, copied>>
           \/ SyncStep /\ UNCHANGED <<run, copied>>
  BY <1>2 DEF Next
<1>3. ASSUME NEW o \in CopyRuns, BeginRun(o)
      PROVE  Next
  <2>1. o \in Ops /\ FenceStep(o)
    BY <1>3 DEF BeginRun, FenceStep, Ops
  <2> QED BY <2>1 DEF Next
<1>4. CASE ReadSource \/ CrashRun \/ \E i \in Instances : Dispatch(i)
  BY <1>4 DEF ReadSource, CrashRun, Dispatch
<1>5. CASE FinishRun \/ FailRun
  <2>1. run.op \in CopyRuns
    BY <1>5 DEF FinishRun, FailRun, RunIsReserved
  <2> QED BY <1>5, <2>1 DEF FinishRun, FailRun, Next
<1> QED BY <1>1, <1>2, <1>3, <1>4, <1>5 DEF CopyNext

(* The provider's past does not change. *)
LEMMA HistoryIsKept ==
    ASSUME IInv, [Next]_vars
    PROVE  /\ Now \in Nat /\ Now' \in Nat /\ Now <= Now'
           /\ \A p \in Positions : history'[p] = history[p]
<1>1. Typed /\ Now \in Nat
  BY DEF IInv, Typed
<1>2. CASE history' = history
  BY <1>1, <1>2 DEF Now
<1>3. ASSUME NEW i \in Instances, NEW place \in Place, ChangedTo(i, place)
      PROVE  /\ Now' = Now + 1
             /\ \A p \in Positions : history'[p] = history[p]
  BY <1>1, <1>3, HistoryGrows
<1>4. \/ history' = history
      \/ \E i \in Instances, place \in Place : ChangedTo(i, place)
  <2>1. CASE UNCHANGED vars
    BY <2>1 DEF vars
  <2>2. CASE ProviderChange
    BY <2>2 DEF ProviderChange
  <2>3. ASSUME NEW o \in Ops, FenceStep(o) \/ ReleaseExclusiveAfterConfirmedRun(o)
        PROVE  \/ history' = history
               \/ \E i \in Instances, place \in Place : ChangedTo(i, place)
    BY <2>3 DEF FenceStep, BeginProjectionMutation, ResolveProjectionMutation,
        BeginExclusiveDispatch, ReleaseExclusiveAfterConfirmedRun, OwnMutation, provider
  <2>4. CASE SyncStep
    BY <2>4 DEF SyncStep, LeaseExpires, ScheduleCalendarSync, RepairQuarantine,
          ClaimDueCalendarSync, PlanSourceProjectionCapture, ResetCalendarSync,
          StartProjectionPageAttempt, FetchPage, ApplyPage, ApplyFinalPage,
          FinalizeSourceProjectionPage, DeferCalendarSyncForReservation, FailCalendarSync,
          Abandon, provider
  <2> QED BY <2>1, <2>2, <2>3, <2>4 DEF Next, Ops
<1> QED BY <1>1, <1>2, <1>3, <1>4

-----------------------------------------------------------------------------
(* The journal.                                                            *)

(* A publication adds cancellations of its listing to the journal of the   *)
(* snapshot it builds on, which ends before that listing.                  *)
LEMMA JournalStep ==
    ASSUME IInv, BasesAreEarlier, JournalIsTrue, [Next]_vars
    PROVE  JournalIsTrue'
<1>1. /\ Now \in Nat /\ Now' \in Nat /\ Now <= Now'
      /\ \A p \in Positions : history'[p] = history[p]
  BY HistoryIsKept
<1>2. \A s \in snapshots : s.cursor \in Positions
  BY DEF IInv, SnapshotsAreTrue
<1>3. CASE snapshots' = snapshots
  <2> SUFFICES ASSUME NEW s \in snapshots, NEW o \in s.observations, o.cancelled
               PROVE  \E q \in 1..s.cursor : history'[q][o.instance] = "gone"
    BY <1>3 DEF JournalIsTrue
  <2>1. PICK q \in 1..s.cursor : history[q][o.instance] = "gone"
    BY DEF JournalIsTrue
  <2>2. q \in Positions
    BY <1>1, <1>2 DEF Positions
  <2> QED BY <1>1, <2>1, <2>2
<1>4. ASSUME NEW w \in Workers, FinalizeSourceProjectionPage(w)
      PROVE  JournalIsTrue'
  <2>1. PICK a \in MyAttempt(w), new \in Snapshot :
            /\ snapshots' = {new} /\ new.cursor = session[w].upTo
            /\ \A o \in new.observations :
                \/ o.cancelled => history[session[w].upTo][o.instance] = "gone"
                \/ \E b \in snapshots : o \in b.observations
    BY <1>4, Published
  <2>2. /\ session[w].pc = "page" /\ session[w].capture
        /\ history' = history
    BY <1>4 DEF FinalizeSourceProjectionPage, provider
  <2>3. session[w].upTo \in Positions /\ session[w].upTo # 0
    BY <1>1, <2>2 DEF IInv, RunsAreInThePast, Positions
  <2> SUFFICES ASSUME NEW o \in new.observations, o.cancelled
               PROVE  \E q \in 1..new.cursor : history[q][o.instance] = "gone"
    BY <2>1, <2>2 DEF JournalIsTrue
  <2>4. CASE history[session[w].upTo][o.instance] = "gone"
    <3>1. session[w].upTo \in 1..new.cursor
      BY <1>1, <2>1, <2>3 DEF Positions
    <3> QED BY <2>4, <3>1
  <2>5. ASSUME NEW b \in snapshots, o \in b.observations
        PROVE  \E q \in 1..new.cursor : history[q][o.instance] = "gone"
    <3>1. PICK q \in 1..b.cursor : history[q][o.instance] = "gone"
      BY <2>5 DEF JournalIsTrue
    <3>2. b.cursor <= session[w].upTo
      BY <2>1, <2>2, <2>3 DEF BasesAreEarlier
    <3>3. q \in 1..new.cursor
      BY <1>1, <1>2, <2>1, <2>3, <3>1, <3>2 DEF Positions
    <3> QED BY <3>1, <3>3
  <2> QED BY <2>1, <2>4, <2>5
<1> QED BY <1>3, <1>4, OnlyPublications

-----------------------------------------------------------------------------
(* The base of a capture.                                                  *)

(* A run moves on alone, and no other run gets an attempt by that.         *)
LEMMA BasesKept ==
    ASSUME BasesAreEarlier, NEW w \in Workers, snapshots' = snapshots,
           \A v \in Workers \ {w} : session'[v] = session[v],
           \A v \in Workers \ {w} :
                session[v].capture /\ MyAttempt(v)' # {} => MyAttempt(v) # {},
           session'[w].capture /\ session'[w].upTo # 0 /\ MyAttempt(w)' # {} =>
                \A b \in snapshots : b.cursor <= session'[w].upTo
    PROVE  BasesAreEarlier'
<1> SUFFICES ASSUME NEW v \in Workers,
                    session'[v].capture, session'[v].upTo # 0, MyAttempt(v)' # {}
             PROVE  \A b \in snapshots : b.cursor <= session'[v].upTo
  BY DEF BasesAreEarlier
<1>1. CASE v = w
  BY <1>1
<1>2. CASE v # w
  BY <1>2 DEF BasesAreEarlier
<1> QED BY <1>1, <1>2

(* An attempt is started for a listing that is still to come, and the      *)
(* listing is fixed at the position the calendar then has.                 *)
LEMMA BasesStep ==
    ASSUME IInv, BasesAreEarlier, [Next]_vars
    PROVE  BasesAreEarlier'
<1> USE DEF IInv
<1>1. CASE UNCHANGED <<snapshots, attempts, session>>
  BY <1>1 DEF BasesAreEarlier, MyAttempt
<1>2. ASSUME NEW w \in Workers, NEW s,
             UNCHANGED <<snapshots, attempts>>, session' = [session EXCEPT ![w] = s],
             s.capture = FALSE
      PROVE  BasesAreEarlier'
  <2>1. session'[w] = s /\ \A v \in Workers \ {w} : session'[v] = session[v]
    BY <1>2 DEF Typed
  <2>2. \A v \in Workers \ {w} : MyAttempt(v)' = MyAttempt(v)
    BY <1>2, <2>1 DEF MyAttempt
  <2> QED BY <1>2, <2>1, <2>2, BasesKept
<1>3. ASSUME NEW w \in Workers,
             \/ ClaimDueCalendarSync(w) \/ ResetCalendarSync(w) \/ ApplyFinalPage(w)
             \/ DeferCalendarSyncForReservation(w) \/ FailCalendarSync(w) \/ Abandon(w)
      PROVE  BasesAreEarlier'
  <2>1. PICK s : session' = [session EXCEPT ![w] = s] /\ s.capture = FALSE
    <3>1. CASE ClaimDueCalendarSync(w)
      <4>1. PICK s : s = [IdleSession EXCEPT !.pc = "claimed", !.gen = source.gen + 1,
                                             !.cursor = source.cursor]
        OBVIOUS
      <4>2. s.capture = FALSE
        BY <4>1 DEF IdleSession
      <4> QED BY <3>1, <4>1, <4>2 DEF ClaimDueCalendarSync
    <3>2. CASE ResetCalendarSync(w)
      <4>1. PICK s : s = [IdleSession EXCEPT !.pc = "claimed", !.gen = source.gen + 1]
        OBVIOUS
      <4>2. s.capture = FALSE
        BY <4>1 DEF IdleSession
      <4> QED BY <3>2, <4>1, <4>2 DEF ResetCalendarSync
    <3>3. CASE \/ ApplyFinalPage(w) \/ DeferCalendarSyncForReservation(w)
               \/ FailCalendarSync(w) \/ Abandon(w)
      <4>1. session' = [session EXCEPT ![w] = IdleSession]
        BY <3>3 DEF ApplyFinalPage, DeferCalendarSyncForReservation, FailCalendarSync, Abandon,
            Ends
      <4>2. IdleSession.capture = FALSE
        BY DEF IdleSession
      <4> QED BY <4>1, <4>2
    <3> QED BY <1>3, <3>1, <3>2, <3>3
  <2>2. UNCHANGED <<snapshots, attempts>>
    BY <1>3 DEF ClaimDueCalendarSync, ResetCalendarSync, ApplyFinalPage,
        DeferCalendarSyncForReservation, FailCalendarSync, Abandon
  <2> QED BY <1>2, <2>1, <2>2
<1>4. ASSUME NEW w \in Workers, PlanSourceProjectionCapture(w)
      PROVE  BasesAreEarlier'
  <2>1. session[w].pc = "claimed" /\ UNCHANGED <<snapshots, attempts>>
    BY <1>4 DEF PlanSourceProjectionCapture
  <2>2. session[w] \in SessionRow /\ session[w].capture = FALSE
    BY <2>1 DEF RunsAreInThePast, Typed, SessionRow
  <2>3. PICK pc : session' = [session EXCEPT ![w].pc = pc, ![w].epoch = guard.epoch,
                                             ![w].base = guard.revision]
    BY <1>4 DEF PlanSourceProjectionCapture
  <2>4. session' = [session EXCEPT ![w] = [session[w] EXCEPT !.pc = pc, !.epoch = guard.epoch,
                                                             !.base = guard.revision]]
    BY <2>3 DEF Typed
  <2>5. [session[w] EXCEPT !.pc = pc, !.epoch = guard.epoch, !.base = guard.revision].capture = FALSE
    BY <2>2 DEF SessionRow
  <2> QED BY <1>2, <2>1, <2>4, <2>5
<1>5. ASSUME NEW w \in Workers, StartProjectionPageAttempt(w)
      PROVE  BasesAreEarlier'
  <2>1. /\ session[w].pc = "planned" /\ session[w].upTo = 0
        /\ snapshots' = snapshots
    BY <1>5 DEF StartProjectionPageAttempt, GenerationsAreOwn
  <2>2. PICK starts : session' = [session EXCEPT ![w].pc = "paging", ![w].capture = starts]
    BY <1>5 DEF StartProjectionPageAttempt
  <2>3. session'[w].upTo = 0 /\ \A v \in Workers \ {w} : session'[v] = session[v]
    BY <2>1, <2>2 DEF Typed, SessionRow
  <2>4. \A a \in attempts' : a \in attempts \/ a.gen = session[w].gen
    BY <1>5 DEF StartProjectionPageAttempt, AttemptsFrom
  <2>5. ASSUME NEW v \in Workers \ {w}, session[v].capture, MyAttempt(v)' # {}
        PROVE  MyAttempt(v) # {}
    <3>1. session[v].gen # session[w].gen
      BY <2>1, <2>5 DEF GenerationsAreOwn, RunsAreInThePast
    <3> QED BY <2>3, <2>4, <2>5, <3>1 DEF MyAttempt
  <2> QED BY <2>1, <2>3, <2>5, BasesKept
<1>6. ASSUME NEW w \in Workers, FetchPage(w)
      PROVE  BasesAreEarlier'
  <2>1. UNCHANGED <<snapshots, attempts>>
    BY <1>6 DEF FetchPage
  <2>2. PICK upTo : upTo = IF session[w].upTo = 0 THEN Now ELSE session[w].upTo
    OBVIOUS
  <2>3. PICK s : /\ session' = [session EXCEPT ![w] = s]
                 /\ s.upTo = upTo /\ s.gen = session[w].gen
                 /\ s.capture => session[w].capture
    <3>1. PICK todo, page, degraded, capture :
            /\ session' = [session EXCEPT ![w] =
                    [session[w] EXCEPT !.pc = "page", !.upTo = upTo, !.todo = todo, !.page = page,
                                       !.degraded = degraded, !.capture = capture]]
            /\ capture => session[w].capture
      <4>1. PICK todo : todo = IF session[w].upTo = 0 THEN Listed(session[w].cursor, Now)
                                                     ELSE session[w].todo
        OBVIOUS
      <4>2. PICK page, warned :
                session' = [session EXCEPT ![w] =
                    [session[w] EXCEPT !.pc = "page", !.upTo = upTo, !.todo = todo, !.page = page,
                        !.degraded = session[w].degraded \/ warned,
                        !.capture = session[w].capture /\ ~session[w].degraded /\ ~warned]]
        BY <1>6, <2>2, <4>1 DEF FetchPage
      <4>3. PICK degraded : degraded = (session[w].degraded \/ warned)
        OBVIOUS
      <4>4. PICK capture : capture = (session[w].capture /\ ~session[w].degraded /\ ~warned)
        OBVIOUS
      <4>5. session' = [session EXCEPT ![w] =
                [session[w] EXCEPT !.pc = "page", !.upTo = upTo, !.todo = todo, !.page = page,
                                   !.degraded = degraded, !.capture = capture]]
        BY <4>2, <4>3, <4>4, Zenon
      <4>6. capture => session[w].capture
        BY <4>4
      <4> QED BY <4>5, <4>6
    <3>2. session[w] \in SessionRow
      BY DEF Typed
    <3>3. PICK s : s = [session[w] EXCEPT !.pc = "page", !.upTo = upTo, !.todo = todo,
                                          !.page = page, !.degraded = degraded, !.capture = capture]
      OBVIOUS
    <3>4. s.upTo = upTo /\ s.gen = session[w].gen /\ s.capture = capture
      BY <3>2, <3>3 DEF SessionRow
    <3> QED BY <3>1, <3>3, <3>4
  <2>4. session'[w] = s /\ \A v \in Workers \ {w} : session'[v] = session[v]
    BY <2>3 DEF Typed
  <2>5. \A v \in Workers : MyAttempt(v)' = MyAttempt(v)
    BY <2>1, <2>3, <2>4 DEF MyAttempt
  <2>6. ASSUME s.capture, MyAttempt(w) # {}, NEW b \in snapshots
        PROVE  b.cursor <= upTo
    <3>1. b.cursor \in Nat /\ b.cursor <= Now
      BY DEF SnapshotsAreTrue, Positions, Typed
    <3> QED BY <2>2, <2>3, <2>6, <3>1 DEF BasesAreEarlier
  <2> QED BY <2>1, <2>3, <2>4, <2>5, <2>6, BasesKept
<1>7. ASSUME NEW w \in Workers, ApplyPage(w)
      PROVE  BasesAreEarlier'
  <2>1. session[w] \in SessionRow /\ snapshots' = snapshots
    BY <1>7 DEF Typed, ApplyPage
  <2>2. PICK staged \in BOOLEAN : staged = (session[w].capture /\ Stageable(w))
    BY <2>1 DEF SessionRow
  <2>3. PICK s : s = [session[w] EXCEPT !.pc = "paging", !.page = {},
                                        !.todo = @ \ session[w].page, !.capture = staged]
    OBVIOUS
  <2>4. s.upTo = session[w].upTo /\ s.gen = session[w].gen /\ s.capture = staged
    BY <2>1, <2>3 DEF SessionRow
  <2>5. session' = [session EXCEPT ![w] = s]
    BY <1>7, <2>2, <2>3 DEF ApplyPage
  <2>6. session'[w] = s /\ \A v \in Workers \ {w} : session'[v] = session[v]
    BY <2>5 DEF Typed
  <2>7. ASSUME NEW x \in attempts'
        PROVE  \E a \in attempts : a.gen = x.gen
    <3>1. CASE staged
      <4>1. PICK a \in attempts : x = IF a.gen = session[w].gen
                        THEN [a EXCEPT !.pages = Append(@, session[w].page)] ELSE a
        BY <1>7, <2>2, <2>7, <3>1 DEF ApplyPage
      <4>2. a \in Attempt
        BY DEF Typed
      <4> QED BY <4>1, <4>2 DEF Attempt
    <3>2. CASE ~staged
      BY <1>7, <2>2, <2>7, <3>2 DEF ApplyPage
    <3> QED BY <3>1, <3>2
  <2>8. \A v \in Workers : MyAttempt(v)' # {} => MyAttempt(v) # {}
    BY <2>4, <2>6, <2>7 DEF MyAttempt
  <2>9. s.capture => session[w].capture
    BY <2>2, <2>4
  <2> QED BY <2>1, <2>4, <2>6, <2>8, <2>9, BasesKept DEF BasesAreEarlier
<1>8. ASSUME NEW w \in Workers, FinalizeSourceProjectionPage(w)
      PROVE  BasesAreEarlier'
  <2>1. attempts' = {}
    BY <1>8, Published
  <2> QED BY <2>1 DEF BasesAreEarlier, MyAttempt
<1>9. CASE UNCHANGED vars \/ ProviderChange
  BY <1>1, <1>9 DEF vars, ProviderChange
<1>10. ASSUME NEW o \in Ops, FenceStep(o) \/ ReleaseExclusiveAfterConfirmedRun(o)
       PROVE  BasesAreEarlier'
  <2>1. UNCHANGED <<snapshots, attempts, session>>
    BY <1>10 DEF FenceStep, BeginProjectionMutation, ResolveProjectionMutation,
      BeginExclusiveDispatch, ReleaseExclusiveAfterConfirmedRun, OwnMutation
  <2> QED BY <1>1, <2>1
<1>11. CASE LeaseExpires \/ ScheduleCalendarSync \/ RepairQuarantine
  BY <1>1, <1>11 DEF LeaseExpires, ScheduleCalendarSync, RepairQuarantine
<1>12. CASE SyncStep
  BY <1>3, <1>4, <1>5, <1>6, <1>7, <1>8, <1>11, <1>12 DEF SyncStep
<1> QED BY <1>9, <1>10, <1>12 DEF Next, Ops

-----------------------------------------------------------------------------
(* The run.                                                                *)

(* A run has the key from its start on, and nobody else returns it.        *)
LEMMA ReservedStep ==
    ASSUME IInv, RunIsReserved, [CopyNext]_copyVars
    PROVE  RunIsReserved'
<1> USE DEF RunIsReserved
<1>1. IdleRun \in RunRow /\ IdleRun.pc = "idle"
  BY DEF IdleRun, RunRow
<1>2. CASE UNCHANGED <<run, copied>> /\ (run.pc # "idle" => op'[run.op] = "open")
  BY <1>2
<1>3. CASE run' = IdleRun /\ UNCHANGED copied
  BY <1>1, <1>3
<1>4. CASE UNCHANGED copyVars
  BY <1>2, <1>4 DEF copyVars, vars
<1>5. CASE ProviderChange /\ UNCHANGED <<run, copied>>
  BY <1>2, <1>5 DEF ProviderChange
<1>6. ASSUME NEW o \in Ops \ CopyRuns, FenceStep(o), UNCHANGED <<run, copied>>
      PROVE  RunIsReserved'
  <2>1. op' = op \/ \E status : op' = [op EXCEPT ![o] = status]
    BY <1>6 DEF FenceStep, BeginProjectionMutation, ResolveProjectionMutation,
        BeginExclusiveDispatch, ReleaseExclusiveAfterConfirmedRun, OwnMutation
  <2>2. run.pc # "idle" => run.op # o /\ run.op \in Ops
    BY DEF Ops
  <2>3. run.pc # "idle" => op'[run.op] = op[run.op]
    BY <2>1, <2>2 DEF IInv, Typed
  <2> QED BY <1>2, <1>6, <2>3
<1>7. CASE SyncStep /\ UNCHANGED <<run, copied>>
  <2>1. op' = op
    BY <1>7 DEF SyncStep, LeaseExpires, ScheduleCalendarSync, RepairQuarantine,
          ClaimDueCalendarSync, PlanSourceProjectionCapture, ResetCalendarSync,
          StartProjectionPageAttempt, FetchPage, ApplyPage, ApplyFinalPage,
          FinalizeSourceProjectionPage, DeferCalendarSyncForReservation, FailCalendarSync,
          Abandon
  <2> QED BY <1>2, <1>7, <2>1
<1>8. ASSUME NEW o \in CopyRuns, BeginRun(o)
      PROVE  RunIsReserved'
  <2>1. op' = [op EXCEPT ![o] = "open"] /\ o \in Ops
    BY <1>8 DEF BeginRun, BeginExclusiveDispatch, Ops
  <2>2. run' = [IdleRun EXCEPT !.pc = "reserved", !.op = o] /\ UNCHANGED copied
    BY <1>8 DEF BeginRun
  <2>3. run' \in RunRow /\ run'.op = o
    BY <1>1, <2>2 DEF RunRow
  <2> QED BY <2>1, <2>2, <2>3 DEF IInv, Typed
<1>9. CASE ReadSource
  <2>1. PICK s \in Served :
            run' = [run EXCEPT !.pc = "copying", !.revision = s.revision,
                               !.todo = (s.events \ HasCopy) \cup (Cancelled(s) \cap HasCopy)]
    BY <1>9 DEF ReadSource
  <2>2. s.revision \in Nat /\ s.events \subseteq Instances
    BY DEF Served, ServedFrom, Current, IInv, Typed, Snapshot
  <2>3. (s.events \ HasCopy) \cup (Cancelled(s) \cap HasCopy) \in SUBSET Instances
    BY <2>2 DEF HasCopy
  <2>4. run' \in RunRow /\ run'.op = run.op
    BY <2>1, <2>2, <2>3 DEF RunRow
  <2>5. UNCHANGED <<copied, op>> /\ run.pc # "idle"
    BY <1>9 DEF ReadSource, vars
  <2> QED BY <2>4, <2>5
<1>10. ASSUME NEW i \in Instances, Dispatch(i)
       PROVE  RunIsReserved'
  <2>1. copied' \in [Instances -> Nat]
    <3>1. source.cursor \in Nat
      BY DEF IInv, Typed, SourceRow
    <3>2. \A n \in Nat : (IF n = 0 THEN source.cursor ELSE 0) \in Nat
      BY <3>1
    <3> QED BY <1>10, <3>2 DEF Dispatch
  <2>2. run' = [run EXCEPT !.todo = run.todo \ {i}, !.dispatched = TRUE]
    BY <1>10 DEF Dispatch
  <2>3. run.todo \ {i} \in SUBSET Instances
    BY DEF RunRow
  <2>4. run' \in RunRow /\ run'.op = run.op /\ run'.pc = run.pc
    BY <2>2, <2>3 DEF RunRow
  <2> QED BY <1>10, <2>1, <2>4 DEF Dispatch, vars
<1>11. CASE FinishRun \/ FailRun \/ CrashRun
  BY <1>3, <1>11 DEF FinishRun, FailRun, CrashRun
<1> QED BY <1>4, <1>5, <1>6, <1>7, <1>8, <1>9, <1>10, <1>11 DEF CopyNext

(* The plan is made from the one snapshot there is, which stays while the  *)
(* run holds the key; a call takes its instance out of the plan.           *)
LEMMA PlanStaysCurrent ==
    ASSUME IInv, RunIsReserved, PlanIsCurrent, [CopyNext]_copyVars
    PROVE  PlanIsCurrent'
<1>1. run.pc = "copying" => snapshots' = snapshots
  BY CopyStepIsStep, FrozenStep DEF RunIsReserved
<1>2. CASE UNCHANGED <<run, copied>>
  BY <1>1, <1>2 DEF PlanIsCurrent
<1>3. CASE run'.pc # "copying"
  BY <1>3 DEF PlanIsCurrent
<1>4. CASE ReadSource
  <2>1. PICK s \in Served :
            run' = [run EXCEPT !.pc = "copying", !.revision = s.revision,
                               !.todo = (s.events \ HasCopy) \cup (Cancelled(s) \cap HasCopy)]
    BY <1>4 DEF ReadSource
  <2>2. \A t \in snapshots : t = s
    BY DEF IInv, OneIsKept, Served, ServedFrom, Current
  <2>3. run'.todo = (s.events \ HasCopy) \cup (Cancelled(s) \cap HasCopy)
    BY <2>1 DEF RunIsReserved, RunRow
  <2>4. UNCHANGED <<snapshots, copied>>
    BY <1>4 DEF ReadSource, vars
  <2>5. \A i \in run'.todo : copied[i] # 0 => i \in Cancelled(s)
    <3>1. s.events \subseteq Instances
      BY DEF IInv, Typed, Snapshot, Served, ServedFrom, Current
    <3> QED BY <2>3, <3>1 DEF HasCopy
  <2> QED BY <2>2, <2>4, <2>5 DEF PlanIsCurrent
<1>5. ASSUME NEW i \in Instances, Dispatch(i)
      PROVE  PlanIsCurrent'
  <2>1. run.pc = "copying" /\ snapshots' = snapshots
    BY <1>1, <1>5 DEF Dispatch
  <2>2. run'.revision = run.revision /\ run'.todo = run.todo \ {i}
    BY <1>5 DEF Dispatch, RunIsReserved, RunRow
  <2>3. \A j \in Instances \ {i} : copied'[j] = copied[j]
    BY <1>5 DEF Dispatch, RunIsReserved
  <2>4. run.todo \subseteq Instances
    BY DEF RunIsReserved, RunRow
  <2> QED BY <2>1, <2>2, <2>3, <2>4 DEF PlanIsCurrent
<1>6. ASSUME NEW o \in CopyRuns, BeginRun(o)
      PROVE  run'.pc # "copying"
  BY <1>6 DEF BeginRun, IdleRun
<1>7. CASE FinishRun \/ FailRun \/ CrashRun
  BY <1>3, <1>7 DEF FinishRun, FailRun, CrashRun, IdleRun
<1> QED BY <1>2, <1>3, <1>4, <1>5, <1>6, <1>7 DEF CopyNext, copyVars

-----------------------------------------------------------------------------
(* The theorems.                                                           *)

(* At the start nothing is published and no run is under way. *)
LEMMA CopyInitInv == CopyInit => CopyInv
<1> SUFFICES ASSUME CopyInit PROVE CopyInv
  OBVIOUS
<1>1. IInv
  BY InitInv DEF CopyInit
<1>2. snapshots = {} /\ run = IdleRun /\ copied = [i \in Instances |-> 0]
  BY DEF CopyInit, Init
<1>3. BasesAreEarlier /\ JournalIsTrue /\ PlanIsCurrent
  BY <1>2 DEF BasesAreEarlier, JournalIsTrue, PlanIsCurrent
<1>4. RunIsReserved
  BY <1>2 DEF RunIsReserved, IdleRun, RunRow
<1> QED BY <1>1, <1>3, <1>4 DEF CopyInv

(* Every step of the composition keeps the invariant. *)
LEMMA CopyNextInv == CopyInv /\ [CopyNext]_copyVars => CopyInv'
<1> SUFFICES ASSUME CopyInv, [CopyNext]_copyVars PROVE CopyInv'
  OBVIOUS
<1> USE DEF CopyInv
<1>1. [Next]_vars
  BY CopyStepIsStep
<1>2. IInv'
  BY <1>1, NextInv
<1>3. BasesAreEarlier' /\ JournalIsTrue'
  BY <1>1, BasesStep, JournalStep
<1>4. RunIsReserved' /\ PlanIsCurrent'
  BY ReservedStep, PlanStaysCurrent
<1> QED BY <1>2, <1>3, <1>4

(* The invariant holds in every reachable state. *)
LEMMA CopyReachable == CopySpec => []CopyInv
<1> QED BY CopyInitInv, CopyNextInv, PTL DEF CopySpec

(* Only a call changes what has a copy. *)
LEMMA OnlyCalls ==
    ASSUME [CopyNext]_copyVars, copied' # copied
    PROVE  \E i \in Instances : Dispatch(i)
BY DEF CopyNext, copyVars, BeginRun, ReadSource, FinishRun, FailRun, CrashRun

(* A call is made on the revision that is current and served at that very  *)
(* moment, and a served snapshot has every resolved own mutation           *)
(* (CheckSourceProjectionCurrent).                                         *)
THEOREM CallsAreFresh == CopySpec => CallsSeeOwnMutations
<1>1. CopyInv /\ [CopyNext]_copyVars =>
        [copied' # copied => \A s \in Current, o \in Ops :
            s.revision = run.revision /\ landed[o] <= s.cursor]_copyVars
  <2> SUFFICES ASSUME CopyInv, [CopyNext]_copyVars, copied' # copied,
                      NEW s \in Current, NEW o \in Ops
               PROVE  s.revision = run.revision /\ landed[o] <= s.cursor
    OBVIOUS
  <2>1. PICK t \in Served : t.revision = run.revision
    BY OnlyCalls DEF Dispatch, StillServed
  <2>2. s = t
    BY DEF CopyInv, IInv, OneIsKept, Served, ServedFrom, Current
  <2>3. s \in snapshots /\ s.epoch = guard.epoch
    BY <2>2 DEF Served, ServedFrom, Current
  <2> QED BY <2>1, <2>2, <2>3 DEF CopyInv, IInv, EpochsAreFenced
<1> QED BY <1>1, CopyReachable, PTL DEF CopySpec, CallsSeeOwnMutations

(* A copy is deleted only for an instance that the provider once cancelled *)
(* and that the snapshot of the moment does not hold: the plan was made    *)
(* from that snapshot, and its journal is true (runCachedBatch).           *)
THEOREM OnlyCancelledAreDeleted == CopySpec => DeletionsAreCancellations
<1>1. CopyInv /\ [CopyNext]_copyVars =>
        [\A i \in Instances, s \in Current : Deleted(i) =>
            /\ i \notin Inside(s.cursor)
            /\ \E q \in 1..s.cursor : history[q][i] = "gone"]_copyVars
  <2> SUFFICES ASSUME CopyInv, [CopyNext]_copyVars,
                      NEW i \in Instances, NEW s \in Current, Deleted(i)
               PROVE  /\ i \notin Inside(s.cursor)
                      /\ \E q \in 1..s.cursor : history[q][i] = "gone"
    OBVIOUS
  <2>1. PICK j \in Instances : Dispatch(j)
    BY OnlyCalls DEF Deleted
  <2>2. j = i
    BY <2>1 DEF Deleted, Dispatch, CopyInv, RunIsReserved
  <2>3. run.pc = "copying" /\ i \in run.todo /\ copied[i] # 0
    BY <2>1, <2>2 DEF Dispatch, Deleted
  <2>4. PICK t \in Served : t.revision = run.revision
    BY <2>1 DEF Dispatch, StillServed
  <2>5. s = t /\ s \in snapshots
    BY DEF CopyInv, IInv, OneIsKept, Served, ServedFrom, Current
  <2>6. i \in Cancelled(s)
    BY <2>3, <2>4, <2>5 DEF CopyInv, PlanIsCurrent
  <2>7. i \notin Inside(s.cursor)
    BY <2>5, <2>6 DEF Cancelled, CopyInv, IInv, SnapshotsAreTrue
  <2>8. PICK o \in s.observations : o.cancelled /\ o.instance = i
    BY <2>6 DEF Cancelled
  <2>9. \E q \in 1..s.cursor : history[q][i] = "gone"
    BY <2>5, <2>8 DEF CopyInv, JournalIsTrue
  <2> QED BY <2>7, <2>9
<1> QED BY <1>1, CopyReachable, PTL DEF CopySpec, DeletionsAreCancellations

-----------------------------------------------------------------------------
(* Types and limits of the composition.                                    *)

(* The limits of the projection, and a copy was made from a position that  *)
(* the source's cursor had.                                                *)
CopyBounds == Bounds /\ \A i \in Instances : copied[i] <= MaxHistory

(* A step of the composition keeps them. *)
LEMMA CopyBoundsStep == CopyInv /\ CopyBounds /\ [CopyNext]_copyVars => CopyBounds'
<1> SUFFICES ASSUME CopyInv, CopyBounds, [CopyNext]_copyVars PROVE CopyBounds'
  OBVIOUS
<1>1. Bounds'
  BY CopyStepIsStep, NextBounds DEF CopyInv, CopyBounds
<1>2. source.cursor <= MaxHistory /\ 0 <= MaxHistory
  <2>1. Now \in Nat /\ source.cursor \in 0..Now /\ Now <= MaxHistory /\ MaxHistory \in Nat
    BY ProjectionConstants DEF CopyInv, CopyBounds, Bounds, IInv, Typed
  <2> QED BY <2>1
<1>3. ASSUME NEW i \in Instances
      PROVE  copied'[i] <= MaxHistory
  <2>1. copied \in [Instances -> Nat] /\ copied[i] <= MaxHistory
    BY DEF CopyInv, RunIsReserved, CopyBounds
  <2>2. CASE copied' = copied
    BY <2>1, <2>2
  <2>3. ASSUME NEW j \in Instances, Dispatch(j)
        PROVE  copied'[i] <= MaxHistory
    <3>1. copied'[i] = copied[i] \/ copied'[i] = source.cursor \/ copied'[i] = 0
      BY <2>1, <2>3 DEF Dispatch
    <3> QED BY <1>2, <2>1, <3>1
  <2> QED BY <2>2, <2>3, OnlyCalls
<1> QED BY <1>1, <1>3 DEF CopyBounds

(* The invariant and the limits give the type invariant. *)
LEMMA CopyTypeFollows == CopyInv /\ CopyBounds => CopyTypeOK
<1> SUFFICES ASSUME CopyInv, CopyBounds PROVE CopyTypeOK
  OBVIOUS
<1>1. TypeOK
  BY TypeFollows DEF CopyInv, CopyBounds
<1>2. copied \in [Instances -> 0..MaxHistory]
  <2>1. copied \in [Instances -> Nat] /\ \A i \in Instances : copied[i] <= MaxHistory
    BY DEF CopyInv, RunIsReserved, CopyBounds
  <2>2. \A i \in Instances : copied[i] \in 0..MaxHistory
    BY <2>1, ProjectionConstants
  <2> QED BY <2>1, <2>2
<1>3. run \in RunRow /\ (run.pc # "idle" => op[run.op] = "open")
  BY DEF CopyInv, RunIsReserved
<1> QED BY <1>1, <1>2, <1>3 DEF CopyTypeOK, RunRow

(* The run and the copies keep their types too, and a run that is under    *)
(* way holds the reservation it began with.                                *)
THEOREM CopyTypeCorrect == CopySpec => []CopyTypeOK
<1>1. CopyInit => CopyBounds
  <2> SUFFICES ASSUME CopyInit PROVE CopyBounds
    OBVIOUS
  <2>1. Bounds
    BY InitBounds DEF CopyInit
  <2> QED BY <2>1, ProjectionConstants DEF CopyInit, CopyBounds
<1> QED BY <1>1, CopyBoundsStep, CopyTypeFollows, CopyReachable, PTL DEF CopySpec
=============================================================================
