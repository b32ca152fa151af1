-------------------------- MODULE SourceProjection --------------------------
(***************************************************************************)
(* The copy-safe projection of one Google source calendar: immutable       *)
(* snapshots built from staged event-sync pages, the guard that fences     *)
(* them against this program's own mutations of the calendar, and the      *)
(* global reservation that serializes publication with sync runs           *)
(* (storage/projection_*.go, source_*.go, exclusive_dispatch_fence.go,     *)
(* experimental_exclusive_release.go, calendarprojection/,                 *)
(* eventsync/service.go).                                                  *)
(*                                                                         *)
(* A position is a length of the provider's history and a cursor a         *)
(* position; 0 is the empty cursor.  The calendar's zone and frozen window *)
(* do not change here, so every comparison of them holds.                  *)
(***************************************************************************)
EXTENDS Naturals, Sequences, FiniteSets

CONSTANTS
    Instances,    \* event instances of the calendar, by occurrence identity
    Workers,      \* event-sync runs
    Fences,       \* projection mutation IDs: guard and intent, no reservation
    SourceRuns,   \* exclusive dispatches of sync runs that write this calendar
    CopyRuns,     \* exclusive dispatches of sync runs that write another calendar
    MaxHistory,   \* bound on the provider's history
    MaxGen,       \* bound on calendar_sync_state.generation
    MaxPending,   \* maxPendingProjectionMutations
    MaxAttempts,  \* projectionAttemptCountLimit
    MaxRevisions, \* maxProjectionSnapshotRevisions
    Warnings,     \* TRUE: a page may carry object warnings
    None          \* no worker

Ops == Fences \cup SourceRuns \cup CopyRuns

ASSUME ProjectionConstants ==
    /\ None \notin Workers
    /\ Fences \cap SourceRuns = {} /\ CopyRuns \cap (Fences \cup SourceRuns) = {}
    /\ MaxHistory \in Nat \ {0} /\ MaxGen \in Nat /\ MaxPending \in Nat \ {0}
    \* 8 and 2 in the code: one attempt and one snapshot always fit
    /\ MaxAttempts \in Nat \ {0, 1} /\ MaxRevisions \in Nat \ {0, 1}
    /\ Warnings \in BOOLEAN

VARIABLES
    history,      \* provider: Seq of [Instances -> Place]
    op,           \* the operation ledger: [Ops -> {"new", "open", "done"}]
    landed,       \* position at which an operation's provider call landed, 0 for none
    source,       \* the calendar_sync_state row
    quarantined,  \* an active calendar_sync_quarantine row
    guard,        \* projection_mutation_guards: [epoch, revision]
    snapshots,    \* verified projection_snapshots with their provenance
    attempts,     \* projection_page_attempts with their pages
    session       \* RunOne's locals, per worker

provider == <<history, landed>>
vars == <<history, op, landed, source, quarantined, guard, snapshots, attempts, session>>

(* in and out: a live instance inside or outside the frozen window. *)
Place == {"in", "out", "gone"}
Now == Len(history)
Inside(p) == {i \in Instances : history[p][i] = "in"}

IdleSession == [pc |-> "idle", gen |-> 0, cursor |-> 0, epoch |-> 0, base |-> 0,
                capture |-> FALSE, upTo |-> 0, todo |-> {}, page |-> {}, degraded |-> FALSE]

Observation == [instance : Instances, cancelled : BOOLEAN, resolved : BOOLEAN]
Snapshot == [revision : Nat, epoch : Nat, cursor : Nat,
             events : SUBSET Instances, observations : SUBSET Observation]
Attempt == [gen : Nat, base : Nat, cursor : Nat, epoch : Nat,
            pages : Seq(SUBSET Instances)]

(* The intents that protect this calendar, and who holds the global key. *)
Intents == {o \in Fences \cup SourceRuns : op[o] = "open"}
Holders == {o \in SourceRuns \cup CopyRuns : op[o] = "open"}

TypeOK ==
    /\ history \in Seq([Instances -> Place]) /\ Now \in 1..MaxHistory
    /\ op \in [Ops -> {"new", "open", "done"}] /\ landed \in [Ops -> 0..MaxHistory]
    /\ Cardinality(Intents) <= MaxPending /\ Cardinality(Holders) <= 1
    /\ source \in [gen : 0..MaxGen, cursor : 0..MaxHistory, owner : Workers \cup {None},
                   status : {"pending", "syncing", "ready", "degraded", "failed"},
                   lease : {"none", "live", "expired"}]
    /\ quarantined \in BOOLEAN /\ guard \in [epoch : Nat, revision : Nat]
    /\ snapshots \subseteq Snapshot /\ attempts \subseteq Attempt
    /\ \A w \in Workers :
        /\ session[w].pc \in {"idle", "claimed", "reset", "planned", "paging", "page"}
        /\ session[w].page \cup session[w].todo \subseteq Instances

Init ==
    /\ history = <<[i \in Instances |-> "in"]>>
    /\ op = [o \in Ops |-> "new"] /\ landed = [o \in Ops |-> 0]
    /\ source = [gen |-> 0, cursor |-> 0, status |-> "pending", owner |-> None, lease |-> "none"]
    /\ quarantined = FALSE
    /\ guard = [epoch |-> 0, revision |-> 0]
    /\ snapshots = {} /\ attempts = {}
    /\ session = [w \in Workers |-> IdleSession]

-----------------------------------------------------------------------------
(* The provider.                                                           *)

ChangedTo(i, place) ==
    /\ Now < MaxHistory /\ history[Now][i] # place
    /\ history' = Append(history, [history[Now] EXCEPT ![i] = place])

(* Anyone may change the calendar at any time. *)
ProviderChange ==
    /\ \E i \in Instances, place \in Place : ChangedTo(i, place)
    /\ UNCHANGED <<op, landed, source, quarantined, guard, snapshots, attempts, session>>

(* A call of this program on the calendar, made under an open operation. *)
OwnMutation(o) ==
    /\ op[o] = "open" /\ landed[o] = 0
    /\ \E i \in Instances, place \in Place : ChangedTo(i, place)
    /\ landed' = [landed EXCEPT ![o] = Now + 1]
    /\ UNCHANGED <<op, source, quarantined, guard, snapshots, attempts, session>>

(* The instances a listing reports: those changed since the cursor, or on  *)
(* a replacement the live ones inside the window.                          *)
Listed(cursor, p) ==
    IF cursor = 0 THEN Inside(p)
    ELSE {i \in Instances : \E q \in (cursor + 1)..p : history[q][i] # history[q - 1][i]}

-----------------------------------------------------------------------------
(* Mutation fences.                                                        *)

(* Faulty: the epoch stays where it was. *)
NotAdvanced(n) == guard
(* advanceProjectionMutationGuard, n times. *)
Advanced(n) == [guard EXCEPT !.epoch = @ + n]

BelowLimit(limit) == Cardinality(Intents) < limit

(* beginProjectionMutation, BeginProjectionMutationMany: the intent is     *)
(* committed before the provider is called.                                *)
BeginProjectionMutation(o) ==
    /\ op[o] = "new" /\ BelowLimit(MaxPending)
    /\ op' = [op EXCEPT ![o] = "open"]
    /\ guard' = Advanced(1)
    /\ UNCHANGED <<provider, source, quarantined, snapshots, attempts, session>>

(* BeginExclusiveDispatch: one open holder of the global key; the guards   *)
(* of the calendars it writes advance in the same transaction.             *)
BeginExclusiveDispatch(o) ==
    /\ op[o] = "new" /\ Holders = {}
    /\ o \in SourceRuns => BelowLimit(MaxPending)
    /\ op' = [op EXCEPT ![o] = "open"]
    /\ guard' = IF o \in SourceRuns THEN Advanced(1) ELSE guard
    /\ UNCHANGED <<provider, source, quarantined, snapshots, attempts, session>>

Released(row) == [row EXCEPT !.owner = None, !.lease = "none"]

(* ResolveProjectionMutationManyAndSchedule and the release of a run that  *)
(* wrote the calendar: a full sync is due and any current claim is void.   *)
Restarted(row) ==
    Released([row EXCEPT !.cursor = 0, !.gen = @ + 1, !.status = "pending"])

(* resolveProjectionMutation leaves the sync row alone; the multi-calendar *)
(* form restarts it.                                                       *)
ResolveProjectionMutation(o) ==
    /\ op[o] = "open"
    /\ op' = [op EXCEPT ![o] = "done"]
    /\ guard' = Advanced(1)
    /\ source' \in {source} \cup {r \in {Restarted(source)} : r.gen <= MaxGen}
    /\ UNCHANGED <<provider, quarantined, snapshots, attempts, session>>

(* ReleaseExclusiveAfterConfirmedRun.  A run whose outcome is unknown is   *)
(* never released: its operation stays open for ever.                      *)
ReleaseExclusiveAfterConfirmedRun(o) ==
    /\ op[o] = "open"
    /\ op' = [op EXCEPT ![o] = "done"]
    /\ IF o \in SourceRuns
       THEN /\ source.gen < MaxGen
            /\ guard' = Advanced(1) /\ source' = Restarted(source)
       ELSE UNCHANGED <<guard, source>>
    /\ UNCHANGED <<provider, quarantined, snapshots, attempts, session>>

-----------------------------------------------------------------------------
(* The sync row.                                                           *)

Leased == source.lease = "live"
(* lockCalendarSyncLease *)
Holds(w) ==
    /\ source.status = "syncing" /\ Leased
    /\ source.owner = w /\ source.gen = session[w].gen

LeaseExpires ==
    /\ Leased /\ source' = [source EXCEPT !.lease = "expired"]
    /\ UNCHANGED <<provider, op, quarantined, guard, snapshots, attempts, session>>

(* ScheduleCalendarSync; a live lease wins. *)
ScheduleCalendarSync ==
    /\ ~Leased /\ source.gen < MaxGen
    /\ \E reset \in BOOLEAN :
        source' = IF reset THEN Restarted(source)
                           ELSE Released([source EXCEPT !.status = "pending"])
    /\ UNCHANGED <<provider, op, quarantined, guard, snapshots, attempts, session>>

(* ClaimDueCalendarSync: the source of a copy rule is not claimed while a  *)
(* run holds the global key (acquireSourceStateFenceTx).                   *)
ClaimDueCalendarSync(w) ==
    /\ session[w].pc = "idle" /\ ~Leased /\ Holders = {} /\ source.gen < MaxGen
    /\ source' = [source EXCEPT !.gen = @ + 1, !.status = "syncing",
                                !.owner = w, !.lease = "live"]
    /\ session' = [session EXCEPT ![w] =
            [IdleSession EXCEPT !.pc = "claimed", !.gen = source.gen + 1, !.cursor = source.cursor]]
    /\ UNCHANGED <<provider, op, quarantined, guard, snapshots, attempts>>

(* The run is over; the row is left in this status. *)
Ends(w, status) ==
    /\ source' = Released([source EXCEPT !.status = status])
    /\ session' = [session EXCEPT ![w] = IdleSession]

FailCalendarSync(w) ==
    /\ session[w].pc # "idle" /\ Holds(w)
    /\ Ends(w, "failed")
    /\ UNCHANGED <<provider, op, quarantined, guard, snapshots, attempts>>

(* A run that finds its claim gone, is cancelled or crashes just stops. *)
Abandon(w) ==
    /\ session[w].pc # "idle"
    /\ session' = [session EXCEPT ![w] = IdleSession]
    /\ UNCHANGED <<provider, op, source, quarantined, guard, snapshots, attempts>>

(* ApplyEventSyncObjectRepair of the last quarantined object. *)
RepairQuarantine ==
    /\ quarantined /\ quarantined' = FALSE
    /\ UNCHANGED <<provider, op, source, guard, snapshots, attempts, session>>

-----------------------------------------------------------------------------
(* One event-sync run with projection capture.                             *)

Current == {s \in snapshots : s.revision = guard.revision}

(* Faulty: any published snapshot will do as a base. *)
AnyBase(s, cursor, epoch) == TRUE
(* An incremental attempt extends exactly the snapshot its cursor ended.   *)
Matches(s, cursor, epoch) == s.cursor = cursor /\ s.epoch = epoch

(* PlanSourceProjectionCapture; a cursor without a matching snapshot asks  *)
(* for a full replacement.                                                 *)
PlanSourceProjectionCapture(w) ==
    LET s == session[w]
        reset == s.cursor # 0 /\ ~\E b \in Current : Matches(b, s.cursor, guard.epoch)
    IN  /\ s.pc = "claimed"
        /\ session' = [session EXCEPT ![w].pc = IF reset THEN "reset" ELSE "planned",
                                      ![w].epoch = guard.epoch, ![w].base = guard.revision]
        /\ UNCHANGED <<provider, op, source, quarantined, guard, snapshots, attempts>>

(* ResetCalendarSync, for the capture or because the provider asked; the   *)
(* run plans its capture again.                                            *)
ResetCalendarSync(w) ==
    /\ session[w].pc \in {"reset", "paging"} /\ Holds(w) /\ source.gen < MaxGen
    /\ source' = [source EXCEPT !.cursor = 0, !.gen = @ + 1]
    /\ session' = [session EXCEPT ![w] = [IdleSession EXCEPT !.pc = "claimed", !.gen = source.gen + 1]]
    /\ UNCHANGED <<provider, op, quarantined, guard, snapshots, attempts>>

(* lockProjectionSnapshotGuard and the comparison with the sync row. *)
GuardUnmoved(cursor, epoch, base) ==
    /\ source.cursor = cursor
    /\ guard = [epoch |-> epoch, revision |-> base] /\ Intents = {}

BaseUsable(cursor, epoch, base) ==
    /\ cursor # 0 => base # 0
    /\ base # 0 => \E b \in snapshots : b.revision = base /\ (cursor # 0 => Matches(b, cursor, epoch))

(* Faulty: the attempts of older generations are kept. *)
AllAttempts(gen) == attempts
AttemptsFrom(gen) == {a \in attempts : a.gen >= gen}

(* StartProjectionPageAttempt; when it fails the run goes on without a     *)
(* capture.                                                                *)
StartProjectionPageAttempt(w) ==
    LET s == session[w]
        kept == AttemptsFrom(s.gen)
        starts == /\ GuardUnmoved(s.cursor, s.epoch, s.base)
                  /\ BaseUsable(s.cursor, s.epoch, s.base)
                  /\ Cardinality(kept) < MaxAttempts
    IN  /\ s.pc = "planned" /\ Holds(w)
        /\ attempts' = IF starts
                       THEN kept \cup {[gen |-> s.gen, base |-> s.base, cursor |-> s.cursor,
                                        epoch |-> s.epoch, pages |-> <<>>]}
                       ELSE attempts
        /\ session' = [session EXCEPT ![w].pc = "paging", ![w].capture = starts]
        /\ UNCHANGED <<provider, op, source, quarantined, guard, snapshots>>

(* The provider fixes what a listing reports when its first page is read.  *)
(* The run ends with the page that holds all that is left.                 *)
FetchPage(w) ==
    LET s == session[w]
        upTo == IF s.upTo = 0 THEN Now ELSE s.upTo
        todo == IF s.upTo = 0 THEN Listed(s.cursor, Now) ELSE s.todo
    IN  /\ s.pc = "paging"
        /\ \E page \in SUBSET todo, warned \in {FALSE, Warnings} :
            /\ page # {} \/ todo = {}
            /\ session' = [session EXCEPT ![w] =
                    [s EXCEPT !.pc = "page", !.upTo = upTo, !.todo = todo, !.page = page,
                              !.degraded = s.degraded \/ warned,
                              !.capture = s.capture /\ ~s.degraded /\ ~warned]]
        /\ UNCHANGED <<provider, op, source, quarantined, guard, snapshots, attempts>>

MyAttempt(w) == {a \in attempts : a.gen = session[w].gen}

(* What appendProjectionPageTx asks of the run's attempt. *)
Stageable(w) ==
    \E a \in MyAttempt(w) : GuardUnmoved(a.cursor, a.epoch, a.base)

(* A page that is not the last: staged and applied in one transaction; if  *)
(* staging fails the page is applied alone and the capture is given up.    *)
ApplyPage(w) ==
    LET s == session[w]
        staged == s.capture /\ Stageable(w)
    IN  /\ s.pc = "page" /\ s.page # s.todo /\ Holds(w)
        /\ attempts' = IF staged
                       THEN {IF a.gen = s.gen THEN [a EXCEPT !.pages = Append(@, s.page)] ELSE a :
                                a \in attempts}
                       ELSE attempts
        /\ session' = [session EXCEPT ![w] = [s EXCEPT !.pc = "paging", !.page = {},
                                              !.todo = @ \ s.page, !.capture = staged]]
        /\ quarantined' = (quarantined \/ s.degraded)
        /\ UNCHANGED <<provider, op, source, guard, snapshots>>

-----------------------------------------------------------------------------
(* Publication.                                                            *)

(* Materialize: the base, if any, with the staged changes; a removal is    *)
(* resolved when the base held the instance.                               *)
Changed(a, last) == last \cup UNION {a.pages[n] : n \in DOMAIN a.pages}
BaseEvents(a) == IF a.cursor = 0 THEN {}
                 ELSE UNION {b.events : b \in {s \in snapshots : s.revision = a.base}}
MaterializedEvents(a, changed, p) ==
    (BaseEvents(a) \ changed) \cup (changed \cap Inside(p))
Removals(a, changed, p) ==
    {[instance |-> i, cancelled |-> history[p][i] = "gone", resolved |-> i \in BaseEvents(a)] :
        i \in changed \ Inside(p)}

(* Faulty: the new snapshot carries its own removals only. *)
OnlyNewObservations(a, new) == new
(* Every earlier observation is retained. *)
AllObservations(a, new) ==
    new \cup UNION {b.observations : b \in {s \in snapshots : s.revision = a.base}}

(* retireSourceSnapshotTx: a staged attempt protects its base. *)
Retirable(s, others) == \A a \in others : a.base # s.revision
(* releaseRetainedSourceCapacityTx: older snapshots whose observations are  *)
(* all carried forward.                                                    *)
Retained(a, observations) ==
    {s \in snapshots : s.revision < a.base /\ s.observations \subseteq observations
                           => ~Retirable(s, attempts)}

(* Faulty: the finalizer takes no reservation. *)
NeverBlocked == FALSE
(* finalizeSourceProjectionPage takes the global key for its transaction.  *)
PublicationBlocked == Holders # {}

(* What prepareProjectionFinalizationTx and the capacity limit ask. *)
Publishable(w) ==
    /\ Stageable(w) /\ ~quarantined
    /\ \A a \in MyAttempt(w) :
        /\ BaseUsable(a.cursor, a.epoch, a.base)
        /\ LET new == Removals(a, Changed(a, session[w].page), session[w].upTo)
           IN  Cardinality(Retained(a, AllObservations(a, new))) < MaxRevisions

(* FinalizeSourceProjectionPage: the last page, the snapshot, its journal, *)
(* the guard's revision and the cursor are one transaction.                *)
FinalizeSourceProjectionPage(w) ==
    LET s == session[w]
    IN  /\ s.pc = "page" /\ s.page = s.todo /\ s.capture
        /\ Holds(w) /\ ~PublicationBlocked /\ Publishable(w)
        /\ \E a \in MyAttempt(w) :
            LET changed == Changed(a, s.page)
                observations == AllObservations(a, Removals(a, changed, s.upTo))
                others == attempts \ {a}
                new == [revision |-> a.base + 1, epoch |-> a.epoch, cursor |-> s.upTo,
                        events |-> MaterializedEvents(a, changed, s.upTo),
                        observations |-> observations]
            IN  /\ snapshots' = {new} \cup {o \in Retained(a, observations) :
                                                o.revision = a.base => ~Retirable(o, others)}
                /\ guard' = [guard EXCEPT !.revision = a.base + 1]
                /\ attempts' = others
        /\ source' = Released([source EXCEPT !.cursor = s.upTo, !.status = "ready"])
        /\ session' = [session EXCEPT ![w] = IdleSession]
        /\ UNCHANGED <<provider, op, quarantined>>

(* The last page without a capture: the read model and its cursor advance, *)
(* no snapshot is published.  With warnings the cursor stays.              *)
ApplyFinalPage(w) ==
    LET s == session[w]
        degraded == quarantined \/ s.degraded
    IN  /\ s.pc = "page" /\ s.page = s.todo /\ Holds(w)
        /\ s.capture => ~PublicationBlocked /\ ~Publishable(w)
        /\ source' = Released([source EXCEPT
                !.cursor = IF degraded THEN s.cursor ELSE s.upTo,
                !.status = IF degraded THEN "degraded" ELSE "ready"])
        /\ quarantined' = degraded
        /\ session' = [session EXCEPT ![w] = IdleSession]
        /\ UNCHANGED <<provider, op, guard, snapshots, attempts>>

(* getSourceProjectionForCopy without its freshness limit: the current     *)
(* snapshot of a ready, clean, unfenced source whose cursor it ends at.    *)
ServedFrom(status) ==
    {s \in Current : /\ status = "ready" /\ Intents = {} /\ ~quarantined
                     /\ s.epoch = guard.epoch /\ s.cursor = source.cursor}
Served == ServedFrom(source.status)

(* DeferCalendarSyncForReservation: a publication that meets a reservation *)
(* gives its claim back, cursor and snapshot unchanged.                    *)
DeferCalendarSyncForReservation(w) ==
    LET s == session[w]
    IN  /\ s.pc = "page" /\ s.page = s.todo /\ s.capture
        /\ Holds(w) /\ PublicationBlocked
        /\ Ends(w, CASE quarantined -> "degraded"
                     [] ServedFrom("ready") # {} -> "ready"
                     [] OTHER -> "pending")
        /\ UNCHANGED <<provider, op, quarantined, guard, snapshots, attempts>>

-----------------------------------------------------------------------------
FenceStep(o) ==
    \/ o \in Fences /\ (BeginProjectionMutation(o) \/ ResolveProjectionMutation(o))
    \/ o \in SourceRuns \cup CopyRuns /\ BeginExclusiveDispatch(o)
    \/ o \in SourceRuns /\ ReleaseExclusiveAfterConfirmedRun(o)
    \/ o \in Fences \cup SourceRuns /\ OwnMutation(o)

SyncStep ==
    \/ LeaseExpires
    \/ ScheduleCalendarSync
    \/ RepairQuarantine
    \/ \E w \in Workers :
        \/ ClaimDueCalendarSync(w)
        \/ PlanSourceProjectionCapture(w)
        \/ ResetCalendarSync(w)
        \/ StartProjectionPageAttempt(w)
        \/ FetchPage(w)
        \/ ApplyPage(w)
        \/ FinalizeSourceProjectionPage(w)
        \/ ApplyFinalPage(w)
        \/ DeferCalendarSyncForReservation(w)
        \/ FailCalendarSync(w)
        \/ Abandon(w)

Next ==
    \/ ProviderChange
    \/ \E o \in Ops : FenceStep(o)
    \/ \E o \in CopyRuns : ReleaseExclusiveAfterConfirmedRun(o)
    \/ SyncStep

Spec == Init /\ [][Next]_vars

-----------------------------------------------------------------------------
(* Properties.                                                             *)

(* A verified snapshot is exactly the calendar at its cursor, whatever     *)
(* failed, restarted or was applied without a capture in between           *)
(* (Materialize over StartProjectionPageAttempt's base).                   *)
SnapshotIsProviderState == \A s \in snapshots : s.events = Inside(s.cursor)

(* No snapshot read before this program's own mutation of the calendar is  *)
(* served once that mutation is resolved, and none while it is open        *)
(* (projection_mutation_guards.epoch against the staged attempt).          *)
ServedIncludesOwnMutations ==
    \A s \in Served, o \in Ops : landed[o] <= s.cursor

(* While a sync run holds the global key the published revision does not   *)
(* move under it (GlobalSyncDispatchKey: "serializes worker sync runs with *)
(* verified source publication").                                          *)
RevisionIsFrozen ==
    [][\A o \in SourceRuns \cup CopyRuns : op[o] = "open" /\ op'[o] = "open" =>
        guard'.revision = guard.revision /\ snapshots' = snapshots]_vars

(* The journal of removals only grows, over incremental runs, replacements *)
(* and retirement of old snapshots ("Keep every previous observation").    *)
RemovalsAreKept ==
    [][\A s \in snapshots, t \in snapshots' :
        s.revision = guard.revision /\ t.revision = guard'.revision =>
            s.observations \subseteq t.observations]_vars

(* The guard's revision is always there to be read, and leftovers of       *)
(* crashed or superseded runs never use up the capacity for attempts and   *)
(* snapshots, so no capture is refused for want of it.                     *)
CapacityIsLeft ==
    /\ guard.revision # 0 => Current # {}
    /\ Cardinality(attempts) < MaxAttempts
    /\ Cardinality(snapshots) < MaxRevisions
=============================================================================
