----------------------- MODULE EventReadModel_proofs -----------------------
(***************************************************************************)
(* Proofs about EventReadModel for every set of objects, events and        *)
(* workers and every bound, in four layers:                                *)
(*   - ReadyIsClean, from the status of the calendar_sync_state row and    *)
(*     the quarantine alone (IInv);                                        *)
(*   - the types of all variables (Typed);                                 *)
(*   - the filing of rows under their objects (RowsAreFiled), for the      *)
(*     properties of single pages;                                         *)
(*   - what the run that holds the claim has brought so far (FeedInv), for *)
(*     the cursor and the sweep of a replacement.                          *)
(***************************************************************************)
EXTENDS EventReadModel, TLAPS

Columns == {"cursor", "gen", "status", "owner", "lease"}

Shaped(row) == row = [c \in Columns |-> row[c]]

(* The row keeps its columns, and its status agrees with the quarantine. *)
IInv == Shaped(sync) /\ ReadyIsClean

-----------------------------------------------------------------------------
(* An update of a shaped row is shaped and leaves the other columns alone. *)

(* Giving a lease up keeps the other columns of the row (Unowned). *)
LEMMA UnownedColumns ==
    ASSUME NEW row, Shaped(row)
    PROVE  /\ Shaped(Unowned(row))
           /\ Unowned(row).status = row.status
BY DEF Shaped, Unowned, Columns

(* Writing the status column changes that column only. *)
LEMMA StatusColumn ==
    ASSUME NEW row, Shaped(row), NEW status
    PROVE  /\ Shaped([row EXCEPT !.status = status])
           /\ [row EXCEPT !.status = status].status = status
BY DEF Shaped, Columns

(* A row made due is pending and unowned (ScheduleCalendarSync). *)
LEMMA ScheduledColumns ==
    ASSUME NEW row, Shaped(row)
    PROVE  /\ Shaped(Scheduled(row))
           /\ Scheduled(row).status = "pending"
<1>1. Shaped([row EXCEPT !.status = "pending"])
    /\ [row EXCEPT !.status = "pending"].status = "pending"
  BY StatusColumn
<1>. QED
  BY <1>1, UnownedColumns DEF Scheduled

(* A rebased row is never ready: it is pending or stays parked (Rebased). *)
LEMMA RebasedColumns ==
    ASSUME NEW row, Shaped(row)
    PROVE  /\ Shaped(Rebased(row))
           /\ Rebased(row).status # "ready"
<1>. DEFINE status == IF row.status \in Parked THEN row.status ELSE "pending"
<1>. DEFINE rebased == [row EXCEPT !.cursor = 0, !.gen = @ + 1, !.status = status]
<1>1. Shaped(rebased) /\ rebased.status = status
  BY DEF Shaped, Columns
<1>2. Rebased(row) = Unowned(rebased)
  BY DEF Rebased, Shaped, Columns
<1>3. status # "ready"
  BY DEF Parked
<1>. QED
  BY <1>1, <1>2, <1>3, UnownedColumns

-----------------------------------------------------------------------------
(* A new calendar is pending. *)
LEMMA InitReady == Init => IInv
BY DEF Init, IInv, Shaped, Columns, ReadyIsClean

(* Frame: what leaves the row and the quarantine alone keeps the invariant. *)
LEMMA StoreUnchanged ==
    ASSUME IInv, UNCHANGED <<sync, quarantine>>
    PROVE  IInv'
BY DEF IInv, ReadyIsClean

(* Any row that is not ready satisfies the invariant whatever is quarantined. *)
LEMMA NotReady ==
    ASSUME Shaped(sync'), sync'.status # "ready"
    PROVE  IInv'
BY DEF IInv, ReadyIsClean

(* A write under the lease finds the row syncing, hence not ready (Holds). *)
LEMMA HeldIsNotReady ==
    ASSUME NEW w \in Workers, IInv, Holds(w), UNCHANGED sync
    PROVE  IInv'
<1>1. Shaped(sync') /\ sync'.status # "ready"
  BY DEF IInv, Holds
<1>. QED
  BY <1>1, NotReady

(* The terminal page: ready only without active quarantine (finalDegraded). *)
LEMMA FinalPageReady ==
    ASSUME NEW w \in Workers, IInv, ApplyFinalPage(w)
    PROVE  IInv'
<1>. DEFINE s == session[w]
            active == Quarantined(s.body)
            degraded == s.degraded \/ active # {}
            next == IF s.cursor = 0 /\ Cursorless THEN 0 ELSE s.upTo
            status == IF degraded THEN "degraded" ELSE "ready"
            finished == [sync EXCEPT !.cursor = IF degraded THEN s.cursor ELSE next,
                                     !.status = status]
<1>1. Shaped(sync)
  BY DEF IInv
<1>2. Shaped(finished) /\ finished.status = status
  BY <1>1 DEF Shaped, Columns
<1>3. sync' = Unowned(finished) /\ quarantine' = active
  BY DEF ApplyFinalPage
<1>4. Shaped(sync') /\ sync'.status = status
  BY <1>2, <1>3, UnownedColumns
<1>5. status = "ready" => active = {}
  OBVIOUS
<1>. QED
  BY <1>3, <1>4, <1>5 DEF IInv, ReadyIsClean

(* The claim given back to a reservation looks at the quarantine first. *)
LEMMA DeferReady ==
    ASSUME NEW w \in Workers, IInv, DeferCalendarSyncForReservation(w)
    PROVE  IInv'
<1>1. PICK status \in {"pending", "ready", "degraded"} :
        /\ status = "degraded" <=> quarantine # {}
        /\ sync' = Unowned([sync EXCEPT !.status = status])
  BY DEF DeferCalendarSyncForReservation
<1>2. Shaped(sync)
  BY DEF IInv
<1>3. Shaped([sync EXCEPT !.status = status]) /\ [sync EXCEPT !.status = status].status = status
  BY <1>2, StatusColumn
<1>4. Shaped(sync') /\ sync'.status = status
  BY <1>1, <1>3, UnownedColumns
<1>5. quarantine' = quarantine
  BY DEF DeferCalendarSyncForReservation
<1>. QED
  BY <1>1, <1>4, <1>5 DEF IInv, ReadyIsClean

(* The row operations of other processes leave a row that is not ready, or *)
(* the row and the quarantine as they are.                                 *)
LEMMA RowOperationReady ==
    ASSUME IInv,
           \/ LeaseExpires
           \/ EnsureCalendarSyncStates
           \/ ScheduleCalendarSync
           \/ SetCalendarEnabled
           \/ UpdateConnectionVerification
           \/ ScheduleAfterWrite
           \/ \E w \in Workers : ClaimDueCalendarSync(w)
           \/ \E w \in Workers : FailRun(w)
    PROVE  IInv'
<1>. USE DEF IInv
<1>1. CASE LeaseExpires
  <2>1. Shaped(sync') /\ sync'.status = sync.status /\ quarantine' = quarantine
    BY <1>1 DEF LeaseExpires, store, Shaped, Columns
  <2>. QED
    BY <2>1 DEF ReadyIsClean
<1>2. CASE EnsureCalendarSyncStates
  BY <1>2, RebasedColumns, NotReady DEF EnsureCalendarSyncStates
<1>3. CASE ScheduleCalendarSync
  BY <1>3, ScheduledColumns, NotReady DEF ScheduleCalendarSync
<1>4. CASE SetCalendarEnabled
  <2>. DEFINE status == IF enabled' \/ sync.status \notin Parked THEN "pending" ELSE sync.status
              row == [sync EXCEPT !.cursor = 0, !.gen = @ + 1, !.status = status]
  <2>1. Shaped(row) /\ row.status = status
    BY DEF Shaped, Columns
  <2>2. sync' = Unowned(row)
    BY <1>4 DEF SetCalendarEnabled, Shaped, Columns
  <2>3. status # "ready"
    BY DEF Parked
  <2>. QED
    BY <2>1, <2>2, <2>3, UnownedColumns, NotReady
<1>5. CASE UpdateConnectionVerification
  BY <1>5, StatusColumn, NotReady DEF UpdateConnectionVerification
<1>6. CASE ScheduleAfterWrite
  <2>1. CASE enabled /\ ~Leased
    BY <1>6, <2>1, ScheduledColumns, NotReady DEF ScheduleAfterWrite
  <2>2. CASE ~(enabled /\ ~Leased)
    BY <1>6, <2>2, StoreUnchanged DEF ScheduleAfterWrite
  <2>. QED
    BY <2>1, <2>2
<1>7. ASSUME NEW w \in Workers, ClaimDueCalendarSync(w) PROVE IInv'
  <2>1. Shaped(sync') /\ sync'.status = "syncing"
    BY <1>7 DEF ClaimDueCalendarSync, Shaped, Columns
  <2>. QED
    BY <2>1, NotReady
<1>8. ASSUME NEW w \in Workers, FailRun(w) PROVE IInv'
  <2>1. PICK status \in {"failed"} \cup Parked : sync' = Unowned([sync EXCEPT !.status = status])
    BY <1>8 DEF FailRun
  <2>2. status # "ready"
    BY DEF Parked
  <2>3. Shaped([sync EXCEPT !.status = status]) /\ [sync EXCEPT !.status = status].status = status
    BY StatusColumn
  <2>. QED
    BY <2>1, <2>2, <2>3, UnownedColumns, NotReady
<1>. QED
  BY <1>1, <1>2, <1>3, <1>4, <1>5, <1>6, <1>7, <1>8

(* The steps of a run: its writes find the row syncing, its reads change    *)
(* neither the row nor the quarantine.                                     *)
LEMMA RunStepReady ==
    ASSUME NEW w \in Workers, IInv,
           \/ RunStep(w)
           \/ ProviderReset(w)
           \/ CaptureReset(w)
           \/ Cancelled(w)
    PROVE  IInv'
<1>1. CASE ApplyEventSyncObjectRepair(w)
  BY <1>1, HeldIsNotReady DEF ApplyEventSyncObjectRepair
<1>2. CASE ApplyPage(w)
  BY <1>2, HeldIsNotReady DEF ApplyPage
<1>3. CASE ApplyFinalPage(w)
  BY <1>3, FinalPageReady
<1>4. CASE \/ \E o \in Objects : ReadRepair(w, o)
           \/ NothingToRepair(w)
           \/ FetchPage(w)
           \/ LeaseLost(w)
           \/ Cancelled(w)
  BY <1>4, StoreUnchanged DEF ReadRepair, NothingToRepair, FetchPage, LeaseLost, Cancelled, store
<1>5. CASE ProviderReset(w) \/ CaptureReset(w)
  <2>1. PICK resets : ResetCalendarSync(w, resets)
    BY <1>5 DEF ProviderReset, CaptureReset
  <2>2. Shaped(sync') /\ sync'.status = "syncing"
    BY <2>1 DEF ResetCalendarSync, Holds, IInv, Shaped, Columns
  <2>. QED
    BY <2>2, NotReady
<1>. QED
  BY <1>1, <1>2, <1>3, <1>4, <1>5 DEF RunStep

(* No step reports a calendar ready while an object of it is quarantined. *)
LEMMA NextReady == IInv /\ [Next]_vars => IInv'
<1>. SUFFICES ASSUME IInv, [Next]_vars PROVE IInv'
  OBVIOUS
<1>1. CASE UNCHANGED vars
  BY <1>1, StoreUnchanged DEF vars
<1>2. CASE (\E o \in Objects : ProviderChange(o)) \/ (\E e \in Events : UIMutation(e))
  BY <1>2, StoreUnchanged DEF ProviderChange, UIMutation, store
<1>3. CASE UpsertCachedEvent \/ DeleteCachedEvent \/ LeaveToSync \/ ForgetWrite
  BY <1>3, StoreUnchanged DEF UpsertCachedEvent, DeleteCachedEvent, LeaveToSync, ForgetWrite, store
<1>4. CASE \/ LeaseExpires
           \/ EnsureCalendarSyncStates
           \/ ScheduleCalendarSync
           \/ SetCalendarEnabled
           \/ UpdateConnectionVerification
           \/ ScheduleAfterWrite
  BY <1>4, RowOperationReady
<1>5. ASSUME NEW w \in Workers, ClaimDueCalendarSync(w) \/ FailRun(w) PROVE IInv'
  BY <1>5, RowOperationReady
<1>6. ASSUME NEW w \in Workers, DeferCalendarSyncForReservation(w) PROVE IInv'
  BY <1>6, DeferReady
<1>7. ASSUME NEW w \in Workers,
             RunStep(w) \/ ProviderReset(w) \/ CaptureReset(w) \/ Cancelled(w)
      PROVE  IInv'
  BY <1>7, RunStepReady
<1>. QED
  BY <1>1, <1>2, <1>3, <1>4, <1>5, <1>6, <1>7 DEF Next

(* A calendar that is reported ready hides no quarantined object, whatever *)
(* runs were abandoned, reset, deferred or overtaken before: the degraded  *)
(* decision of applyEventSyncPageTx and of DeferCalendarSyncForReservation *)
(* is the only way to ready, and no quarantine is added behind it.         *)
THEOREM ReadyHidesNothing == Spec => []ReadyIsClean
<1>1. IInv => ReadyIsClean
  BY DEF IInv
<1>. QED
  BY InitReady, NextReady, <1>1, PTL DEF Spec

-----------------------------------------------------------------------------
(* The rows of the cache.                                                  *)

Body == [ver : Nat, members : SUBSET Events, ok : BOOLEAN]
Bodies == UNION {[objs -> Body] : objs \in SUBSET Objects}

SyncRow == [cursor : Nat, gen : 0..MaxGen, status : Statuses,
            owner : Workers \cup {None}, lease : Leases]
CacheRow == [ver : Nat, gen : Nat, src : Objects \cup {None}]
SessionRow == [pc : {"idle", "claimed", "repairing", "paging", "page"},
               cursor : Nat, gen : Nat, beat : Nat, first : BOOLEAN, upTo : Nat,
               todo : SUBSET Objects, degraded : BOOLEAN, resets : 0..MaxResets,
               body : Bodies, complete : BOOLEAN]
WriteRow == [stage : {"none", "record", "schedule"}, event : Events \cup {None},
             ver : Nat, deleted : BOOLEAN]

(* The positions of the feed and the generations that were given out are   *)
(* those of the past.                                                      *)
Typed ==
    /\ version \in 1..MaxVersion
    /\ content \in [Objects -> Body]
    /\ \A o \in Objects :
        /\ content[o].ver \in 1..version /\ content[o].members \subseteq EventsOf(o)
        /\ ~content[o].ok => content[o].members = {}
    /\ enabled \in BOOLEAN
    /\ sync \in SyncRow /\ sync.cursor <= version
    /\ (sync.lease = "none") <=> (sync.owner = None)
    /\ cache \in [Events -> CacheRow]
    /\ \A e \in Events : cache[e].ver <= version /\ cache[e].gen <= sync.gen
    /\ quarantine \subseteq Objects
    /\ session \in [Workers -> SessionRow]
    /\ \A w \in Workers :
        /\ session[w].cursor <= version /\ session[w].upTo <= version
        /\ session[w].beat <= session[w].gen /\ session[w].gen <= sync.gen
        /\ session[w].pc # "idle" => session[w].gen > 0
        /\ \A o \in DOMAIN session[w].body : session[w].body[o].ver <= version
    /\ write \in WriteRow /\ write.ver <= version /\ writes \in 0..MaxWrites
    /\ write.stage = "record" => write.event \in Events

(* Where API writes leave a row that is not filed under its object: on     *)
(* servers where an instance has an ID of its own.                         *)
WritesAreFiled == MaxWrites = 0 \/ SelfObject = ObjectOf

(* A row that is shown is filed under the object that contains its event.  *)
RowsAreFiled ==
    /\ MaxWrites = 0 => write = NoWrite
    /\ \A e \in Events : Live(e) => cache[e].src = ObjectOf[e]

-----------------------------------------------------------------------------
(* The run that holds the claim.                                           *)

(* What this run has brought of an object is what the provider holds: on a *)
(* replacement, rows of older generations do not count.                    *)
Brought(w, o) ==
    /\ content[o].ok
    /\ \A e \in EventsOf(o) :
        IF e \in content[o].members
        THEN /\ Live(e) /\ cache[e].ver = content[o].ver
             /\ session[w].cursor = 0 => cache[e].gen = session[w].gen
        ELSE Live(e) => session[w].cursor = 0 /\ cache[e].gen # session[w].gen

BeforeFirstPage(w) ==
    /\ session[w].pc \in {"claimed", "repairing", "paging"} /\ session[w].first
    /\ session[w].pc \in {"claimed", "repairing"} =>
        \A e \in Events : Live(e) => cache[e].gen # session[w].gen
    /\ session[w].pc = "repairing" =>
        \A o \in DOMAIN session[w].body : session[w].body[o].ok =>
            session[w].body[o] = content[o]
    /\ \A e \in Events : Live(e) /\ cache[e].gen = session[w].gen =>
        e \in content[ObjectOf[e]].members

BetweenPages(w) ==
    /\ session[w].pc \in {"paging", "page"} /\ ~session[w].first
    /\ session[w].pc = "paging" => DOMAIN session[w].body = {}
    /\ session[w].pc = "page" =>
        \A o \in DOMAIN session[w].body :
            content[o].ver <= session[w].upTo => session[w].body[o] = content[o]
    /\ session[w].pc = "page" /\ session[w].complete => session[w].todo = {}
    /\ session[w].cursor # 0 =>
        \A o \in session[w].todo \cup DOMAIN session[w].body : content[o].ver > session[w].cursor
    /\ ~session[w].degraded =>
        \A o \in Objects : content[o].ver <= session[w].upTo =>
            \/ o \in session[w].todo
            \/ o \in DOMAIN session[w].body /\ session[w].body[o] = content[o] /\ content[o].ok
            \/ Brought(w, o)

Complete(w) ==
    /\ session[w].cursor = sync.cursor
    /\ BeforeFirstPage(w) \/ BetweenPages(w)

(* The claim's run knows the stored cursor, and all that its listing has   *)
(* reported is still to come, at hand, or in the cache.                    *)
ClaimsAreComplete == \A w \in Workers : Holds(w) => Complete(w)

(* A live lease is of a generation that a claim began. *)
LeasesAreClaims == Leased => sync.gen > 0

FeedInv == Typed /\ RowsAreFiled /\ CursorIsCovered /\ ClaimsAreComplete /\ LeasesAreClaims

-----------------------------------------------------------------------------
(* What the operations on rows return.                                     *)

(* A repaired or delivered object replaces the rows filed under it, and a  *)
(* row that is neither listed nor filed under such an object stays.        *)
LEMMA ReplacedRow ==
    ASSUME NEW b, NEW gen, NEW e \in Events
    PROVE  /\ ObjectOf[e] \in DOMAIN b /\ b[ObjectOf[e]].ok /\ e \in b[ObjectOf[e]].members
                => Replaced(b, gen)[e] = [ver |-> b[ObjectOf[e]].ver, gen |-> gen, src |-> ObjectOf[e]]
           /\ ~(ObjectOf[e] \in DOMAIN b /\ b[ObjectOf[e]].ok /\ e \in b[ObjectOf[e]].members)
                => /\ cache[e].src \in DOMAIN b /\ b[cache[e].src].ok => Replaced(b, gen)[e] = NoRow
                   /\ ~(cache[e].src \in DOMAIN b /\ b[cache[e].src].ok)
                        => Replaced(b, gen)[e] = cache[e]
<1>1. {o \in DOMAIN b : b[o].ok} \subseteq DOMAIN b
  OBVIOUS
<1>2. Replaced(b, gen)[e] =
        IF ObjectOf[e] \in {o \in DOMAIN b : b[o].ok} /\ e \in b[ObjectOf[e]].members
        THEN Upserted(b, e, gen)
        ELSE IF cache[e].src \in {o \in DOMAIN b : b[o].ok} THEN NoRow ELSE cache[e]
  BY DEF Replaced
<1> QED BY <1>2 DEF Upserted

(* A page leaves rows of the cache's type, no newer than what it carries.  *)
LEMMA ReplacedTyped ==
    ASSUME Typed, NEW b \in Bodies, NEW gen \in Nat,
           \A o \in DOMAIN b : b[o].ver <= version
    PROVE  /\ Replaced(b, gen) \in [Events -> CacheRow]
           /\ \A e \in Events :
                /\ Replaced(b, gen)[e].ver <= version
                /\ Replaced(b, gen)[e].gen \in {0, gen, cache[e].gen}
<1>1. NoRow \in CacheRow /\ NoRow.ver = 0 /\ NoRow.gen = 0
  BY DEF NoRow, CacheRow
<1>2. version \in Nat
  BY DEF Typed
<1>3. ASSUME NEW e \in Events
      PROVE  /\ Replaced(b, gen)[e] \in CacheRow
             /\ Replaced(b, gen)[e].ver <= version
             /\ Replaced(b, gen)[e].gen \in {0, gen, cache[e].gen}
  <2>1. cache[e] \in CacheRow /\ cache[e].ver <= version
    BY DEF Typed
  <2>2. CASE ObjectOf[e] \in DOMAIN b /\ b[ObjectOf[e]].ok /\ e \in b[ObjectOf[e]].members
    <3>1. b[ObjectOf[e]].ver \in Nat /\ b[ObjectOf[e]].ver <= version /\ ObjectOf[e] \in Objects
      BY <2>2 DEF Bodies, Body
    <3>2. [ver |-> b[ObjectOf[e]].ver, gen |-> gen, src |-> ObjectOf[e]] \in CacheRow
      BY <3>1 DEF CacheRow
    <3>3. Replaced(b, gen)[e] = [ver |-> b[ObjectOf[e]].ver, gen |-> gen, src |-> ObjectOf[e]]
      BY <2>2, ReplacedRow
    <3> QED BY <3>1, <3>2, <3>3
  <2>3. CASE ~(ObjectOf[e] \in DOMAIN b /\ b[ObjectOf[e]].ok /\ e \in b[ObjectOf[e]].members)
    <3>1. Replaced(b, gen)[e] = NoRow \/ Replaced(b, gen)[e] = cache[e]
      BY <2>3, ReplacedRow
    <3> QED BY <1>1, <1>2, <2>1, <3>1
  <2> QED BY <2>2, <2>3
<1>4. Replaced(b, gen) = [e \in Events |-> Replaced(b, gen)[e]]
  BY DEF Replaced
<1> QED BY <1>3, <1>4

(* The sweep keeps a row as it is or drops it.                             *)
LEMMA SweptRow ==
    ASSUME NEW rows, NEW gen, NEW active, NEW e \in Events
    PROVE  /\ rows[e].gen = gen \/ rows[e].src \in active => Swept(rows, gen, active)[e] = rows[e]
           /\ ~(rows[e].gen = gen \/ rows[e].src \in active)
                => Swept(rows, gen, active)[e] = NoRow
BY DEF Swept

(* What is quarantined after a page are objects.                           *)
LEMMA QuarantinedObjects ==
    ASSUME Typed, NEW b \in Bodies
    PROVE  Quarantined(b) \subseteq Objects
BY DEF Typed, Quarantined, Bodies

(* An idle session is of its type.                                         *)
LEMMA IdleTyped ==
    /\ IdleSession \in SessionRow
    /\ IdleSession.pc = "idle" /\ IdleSession.cursor = 0 /\ IdleSession.gen = 0
    /\ IdleSession.beat = 0 /\ IdleSession.first = TRUE /\ IdleSession.upTo = 0
    /\ IdleSession.todo = {} /\ IdleSession.degraded = FALSE /\ IdleSession.resets = 0
    /\ DOMAIN IdleSession.body = {} /\ IdleSession.complete = FALSE
<1>1. <<>> \in Bodies /\ DOMAIN <<>> = {}
  <2>1. <<>> \in [{} -> Body]
    OBVIOUS
  <2> QED BY <2>1 DEF Bodies
<1>2. 0 \in 0..MaxResets
  BY ReadModelConstants
<1> QED BY <1>1, <1>2 DEF IdleSession, SessionRow

(* Rows of calendar_sync_state. *)
LEMMA RowTyped ==
    ASSUME NEW row \in SyncRow, NEW status \in Statuses
    PROVE  /\ Unowned(row) \in SyncRow
           /\ Unowned(row).lease = "none" /\ Unowned(row).owner = None
           /\ Unowned(row).cursor = row.cursor /\ Unowned(row).gen = row.gen
           /\ Unowned(row).status = row.status
           /\ [row EXCEPT !.status = status] \in SyncRow
           /\ [row EXCEPT !.status = status].cursor = row.cursor
           /\ [row EXCEPT !.status = status].gen = row.gen
           /\ [row EXCEPT !.status = status].owner = row.owner
           /\ [row EXCEPT !.status = status].lease = row.lease
<1>1. None \in Workers \cup {None} /\ "none" \in Leases
  BY DEF Leases
<1> QED BY <1>1 DEF Unowned, SyncRow

(* A row of a new generation with an empty cursor. *)
LEMMA RestartedTyped ==
    ASSUME NEW row \in SyncRow, NEW status \in Statuses, row.gen < MaxGen
    PROVE  /\ [row EXCEPT !.cursor = 0, !.gen = @ + 1, !.status = status] \in SyncRow
           /\ [row EXCEPT !.cursor = 0, !.gen = @ + 1, !.status = status].cursor = 0
           /\ [row EXCEPT !.cursor = 0, !.gen = @ + 1, !.status = status].gen = row.gen + 1
<1>1. row.gen + 1 \in 0..MaxGen /\ 0 \in Nat
  BY ReadModelConstants DEF SyncRow
<1> QED BY <1>1 DEF SyncRow

-----------------------------------------------------------------------------
(* Type correctness.                                                       *)

(* A session as a run leaves it. *)
SessionFits(s, gen) ==
    /\ s.cursor <= version /\ s.upTo <= version
    /\ s.beat <= s.gen /\ s.gen <= gen
    /\ s.pc # "idle" => s.gen > 0
    /\ \A o \in DOMAIN s.body : s.body[o].ver <= version

(* The sessions that are not touched by a step fit the row it leaves. *)
LEMMA RunTyped ==
    ASSUME Typed, NEW w \in Workers, NEW s \in SessionRow,
           session' = [session EXCEPT ![w] = s], UNCHANGED <<provider, enabled, write, writes>>,
           sync' \in SyncRow, sync'.cursor <= version, sync.gen <= sync'.gen,
           (sync'.lease = "none") <=> (sync'.owner = None),
           cache' \in [Events -> CacheRow],
           \A e \in Events : cache'[e].ver <= version /\ cache'[e].gen <= sync'.gen,
           quarantine' \subseteq Objects, SessionFits(s, sync'.gen)
    PROVE  Typed'
<1> USE DEF Typed
<1>1. session' \in [Workers -> SessionRow]
  OBVIOUS
<1>2. session'[w] = s /\ \A v \in Workers \ {w} : session'[v] = session[v]
  OBVIOUS
<1>3. sync.gen \in Nat /\ sync'.gen \in Nat /\ \A v \in Workers : session[v].gen \in Nat
  BY ReadModelConstants DEF SyncRow, SessionRow
<1>4. ASSUME NEW v \in Workers
      PROVE  /\ session'[v].cursor <= version /\ session'[v].upTo <= version
             /\ session'[v].beat <= session'[v].gen /\ session'[v].gen <= sync'.gen
             /\ session'[v].pc # "idle" => session'[v].gen > 0
             /\ \A o \in DOMAIN session'[v].body : session'[v].body[o].ver <= version
  BY <1>2, <1>3 DEF SessionFits
<1> QED BY <1>1, <1>4 DEF provider

(* The same where the cache is left alone. *)
LEMMA RowTypedStep ==
    ASSUME Typed, NEW w \in Workers, NEW s \in SessionRow,
           session' = [session EXCEPT ![w] = s],
           UNCHANGED <<provider, enabled, cache, quarantine, write, writes>>,
           sync' \in SyncRow, sync'.cursor <= version, sync.gen <= sync'.gen,
           (sync'.lease = "none") <=> (sync'.owner = None), SessionFits(s, sync'.gen)
    PROVE  Typed'
<1>1. cache' \in [Events -> CacheRow] /\ quarantine' \subseteq Objects
  BY DEF Typed
<1>2. \A e \in Events : cache'[e].ver <= version /\ cache'[e].gen <= sync'.gen
  <2>1. sync.gen \in Nat /\ sync'.gen \in Nat
    BY ReadModelConstants DEF Typed, SyncRow
  <2>2. \A e \in Events : cache[e].gen \in Nat /\ cache[e].gen <= sync.gen /\ cache[e].ver <= version
    BY DEF Typed, CacheRow
  <2> QED BY <2>1, <2>2
<1> QED BY <1>1, <1>2, RunTyped

(* The run is over: the session is idle, and the row is given up or as it  *)
(* was.                                                                    *)
LEMMA EndsTyped ==
    ASSUME Typed, NEW w \in Workers,
           \/ FailRun(w) \/ DeferCalendarSyncForReservation(w) \/ LeaseLost(w) \/ Cancelled(w)
    PROVE  /\ Typed' /\ session' = [session EXCEPT ![w] = IdleSession]
           /\ UNCHANGED <<provider, enabled, cache, quarantine, write, writes>>
           /\ sync' = sync \/ (sync'.lease = "none" /\ sync'.cursor = sync.cursor)
           /\ sync'.gen = sync.gen
<1>1. /\ session' = [session EXCEPT ![w] = IdleSession]
      /\ UNCHANGED <<provider, enabled, cache, quarantine, write, writes>>
  BY DEF FailRun, DeferCalendarSyncForReservation, LeaseLost, Cancelled, store
<1>2. \/ sync' = sync
      \/ \E status \in Statuses : sync' = Unowned([sync EXCEPT !.status = status])
  <2>1. {"failed"} \cup Parked \subseteq Statuses /\ {"pending", "ready", "degraded"} \subseteq Statuses
    BY DEF Statuses
  <2>2. CASE FailRun(w)
    BY <2>1, <2>2 DEF FailRun
  <2>3. CASE DeferCalendarSyncForReservation(w)
    BY <2>1, <2>3 DEF DeferCalendarSyncForReservation
  <2>4. CASE LeaseLost(w) \/ Cancelled(w)
    BY <2>4 DEF LeaseLost, Cancelled, store
  <2> QED BY <2>2, <2>3, <2>4
<1>3. sync \in SyncRow /\ sync.cursor <= version /\ sync.gen \in Nat /\ version \in Nat
  BY ReadModelConstants DEF Typed, SyncRow
<1>4. CASE sync' = sync
  <2>1. SessionFits(IdleSession, sync'.gen)
    BY <1>3, <1>4, IdleTyped DEF SessionFits
  <2>2. Typed'
    <3>1. (sync'.lease = "none") <=> (sync'.owner = None)
      BY <1>4 DEF Typed
    <3>2. sync.gen <= sync'.gen
      BY <1>3, <1>4
    <3> QED BY <1>1, <1>3, <1>4, <2>1, <3>1, <3>2, IdleTyped, RowTypedStep
  <2> QED BY <1>1, <1>4, <2>2
<1>5. ASSUME NEW status \in Statuses, sync' = Unowned([sync EXCEPT !.status = status])
      PROVE  /\ Typed' /\ sync'.lease = "none"
             /\ sync'.cursor = sync.cursor /\ sync'.gen = sync.gen
  <2>1. [sync EXCEPT !.status = status] \in SyncRow
    BY <1>3, RowTyped
  <2>2. /\ sync' \in SyncRow /\ sync'.lease = "none" /\ sync'.owner = None
        /\ sync'.cursor = sync.cursor /\ sync'.gen = sync.gen
    BY <1>3, <1>5, <2>1, RowTyped
  <2>3. SessionFits(IdleSession, sync'.gen)
    BY <1>3, <2>2, IdleTyped DEF SessionFits
  <2>4. Typed'
    <3>1. sync'.cursor <= version /\ sync.gen <= sync'.gen
      BY <1>3, <2>2
    <3> QED BY <1>1, <2>2, <2>3, <3>1, IdleTyped, RowTypedStep
  <2> QED BY <2>2, <2>4
<1> QED BY <1>1, <1>2, <1>4, <1>5

(* A claim and a reset begin in a generation of their own, at the cursor   *)
(* that the row keeps.                                                     *)
LEMMA BeginsTyped ==
    ASSUME Typed, NEW w \in Workers,
           \/ ClaimDueCalendarSync(w)
           \/ \E resets \in 0..MaxResets : ResetCalendarSync(w, resets)
    PROVE  /\ Typed'
           /\ sync'.gen = sync.gen + 1 /\ sync'.owner = w
           /\ sync'.cursor = 0 \/ sync'.cursor = sync.cursor
           /\ \E s \in SessionRow :
                /\ session' = [session EXCEPT ![w] = s]
                /\ s.gen = sync'.gen /\ s.cursor = sync'.cursor /\ s.first
                /\ s.pc \in {"claimed", "paging"}
           /\ UNCHANGED <<provider, enabled, cache, quarantine, write, writes>>
<1>1. /\ sync \in SyncRow /\ sync.cursor <= version /\ sync.gen \in Nat /\ version \in Nat
      /\ sync.cursor \in Nat
      /\ session[w] \in SessionRow /\ session[w].beat <= session[w].gen
      /\ session[w].gen <= sync.gen
      /\ session[w].beat \in Nat /\ session[w].gen \in Nat
  BY ReadModelConstants DEF Typed, SyncRow, SessionRow
<1>2. UNCHANGED <<provider, enabled, cache, quarantine, write, writes>>
  BY DEF ClaimDueCalendarSync, ResetCalendarSync
<1>3. sync.gen < MaxGen /\ sync.gen + 1 \in 0..MaxGen /\ sync.gen + 1 \in Nat
  <2>1. sync.gen < MaxGen
    BY DEF ClaimDueCalendarSync, ResetCalendarSync
  <2>2. MaxGen \in Nat
    BY ReadModelConstants
  <2> QED BY <1>1, <2>1, <2>2
<1>4. /\ sync' \in SyncRow /\ sync'.gen = sync.gen + 1 /\ sync'.owner = w
      /\ sync'.cursor \in {0, sync.cursor}
      /\ (sync'.lease = "none") <=> (sync'.owner = None)
  <2>1. CASE ClaimDueCalendarSync(w)
    <3>1. sync' = [sync EXCEPT !.gen = @ + 1, !.status = "syncing", !.owner = w, !.lease = "live"]
      BY <2>1 DEF ClaimDueCalendarSync
    <3>2. "syncing" \in Statuses /\ "live" \in Leases /\ w # None
      BY ReadModelConstants DEF Statuses, Leases
    <3> QED BY <1>1, <1>3, <3>1, <3>2 DEF SyncRow
  <2>2. ASSUME NEW resets \in 0..MaxResets, ResetCalendarSync(w, resets)
        PROVE  /\ sync' \in SyncRow /\ sync'.gen = sync.gen + 1 /\ sync'.owner = w
               /\ sync'.cursor = 0 /\ sync'.lease = sync.lease /\ sync.owner = w
    BY <1>1, <1>3, <2>2 DEF ResetCalendarSync, Holds, SyncRow
  <2> QED BY <2>1, <2>2 DEF Typed
<1>5. PICK s \in SessionRow :
        /\ session' = [session EXCEPT ![w] = s]
        /\ s.gen = sync'.gen /\ s.cursor = sync'.cursor /\ s.first
        /\ s.pc \in {"claimed", "paging"} /\ s.beat <= s.gen /\ s.upTo = 0 /\ DOMAIN s.body = {}
  <2>1. CASE ClaimDueCalendarSync(w)
    <3>1. PICK s : s = [IdleSession EXCEPT !.pc = "claimed", !.cursor = sync.cursor,
                                           !.gen = sync.gen + 1, !.beat = sync.gen + 1]
      OBVIOUS
    <3>2. s \in SessionRow
      BY <1>1, <1>3, <3>1, IdleTyped DEF SessionRow
    <3>3. /\ s.pc = "claimed" /\ s.gen = sync.gen + 1 /\ s.cursor = sync.cursor
          /\ s.beat = sync.gen + 1 /\ s.first = TRUE /\ s.upTo = 0 /\ DOMAIN s.body = {}
      BY <3>1, IdleTyped DEF SessionRow
    <3>4. session' = [session EXCEPT ![w] = s] /\ sync'.cursor = sync.cursor
      BY <1>1, <2>1, <3>1 DEF ClaimDueCalendarSync, SyncRow
    <3>5. s.gen = sync'.gen /\ s.cursor = sync'.cursor /\ s.beat <= s.gen
      BY <1>3, <1>4, <3>3, <3>4
    <3>6. s.first /\ s.pc \in {"claimed", "paging"} /\ s.upTo = 0 /\ DOMAIN s.body = {}
      BY <3>3
    <3>7. session' = [session EXCEPT ![w] = s]
      BY <3>4
    <3> QED BY <3>2, <3>5, <3>6, <3>7, Zenon
  <2>2. ASSUME NEW resets \in 0..MaxResets, ResetCalendarSync(w, resets)
        PROVE  \E s \in SessionRow :
                /\ session' = [session EXCEPT ![w] = s]
                /\ s.gen = sync'.gen /\ s.cursor = sync'.cursor /\ s.first
                /\ s.pc \in {"claimed", "paging"} /\ s.beat <= s.gen /\ s.upTo = 0
                /\ DOMAIN s.body = {}
    <3>1. PICK s : s = [IdleSession EXCEPT !.pc = "paging", !.gen = sync.gen + 1,
                                           !.beat = session[w].beat, !.resets = resets]
      OBVIOUS
    <3>2. s \in SessionRow
      BY <1>1, <1>3, <3>1, IdleTyped DEF SessionRow
    <3>3. /\ s.pc = "paging" /\ s.gen = sync.gen + 1 /\ s.cursor = 0
          /\ s.beat = session[w].beat /\ s.first = TRUE /\ s.upTo = 0 /\ DOMAIN s.body = {}
      BY <3>1, IdleTyped DEF SessionRow
    <3>4. session' = [session EXCEPT ![w] = s] /\ sync'.cursor = 0
      BY <1>1, <2>2, <3>1 DEF ResetCalendarSync, SyncRow
    <3>5. s.beat <= s.gen
      BY <1>1, <3>3
    <3>6. s.gen = sync'.gen /\ s.cursor = sync'.cursor
      BY <1>4, <3>3, <3>4
    <3>7. s.first /\ s.pc \in {"claimed", "paging"} /\ s.upTo = 0 /\ DOMAIN s.body = {}
      BY <3>3
    <3>8. session' = [session EXCEPT ![w] = s]
      BY <3>4
    <3> QED BY <3>2, <3>5, <3>6, <3>7, <3>8, Zenon
  <2> QED BY <2>1, <2>2
<1>6. sync'.cursor <= version
  BY <1>1, <1>4
<1>7. SessionFits(s, sync'.gen)
  BY <1>1, <1>3, <1>4, <1>5, <1>6 DEF SessionFits
<1>8. sync.gen <= sync'.gen
  BY <1>1, <1>4
<1>9. Typed'
  BY <1>2, <1>4, <1>5, <1>6, <1>7, <1>8, RowTypedStep
<1> QED BY <1>2, <1>4, <1>5, <1>9

(* A step of the run that stores nothing. *)
LEMMA ReadingTyped ==
    ASSUME Typed, NEW w \in Workers, NEW s \in SessionRow,
           session' = [session EXCEPT ![w] = s],
           UNCHANGED <<provider, store, write, writes>>, SessionFits(s, sync.gen)
    PROVE  Typed'
<1>1. /\ sync' \in SyncRow /\ sync'.cursor <= version /\ sync' = sync /\ sync.gen \in Nat
      /\ (sync'.lease = "none") <=> (sync'.owner = None)
  BY ReadModelConstants DEF Typed, SyncRow, store
<1>2. sync.gen <= sync'.gen /\ SessionFits(s, sync'.gen)
  BY <1>1
<1>3. UNCHANGED <<provider, enabled, cache, quarantine, write, writes>>
  BY DEF store
<1> QED BY <1>1, <1>2, <1>3, RowTypedStep

(* The fields of a session that fit a row. *)
LEMMA SessionFields ==
    ASSUME Typed, NEW w \in Workers
    PROVE  /\ session[w] \in SessionRow /\ session[w].body \in Bodies
           /\ session[w].cursor \in Nat /\ session[w].upTo \in Nat
           /\ session[w].gen \in Nat /\ session[w].beat \in Nat
           /\ SessionFits(session[w], sync.gen)
           /\ sync \in SyncRow /\ sync.gen \in Nat /\ sync.cursor \in Nat
           /\ sync.cursor <= version /\ version \in Nat
<1>1. session[w] \in SessionRow /\ sync \in SyncRow
  BY DEF Typed
<1>2. SessionFits(session[w], sync.gen) /\ version \in Nat /\ sync.cursor <= version
  BY DEF Typed, SessionFits
<1> QED BY <1>1, <1>2, ReadModelConstants DEF SessionRow, SyncRow

(* A repair reads one quarantined object, or fails to. *)
LEMMA ReadRepairTyped ==
    ASSUME Typed, NEW w \in Workers, NEW o \in Objects, ReadRepair(w, o)
    PROVE  /\ Typed'
           /\ \E s \in SessionRow :
                /\ session' = [session EXCEPT ![w] = s]
                /\ s.pc = "repairing" /\ DOMAIN s.body = {o}
                /\ s.body[o].ok => s.body[o] = content[o]
                /\ s.first = session[w].first /\ s.cursor = session[w].cursor
                /\ s.gen = session[w].gen
           /\ UNCHANGED <<provider, store, write, writes>>
<1>1. PICK c \in {content[o], [ver |-> content[o].ver, members |-> {}, ok |-> FALSE]} :
        session' = [session EXCEPT ![w].pc = "repairing", ![w].body = [x \in {o} |-> c]]
  BY DEF ReadRepair
<1>2. UNCHANGED <<provider, store, write, writes>> /\ session[w].pc = "claimed"
  BY DEF ReadRepair
<1>3. content[o] \in Body /\ content[o].ver <= version
  BY DEF Typed
<1>4. c \in Body /\ c.ver <= version /\ (c.ok => c = content[o])
  <2>1. CASE c = content[o]
    BY <1>3, <2>1
  <2>2. CASE c = [ver |-> content[o].ver, members |-> {}, ok |-> FALSE]
    <3>1. content[o].ver \in Nat
      BY <1>3 DEF Body
    <3>2. c.ver = content[o].ver /\ c.members = {} /\ c.ok = FALSE
      BY <2>2
    <3>3. c \in Body
      BY <2>2, <3>1 DEF Body
    <3> QED BY <1>3, <3>2, <3>3
  <2> QED BY <2>1, <2>2
<1>5. [x \in {o} |-> c] \in Bodies
  <2>1. [x \in {o} |-> c] \in [{o} -> Body]
    BY <1>4
  <2> QED BY <2>1 DEF Bodies
<1>6. PICK b : b = [x \in {o} |-> c]
  OBVIOUS
<1>7. b \in Bodies /\ DOMAIN b = {o} /\ b[o] = c
  BY <1>5, <1>6
<1>8. PICK s : s = [session[w] EXCEPT !.pc = "repairing", !.body = b]
  OBVIOUS
<1>9. session' = [session EXCEPT ![w] = s]
  BY <1>1, <1>6, <1>8 DEF Typed
<1>10. s \in SessionRow
  BY <1>7, <1>8, SessionFields DEF SessionRow
<1>11. /\ s.pc = "repairing" /\ s.body = b
       /\ s.first = session[w].first /\ s.cursor = session[w].cursor
       /\ s.gen = session[w].gen /\ s.beat = session[w].beat /\ s.upTo = session[w].upTo
  BY <1>8, SessionFields DEF SessionRow
<1>12. SessionFits(s, sync.gen)
  BY <1>2, <1>4, <1>7, <1>11, SessionFields DEF SessionFits
<1>13. Typed'
  BY <1>2, <1>9, <1>10, <1>12, ReadingTyped
<1>14. DOMAIN s.body = {o} /\ (s.body[o].ok => s.body[o] = content[o])
  BY <1>4, <1>7, <1>11
<1> QED BY <1>2, <1>9, <1>10, <1>11, <1>13, <1>14

(* Nothing is due for repair. *)
LEMMA NothingToRepairTyped ==
    ASSUME Typed, NEW w \in Workers, NothingToRepair(w)
    PROVE  /\ Typed'
           /\ \E s \in SessionRow :
                /\ session' = [session EXCEPT ![w] = s]
                /\ s.pc = "paging" /\ s.body = session[w].body
                /\ s.first = session[w].first /\ s.cursor = session[w].cursor
                /\ s.gen = session[w].gen
           /\ UNCHANGED <<provider, store, write, writes>>
<1>1. UNCHANGED <<provider, store, write, writes>> /\ session[w].pc = "claimed"
  BY DEF NothingToRepair
<1>2. PICK s : s = [session[w] EXCEPT !.pc = "paging"]
  OBVIOUS
<1>3. session' = [session EXCEPT ![w] = s]
  BY <1>2 DEF NothingToRepair, Typed
<1>4. s \in SessionRow
  BY <1>2, SessionFields DEF SessionRow
<1>5. /\ s.pc = "paging" /\ s.body = session[w].body
      /\ s.first = session[w].first /\ s.cursor = session[w].cursor
      /\ s.gen = session[w].gen /\ s.beat = session[w].beat /\ s.upTo = session[w].upTo
  BY <1>2, SessionFields DEF SessionRow
<1>6. SessionFits(s, sync.gen)
  BY <1>1, <1>5, SessionFields DEF SessionFits
<1>7. Typed'
  BY <1>1, <1>3, <1>4, <1>6, ReadingTyped
<1> QED BY <1>1, <1>3, <1>4, <1>5, <1>7

(* A repair or a page that is not the last replaces the objects at hand.   *)
LEMMA ApplyTyped ==
    ASSUME Typed, NEW w \in Workers, ApplyEventSyncObjectRepair(w) \/ ApplyPage(w)
    PROVE  /\ Typed'
           /\ \E s \in SessionRow :
                /\ session' = [session EXCEPT ![w] = s]
                /\ s.pc = "paging" /\ DOMAIN s.body = {} /\ s.first = session[w].first
                /\ s.cursor = session[w].cursor /\ s.gen = session[w].gen
                /\ s.upTo = session[w].upTo /\ s.todo = session[w].todo
                /\ s.degraded = session[w].degraded
           /\ Holds(w) /\ session[w].pc \in {"repairing", "page"}
           /\ cache' = Replaced(session[w].body, session[w].gen)
           /\ quarantine' = Quarantined(session[w].body)
           /\ UNCHANGED <<provider, enabled, sync, write, writes>>
<1>1. /\ Holds(w) /\ session[w].pc \in {"repairing", "page"}
      /\ cache' = Replaced(session[w].body, session[w].gen)
      /\ quarantine' = Quarantined(session[w].body)
      /\ session' = [session EXCEPT ![w].pc = "paging", ![w].body = <<>>]
      /\ UNCHANGED <<provider, enabled, sync, write, writes>>
  BY DEF ApplyEventSyncObjectRepair, ApplyPage
<1>2. PICK s : s = [session[w] EXCEPT !.pc = "paging", !.body = <<>>]
  OBVIOUS
<1>3. session' = [session EXCEPT ![w] = s]
  BY <1>1, <1>2 DEF Typed
<1>4. <<>> \in Bodies /\ DOMAIN <<>> = {}
  <2>1. <<>> \in [{} -> Body]
    OBVIOUS
  <2> QED BY <2>1 DEF Bodies
<1>5. s \in SessionRow
  BY <1>2, <1>4, SessionFields DEF SessionRow
<1>6. /\ s.pc = "paging" /\ s.body = <<>> /\ s.first = session[w].first
      /\ s.cursor = session[w].cursor /\ s.gen = session[w].gen
      /\ s.beat = session[w].beat /\ s.upTo = session[w].upTo /\ s.todo = session[w].todo
      /\ s.degraded = session[w].degraded
  BY <1>2, SessionFields DEF SessionRow
<1>7. DOMAIN s.body = {}
  BY <1>4, <1>6
<1>8. session[w].gen > 0 /\ session[w].gen <= sync.gen
  BY <1>1 DEF Typed
<1>9. SessionFits(s, sync'.gen)
  BY <1>1, <1>6, <1>7, <1>8, SessionFields DEF SessionFits
<1>10. \A o \in DOMAIN session[w].body : session[w].body[o].ver <= version
  BY DEF Typed
<1>11. cache' \in [Events -> CacheRow]
  BY <1>1, <1>10, SessionFields, ReplacedTyped
<1>12. \A e \in Events : cache'[e].ver <= version /\ cache'[e].gen <= sync'.gen
  <2>1. \A e \in Events : cache'[e].ver <= version
                            /\ cache'[e].gen \in {0, session[w].gen, cache[e].gen}
    BY <1>1, <1>10, SessionFields, ReplacedTyped
  <2>2. \A e \in Events : cache[e].gen <= sync.gen
    BY DEF Typed
  <2>3. sync'.gen = sync.gen /\ sync.gen \in Nat
    BY <1>1, SessionFields
  <2> QED BY <1>8, <2>1, <2>2, <2>3
<1>13. quarantine' \subseteq Objects
  BY <1>1, SessionFields, QuarantinedObjects
<1>14. /\ sync' \in SyncRow /\ sync'.cursor <= version /\ sync.gen <= sync'.gen
       /\ (sync'.lease = "none") <=> (sync'.owner = None)
  BY <1>1, SessionFields DEF Typed
<1>15. UNCHANGED <<provider, enabled, write, writes>>
  BY <1>1
<1>16. Typed'
  BY <1>3, <1>5, <1>9, <1>11, <1>12, <1>13, <1>14, <1>15, RunTyped
<1> QED BY <1>1, <1>3, <1>5, <1>6, <1>7, <1>16

(* What a page carries is what the provider holds when it is served.       *)
LEMMA ReadTyped ==
    ASSUME Typed, NEW objs \in SUBSET Objects
    PROVE  /\ Read(objs) \in Bodies /\ DOMAIN Read(objs) = objs
           /\ \A o \in objs : Read(objs)[o] = content[o] /\ content[o].ver <= version
<1>1. content \in [Objects -> Body] /\ \A o \in Objects : content[o].ver <= version
  BY DEF Typed
<1>2. Read(objs) \in [objs -> Body] /\ \A o \in objs : Read(objs)[o] = content[o]
  BY <1>1 DEF Read
<1>3. Read(objs) \in Bodies
  BY <1>2 DEF Bodies
<1> QED BY <1>1, <1>2, <1>3

(* The first request fixes what the cursor will cover. *)
LEMMA FetchTyped ==
    ASSUME Typed, NEW w \in Workers, FetchPage(w)
    PROVE  /\ Typed'
           /\ \E s \in SessionRow, objs \in SUBSET Objects, todo \in SUBSET Objects :
                /\ session' = [session EXCEPT ![w] = s]
                /\ todo = IF session[w].first THEN Listed(session[w].cursor) ELSE session[w].todo
                /\ objs \subseteq todo
                /\ s.pc = "page" /\ s.first = FALSE
                /\ s.cursor = session[w].cursor /\ s.gen = session[w].gen
                /\ s.upTo = IF session[w].first THEN version ELSE session[w].upTo
                /\ s.todo = todo \ objs /\ s.body = Read(objs)
                /\ s.complete => objs = todo
                /\ ~s.degraded => ~session[w].degraded /\ \A o \in objs : content[o].ok
           /\ session[w].pc = "paging"
           /\ UNCHANGED <<provider, store, write, writes>>
<1>1. UNCHANGED <<provider, store, write, writes>> /\ session[w].pc = "paging"
  BY DEF FetchPage
<1>2. PICK todo : todo = IF session[w].first THEN Listed(session[w].cursor) ELSE session[w].todo
  OBVIOUS
<1>3. PICK upTo : upTo = IF session[w].first THEN version ELSE session[w].upTo
  OBVIOUS
<1>4. todo \in SUBSET Objects /\ upTo \in Nat /\ upTo <= version
  BY <1>2, <1>3, SessionFields DEF Listed, SessionRow, SessionFits
<1>5. PICK objs \in SUBSET todo, complete \in BOOLEAN, degraded \in BOOLEAN :
        /\ complete <=> (objs = todo)
        /\ degraded <=> (session[w].degraded \/ \E o \in objs : ~content[o].ok)
        /\ session' = [session EXCEPT ![w] = [session[w] EXCEPT
            !.pc = "page", !.first = FALSE, !.upTo = upTo, !.todo = todo \ objs,
            !.body = Read(objs), !.complete = complete, !.degraded = degraded]]
  <2>. DEFINE Fetched(u, t, objs, complete, degraded) ==
                [session EXCEPT ![w] = [session[w] EXCEPT
                    !.pc = "page", !.first = FALSE, !.upTo = u, !.todo = t \ objs,
                    !.body = Read(objs), !.complete = complete, !.degraded = degraded]]
              U == IF session[w].first THEN version ELSE session[w].upTo
              T == IF session[w].first THEN Listed(session[w].cursor) ELSE session[w].todo
  <2>1. \E objs \in SUBSET T :
            /\ objs # {} \/ T = {}
            /\ session' = Fetched(U, T, objs, objs = T,
                                  session[w].degraded \/ \E o \in objs : ~content[o].ok)
    BY ZenonT(60) DEF FetchPage
  <2>2. upTo = U /\ todo = T
    BY <1>2, <1>3
  <2> HIDE DEF Fetched, U, T
  <2>3. PICK objs \in SUBSET todo :
            session' = Fetched(upTo, todo, objs, objs = todo,
                               session[w].degraded \/ \E o \in objs : ~content[o].ok)
    BY <2>1, <2>2, Zenon
  <2>4. PICK complete \in BOOLEAN : complete = (objs = todo)
    BY Zenon
  <2>5. PICK degraded \in BOOLEAN :
            degraded = (session[w].degraded \/ \E o \in objs : ~content[o].ok)
    BY Zenon
  <2>6. session' = Fetched(upTo, todo, objs, complete, degraded)
    BY <2>3, <2>4, <2>5, Zenon
  <2>7. /\ complete <=> (objs = todo)
        /\ degraded <=> (session[w].degraded \/ \E o \in objs : ~content[o].ok)
    BY <2>4, <2>5, Zenon
  <2>8. session' = [session EXCEPT ![w] = [session[w] EXCEPT
            !.pc = "page", !.first = FALSE, !.upTo = upTo, !.todo = todo \ objs,
            !.body = Read(objs), !.complete = complete, !.degraded = degraded]]
    BY <2>6 DEF Fetched
  <2> QED BY <2>7, <2>8, Zenon
<1>11. PICK s : s = [session[w] EXCEPT
            !.pc = "page", !.first = FALSE, !.upTo = upTo, !.todo = todo \ objs,
            !.body = Read(objs), !.complete = complete, !.degraded = degraded]
  OBVIOUS
<1>12. session' = [session EXCEPT ![w] = s]
  BY <1>5, <1>11, Zenon
<1>13. Read(objs) \in Bodies /\ DOMAIN Read(objs) = objs
       /\ \A o \in objs : Read(objs)[o].ver <= version
  BY <1>4, ReadTyped
<1>14. s \in SessionRow
  BY <1>4, <1>11, <1>13, SessionFields DEF SessionRow
<1>15. /\ s.pc = "page" /\ s.first = FALSE /\ s.upTo = upTo /\ s.todo = todo \ objs
       /\ s.body = Read(objs) /\ s.complete = complete /\ s.degraded = degraded
       /\ s.cursor = session[w].cursor /\ s.gen = session[w].gen /\ s.beat = session[w].beat
  BY <1>11, SessionFields DEF SessionRow
<1>16. SessionFits(s, sync.gen)
  BY <1>1, <1>4, <1>13, <1>15, SessionFields DEF SessionFits
<1>17. Typed'
  BY <1>1, <1>12, <1>14, <1>16, ReadingTyped
<1>18. /\ s.complete => objs = todo
       /\ ~s.degraded => ~session[w].degraded /\ \A o \in objs : content[o].ok
  BY <1>5, <1>15
<1>19. objs \in SUBSET Objects /\ todo \in SUBSET Objects /\ objs \subseteq todo
  BY <1>4
<1>20. s.upTo = IF session[w].first THEN version ELSE session[w].upTo
  BY <1>3, <1>15
<1>21. /\ s.pc = "page" /\ s.first = FALSE
       /\ s.cursor = session[w].cursor /\ s.gen = session[w].gen
       /\ s.todo = todo \ objs /\ s.body = Read(objs)
  BY <1>15
<1> QED BY <1>1, <1>2, <1>12, <1>14, <1>17, <1>18, <1>19, <1>20, <1>21, Zenon

(* The terminal page: it gives the claim up, and the cursor moves to what  *)
(* the listing covers only if nothing is degraded.                         *)
LEMMA FinalTyped ==
    ASSUME Typed, NEW w \in Workers, ApplyFinalPage(w)
    PROVE  /\ Typed'
           /\ session' = [session EXCEPT ![w] = IdleSession]
           /\ session[w].pc = "page" /\ session[w].complete /\ Holds(w)
           /\ cache' = IF session[w].cursor = 0
                       THEN Swept(Replaced(session[w].body, session[w].gen), session[w].gen,
                                  Quarantined(session[w].body))
                       ELSE Replaced(session[w].body, session[w].gen)
           /\ quarantine' = Quarantined(session[w].body)
           /\ sync'.lease = "none"
           /\ \/ sync'.cursor = session[w].cursor
              \/ sync'.cursor = 0
              \/ /\ sync'.cursor = session[w].upTo
                 /\ ~session[w].degraded /\ Quarantined(session[w].body) = {}
           /\ sync'.status = "ready" =>
                ~session[w].degraded /\ Quarantined(session[w].body) = {}
           /\ UNCHANGED <<provider, enabled, write, writes>>
<1>1. PICK active : active = Quarantined(session[w].body)
  OBVIOUS
<1>2. PICK rows : rows = Replaced(session[w].body, session[w].gen)
  OBVIOUS
<1>3. PICK degraded \in BOOLEAN : degraded <=> (session[w].degraded \/ active # {})
  OBVIOUS
<1>4. PICK next : next = IF session[w].cursor = 0 /\ Cursorless THEN 0 ELSE session[w].upTo
  OBVIOUS
<1>5. PICK cursor : cursor = IF degraded THEN session[w].cursor ELSE next
  OBVIOUS
<1>6. PICK status : status = IF degraded THEN "degraded" ELSE "ready"
  OBVIOUS
<1>7. /\ session' = [session EXCEPT ![w] = IdleSession]
      /\ session[w].pc = "page" /\ session[w].complete /\ Holds(w)
      /\ cache' = IF session[w].cursor = 0 THEN Swept(rows, session[w].gen, active) ELSE rows
      /\ quarantine' = active
      /\ UNCHANGED <<provider, enabled, write, writes>>
  BY <1>1, <1>2 DEF ApplyFinalPage
<1>8. sync' = Unowned([sync EXCEPT !.cursor = cursor, !.status = status])
  BY <1>1, <1>3, <1>4, <1>5, <1>6 DEF ApplyFinalPage
<1>9. /\ cursor \in Nat /\ cursor <= version /\ status \in Statuses
      /\ \/ cursor = session[w].cursor
         \/ cursor = 0
         \/ cursor = session[w].upTo /\ ~session[w].degraded /\ active = {}
      /\ status = "ready" => ~session[w].degraded /\ active = {}
  BY <1>3, <1>4, <1>5, <1>6, SessionFields DEF SessionFits, Statuses
<1>10. PICK row : row = [sync EXCEPT !.cursor = cursor, !.status = status]
  OBVIOUS
<1>11. row \in SyncRow /\ row.cursor = cursor /\ row.status = status /\ row.gen = sync.gen
  BY <1>9, <1>10, SessionFields DEF SyncRow
<1>12. /\ sync' \in SyncRow /\ sync'.cursor = cursor /\ sync'.status = status
       /\ sync'.gen = sync.gen /\ sync'.lease = "none" /\ sync'.owner = None
  BY <1>8, <1>9, <1>10, <1>11, RowTyped
<1>13. session[w].gen <= sync.gen /\ session[w].gen \in Nat
  BY SessionFields DEF SessionFits
<1>14. \A o \in DOMAIN session[w].body : session[w].body[o].ver <= version
  BY DEF Typed
<1>15. /\ rows \in [Events -> CacheRow]
       /\ \A e \in Events : rows[e].ver <= version
                              /\ rows[e].gen \in {0, session[w].gen, cache[e].gen}
  BY <1>2, <1>14, SessionFields, ReplacedTyped
<1>16. \A e \in Events : cache[e].gen <= sync.gen
  BY DEF Typed
<1>17. \A e \in Events : cache'[e] \in {rows[e], NoRow}
  <2>1. CASE session[w].cursor = 0
    BY <1>7, <2>1, SweptRow
  <2>2. CASE session[w].cursor # 0
    BY <1>7, <2>2
  <2> QED BY <2>1, <2>2
<1>18. cache' = [e \in Events |-> cache'[e]]
  BY <1>7, <1>15 DEF Swept
<1>19. NoRow \in CacheRow /\ NoRow.ver = 0 /\ NoRow.gen = 0
  BY DEF NoRow, CacheRow
<1>20. \A e \in Events : cache'[e] \in CacheRow
  BY <1>15, <1>17, <1>19
<1>21. cache' \in [Events -> CacheRow]
  BY <1>18, <1>20
<1>22. \A e \in Events : cache'[e].ver <= version /\ cache'[e].gen <= sync'.gen
  BY <1>12, <1>13, <1>15, <1>16, <1>17, <1>19, SessionFields
<1>23. quarantine' \subseteq Objects
  BY <1>1, <1>7, SessionFields, QuarantinedObjects
<1>24. SessionFits(IdleSession, sync'.gen)
  BY <1>12, IdleTyped, SessionFields DEF SessionFits
<1>25. /\ sync'.cursor <= version /\ sync.gen <= sync'.gen
       /\ (sync'.lease = "none") <=> (sync'.owner = None)
  BY <1>9, <1>12, SessionFields
<1>26. Typed'
  BY <1>7, <1>12, <1>21, <1>22, <1>23, <1>24, <1>25, IdleTyped, RunTyped
<1>27. /\ \/ sync'.cursor = session[w].cursor
          \/ sync'.cursor = 0
          \/ /\ sync'.cursor = session[w].upTo
             /\ ~session[w].degraded /\ Quarantined(session[w].body) = {}
       /\ sync'.status = "ready" =>
             ~session[w].degraded /\ Quarantined(session[w].body) = {}
  BY <1>1, <1>9, <1>12
<1> QED BY <1>1, <1>2, <1>7, <1>12, <1>26, <1>27

(* Steps of everyone else leave the runs alone. *)
LEMMA StandsTyped ==
    ASSUME Typed, UNCHANGED <<quarantine, session>>,
           version' \in 1..MaxVersion, version <= version', content' \in [Objects -> Body],
           \A o \in Objects :
               /\ content'[o].ver \in 1..version' /\ content'[o].members \subseteq EventsOf(o)
               /\ ~content'[o].ok => content'[o].members = {},
           enabled' \in BOOLEAN,
           sync' \in SyncRow, sync'.cursor <= version', sync.gen <= sync'.gen,
           (sync'.lease = "none") <=> (sync'.owner = None),
           cache' \in [Events -> CacheRow],
           \A e \in Events : cache'[e].ver <= version' /\ cache'[e].gen <= sync'.gen,
           write' \in WriteRow, write'.ver <= version', writes' \in 0..MaxWrites,
           write'.stage = "record" => write'.event \in Events
    PROVE  Typed'
<1>1. version \in Nat /\ version' \in Nat /\ sync.gen \in Nat /\ sync'.gen \in Nat
  BY ReadModelConstants DEF Typed, SyncRow
<1>2. ASSUME NEW w \in Workers
      PROVE  /\ session'[w].cursor <= version' /\ session'[w].upTo <= version'
             /\ session'[w].beat <= session'[w].gen /\ session'[w].gen <= sync'.gen
             /\ session'[w].pc # "idle" => session'[w].gen > 0
             /\ \A o \in DOMAIN session'[w].body : session'[w].body[o].ver <= version'
  <2>1. session[w] \in SessionRow /\ session' = session
    BY DEF Typed
  <2>2. /\ session[w].cursor \in Nat /\ session[w].upTo \in Nat /\ session[w].gen \in Nat
        /\ \A o \in DOMAIN session[w].body : session[w].body[o].ver \in Nat
    BY <2>1 DEF SessionRow, Bodies, Body
  <2>3. /\ session[w].cursor <= version /\ session[w].upTo <= version
        /\ session[w].gen <= sync.gen
        /\ \A o \in DOMAIN session[w].body : session[w].body[o].ver <= version
        /\ session[w].beat <= session[w].gen
        /\ session[w].pc # "idle" => session[w].gen > 0
    BY DEF Typed
  <2> QED BY <1>1, <2>1, <2>2, <2>3
<1>3. session' \in [Workers -> SessionRow] /\ quarantine' \subseteq Objects
  BY DEF Typed
<1> QED BY <1>2, <1>3 DEF Typed

(* What the row, the provider and a UI mutation are before a step. *)
LEMMA StateFields ==
    ASSUME Typed
    PROVE  /\ version \in 1..MaxVersion /\ version \in Nat /\ MaxVersion \in Nat
           /\ content \in [Objects -> Body] /\ enabled \in BOOLEAN
           /\ \A o \in Objects :
                /\ content[o].ver \in 1..version /\ content[o].members \subseteq EventsOf(o)
                /\ ~content[o].ok => content[o].members = {}
           /\ sync \in SyncRow /\ sync.cursor <= version /\ sync.cursor \in Nat
           /\ sync.gen \in Nat /\ MaxGen \in Nat
           /\ (sync.lease = "none") <=> (sync.owner = None)
           /\ cache \in [Events -> CacheRow]
           /\ \A e \in Events : cache[e].ver <= version /\ cache[e].gen <= sync.gen
           /\ write \in WriteRow /\ write.ver <= version /\ writes \in 0..MaxWrites
           /\ write.stage = "record" => write.event \in Events
BY ReadModelConstants DEF Typed, SyncRow

(* A step that changes the row alone. *)
LEMMA RowAloneTyped ==
    ASSUME Typed, UNCHANGED <<provider, cache, quarantine, session, writes>>,
           enabled' \in BOOLEAN, write' \in {write, NoWrite},
           sync' \in SyncRow, sync'.cursor <= version, sync.gen <= sync'.gen,
           (sync'.lease = "none") <=> (sync'.owner = None)
    PROVE  Typed'
<1>1. version' = version /\ content' = content /\ cache' = cache /\ writes' = writes
  BY DEF provider
<1>2. write' \in WriteRow /\ write'.ver <= version' /\ (write'.stage = "record" => write'.event \in Events)
  <2>1. NoWrite \in WriteRow /\ NoWrite.ver = 0 /\ NoWrite.stage = "none"
    BY DEF NoWrite, WriteRow
  <2> QED BY <1>1, <2>1, StateFields
<1>3. \A e \in Events : cache'[e].ver <= version' /\ cache'[e].gen <= sync'.gen
  <2>1. sync'.gen \in Nat /\ \A e \in Events : cache[e].gen \in Nat
    BY StateFields DEF SyncRow, CacheRow
  <2> QED BY <1>1, <2>1, StateFields
<1>4. version' \in 1..MaxVersion /\ version <= version' /\ sync'.cursor <= version'
  BY <1>1, StateFields
<1> QED BY <1>1, <1>2, <1>3, <1>4, StateFields, StandsTyped

(* Claims, resets and runs apart, a step on the row leaves no lease live   *)
(* and the cursor where it was or empty.                                   *)
LEMMA RowStepTyped ==
    ASSUME Typed,
           \/ LeaseExpires \/ ScheduleCalendarSync \/ SetCalendarEnabled
           \/ UpdateConnectionVerification \/ ScheduleAfterWrite
    PROVE  /\ Typed'
           /\ sync' = sync \/ (sync'.lease # "live" /\ sync'.cursor \in {0, sync.cursor})
           /\ write' \in {write, NoWrite}
           /\ UNCHANGED <<provider, cache, quarantine, session, writes>>
<1>1. UNCHANGED <<provider, cache, quarantine, session, writes>> /\ write' \in {write, NoWrite}
  BY DEF LeaseExpires, ScheduleCalendarSync, SetCalendarEnabled, UpdateConnectionVerification,
         ScheduleAfterWrite
<1>2. enabled' \in BOOLEAN
  BY StateFields DEF LeaseExpires, ScheduleCalendarSync, SetCalendarEnabled,
         UpdateConnectionVerification, ScheduleAfterWrite
<1>3. "pending" \in Statuses /\ Parked \subseteq Statuses /\ "expired" \in Leases
  BY DEF Statuses, Leases
<1>4. ASSUME sync' \in SyncRow, sync'.lease # "live", sync'.cursor \in {0, sync.cursor},
             sync.gen <= sync'.gen, (sync'.lease = "none") <=> (sync'.owner = None)
      PROVE  Typed'
  BY <1>1, <1>2, <1>4, StateFields, RowAloneTyped
<1>5. ASSUME sync' = sync PROVE Typed'
  <2>1. sync.gen <= sync'.gen
    BY <1>5, StateFields
  <2> QED BY <1>1, <1>2, <1>5, <2>1, StateFields, RowAloneTyped
<1>6. ASSUME sync' = Scheduled(sync)
      PROVE  /\ sync' \in SyncRow /\ sync'.lease # "live" /\ sync'.cursor = sync.cursor
             /\ sync'.gen = sync.gen /\ sync'.lease = "none" /\ sync'.owner = None
  <2>1. PICK row : row = [sync EXCEPT !.status = "pending"]
    OBVIOUS
  <2>2. row \in SyncRow /\ row.cursor = sync.cursor /\ row.gen = sync.gen
    BY <1>3, <2>1, StateFields, RowTyped
  <2>3. sync' = Unowned(row)
    BY <1>6, <2>1 DEF Scheduled
  <2> QED BY <1>3, <2>2, <2>3, RowTyped
<1>7. CASE LeaseExpires
  <2>1. sync' \in SyncRow /\ sync'.lease = "expired" /\ sync'.cursor = sync.cursor
        /\ sync'.gen = sync.gen /\ sync'.owner = sync.owner /\ sync.lease = "live"
    BY <1>3, <1>7, StateFields DEF LeaseExpires, Leased, SyncRow
  <2>2. (sync'.lease = "none") <=> (sync'.owner = None)
    BY <2>1, StateFields
  <2>3. sync.gen <= sync'.gen
    BY <2>1, StateFields
  <2> QED BY <1>1, <1>4, <2>1, <2>2, <2>3
<1>8. CASE ScheduleCalendarSync
  <2>1. sync' = Scheduled(sync)
    BY <1>8 DEF ScheduleCalendarSync
  <2>2. sync.gen <= sync'.gen
    BY <1>6, <2>1, StateFields
  <2> QED BY <1>1, <1>4, <1>6, <2>1, <2>2
<1>9. CASE SetCalendarEnabled
  <2>1. PICK status : status = IF enabled' \/ sync.status \notin Parked THEN "pending" ELSE sync.status
    OBVIOUS
  <2>2. status \in Statuses
    BY <1>3, <2>1
  <2>3. PICK row : row = [sync EXCEPT !.cursor = 0, !.gen = @ + 1, !.status = status]
    OBVIOUS
  <2>4. sync.gen < MaxGen
    BY <1>9 DEF SetCalendarEnabled
  <2>5. row \in SyncRow /\ row.cursor = 0 /\ row.gen = sync.gen + 1
    BY <2>2, <2>3, <2>4, StateFields, RestartedTyped
  <2>6. sync' = Unowned(row)
    BY <1>9, <2>1, <2>3 DEF SetCalendarEnabled
  <2>7. /\ sync' \in SyncRow /\ sync'.lease = "none" /\ sync'.owner = None
        /\ sync'.cursor = 0 /\ sync'.gen = sync.gen + 1
    BY <1>3, <2>5, <2>6, RowTyped
  <2>8. sync.gen <= sync'.gen
    BY <2>7, StateFields
  <2> QED BY <1>1, <1>4, <2>7, <2>8
<1>10. CASE UpdateConnectionVerification
  <2>1. sync' = [sync EXCEPT !.status = "pending"] /\ sync.lease # "live"
    BY <1>10 DEF UpdateConnectionVerification, Leased
  <2>2. /\ sync' \in SyncRow /\ sync'.cursor = sync.cursor /\ sync'.gen = sync.gen
        /\ sync'.owner = sync.owner /\ sync'.lease = sync.lease
    BY <1>3, <2>1, StateFields, RowTyped
  <2>3. sync.gen <= sync'.gen
    BY <2>2, StateFields
  <2> QED BY <1>1, <1>4, <2>1, <2>2, <2>3, StateFields
<1>11. CASE ScheduleAfterWrite
  <2>1. sync' = Scheduled(sync) \/ sync' = sync
    BY <1>11 DEF ScheduleAfterWrite
  <2>2. CASE sync' = Scheduled(sync)
    <3>1. sync.gen <= sync'.gen
      BY <1>6, <2>2, StateFields
    <3> QED BY <1>1, <1>4, <1>6, <2>2, <3>1
  <2> QED BY <1>1, <1>5, <2>1, <2>2
<1> QED BY <1>7, <1>8, <1>9, <1>10, <1>11

(* A new day: an empty cursor in a new generation, and objects that may    *)
(* have other members.                                                     *)
LEMMA EnsureTyped ==
    ASSUME Typed, EnsureCalendarSyncStates
    PROVE  /\ Typed'
           /\ sync'.lease = "none" /\ sync'.cursor = 0
           /\ UNCHANGED <<version, cache, quarantine, session, write, writes>>
<1>1. /\ UNCHANGED <<version, enabled, cache, quarantine, session, write, writes>>
      /\ sync.gen < MaxGen /\ sync' = Rebased(sync)
  BY DEF EnsureCalendarSyncStates
<1>2a. PICK o \in Objects : \E members \in SUBSET EventsOf(o) :
        content' = [content EXCEPT ![o].members = IF content[o].ok THEN members ELSE {}]
  BY DEF EnsureCalendarSyncStates
<1>2. PICK members \in SUBSET EventsOf(o) :
        content' = [content EXCEPT ![o].members = IF content[o].ok THEN members ELSE {}]
  BY <1>2a
<1>3. PICK m \in SUBSET EventsOf(o) : m = IF content[o].ok THEN members ELSE {}
  OBVIOUS
<1>4. PICK c : c = [content[o] EXCEPT !.members = m]
  OBVIOUS
<1>5. content' = [content EXCEPT ![o] = c]
  BY <1>2, <1>3, <1>4, StateFields
<1>6. m \subseteq Events
  BY <1>3 DEF EventsOf
<1>7. c \in Body /\ c.ver = content[o].ver /\ c.members = m /\ c.ok = content[o].ok
  BY <1>4, <1>6, StateFields DEF Body
<1>8. content' \in [Objects -> Body]
  BY <1>5, <1>7, StateFields
<1>9. ASSUME NEW x \in Objects
      PROVE  /\ content'[x].ver \in 1..version' /\ content'[x].members \subseteq EventsOf(x)
             /\ ~content'[x].ok => content'[x].members = {}
  <2>1. CASE x = o
    <3>1. content'[x] = c
      BY <1>5, <2>1, StateFields
    <3>2. c.members = {} \/ content[o].ok
      BY <1>3, <1>7
    <3> QED BY <1>1, <1>3, <1>7, <2>1, <3>1, <3>2, StateFields
  <2>2. CASE x # o
    <3>1. content'[x] = content[x]
      BY <1>5, <2>2, StateFields
    <3> QED BY <1>1, <3>1, StateFields
  <2> QED BY <2>1, <2>2
<1>10. PICK status : status = IF sync.status \in Parked THEN sync.status ELSE "pending"
  OBVIOUS
<1>11. status \in Statuses
  BY <1>10, StateFields DEF Statuses
<1>12. PICK row : row = [sync EXCEPT !.cursor = 0, !.gen = @ + 1, !.status = status]
  OBVIOUS
<1>13. row \in SyncRow /\ row.cursor = 0 /\ row.gen = sync.gen + 1
  BY <1>1, <1>11, <1>12, StateFields, RestartedTyped
<1>14. sync' = Unowned(row)
  BY <1>1, <1>10, <1>12 DEF Rebased
<1>15. /\ sync' \in SyncRow /\ sync'.lease = "none" /\ sync'.owner = None
       /\ sync'.cursor = 0 /\ sync'.gen = sync.gen + 1
  BY <1>11, <1>13, <1>14, RowTyped
<1>16. sync.gen <= sync'.gen /\ sync'.cursor <= version' /\ version <= version'
  BY <1>1, <1>15, StateFields
<1>17. \A e \in Events : cache'[e].ver <= version' /\ cache'[e].gen <= sync'.gen
  <2>1. \A e \in Events : cache[e].gen \in Nat
    BY StateFields DEF CacheRow
  <2> QED BY <1>1, <1>15, <2>1, StateFields
<1>18. Typed'
  <2>1. enabled' \in BOOLEAN /\ cache' \in [Events -> CacheRow] /\ version' \in 1..MaxVersion
        /\ write' \in WriteRow /\ write'.ver <= version' /\ writes' \in 0..MaxWrites
        /\ (write'.stage = "record" => write'.event \in Events)
    BY <1>1, StateFields
  <2>2. UNCHANGED <<quarantine, session>>
    BY <1>1
  <2> QED BY <1>8, <1>9, <1>15, <1>16, <1>17, <2>1, <2>2, StandsTyped
<1> QED BY <1>1, <1>15, <1>18

(* The provider moves on to a newer version of one object. *)
LEMMA ContentTyped ==
    ASSUME Typed, NEW o \in Objects, NEW c \in Body,
           version < MaxVersion, version' = version + 1, content' = [content EXCEPT ![o] = c],
           c.ver = version + 1, c.members \subseteq EventsOf(o), ~c.ok => c.members = {},
           write' \in WriteRow, write'.ver <= version', write'.stage = "record" => write'.event \in Events,
           writes' \in 0..MaxWrites, UNCHANGED <<store, session>>
    PROVE  Typed'
<1>1. version' \in 1..MaxVersion /\ version <= version' /\ version' \in Nat
  BY StateFields
<1>2. content' \in [Objects -> Body]
  BY StateFields
<1>3. ASSUME NEW x \in Objects
      PROVE  /\ content'[x].ver \in 1..version' /\ content'[x].members \subseteq EventsOf(x)
             /\ ~content'[x].ok => content'[x].members = {}
  <2>1. CASE x = o
    <3>1. content'[x] = c
      BY <2>1, StateFields
    <3>2. c.ver \in 1..version'
      BY StateFields
    <3> QED BY <2>1, <3>1, <3>2
  <2>2. CASE x # o
    <3>1. content'[x] = content[x]
      BY <2>2, StateFields
    <3>2. content[x].ver \in 1..version'
      BY StateFields
    <3> QED BY <3>1, <3>2, StateFields
  <2> QED BY <2>1, <2>2
<1>4. UNCHANGED <<enabled, sync, cache, quarantine, session>>
  BY DEF store
<1>5. /\ sync' \in SyncRow /\ sync'.cursor <= version' /\ sync.gen <= sync'.gen
      /\ enabled' \in BOOLEAN /\ cache' \in [Events -> CacheRow]
      /\ (sync'.lease = "none") <=> (sync'.owner = None)
  BY <1>4, StateFields
<1>6. \A e \in Events : cache'[e].ver <= version' /\ cache'[e].gen <= sync'.gen
  <2>1. \A e \in Events : cache[e].ver \in Nat
    BY StateFields DEF CacheRow
  <2> QED BY <1>4, <2>1, StateFields
<1>7. UNCHANGED <<quarantine, session>>
  BY <1>4
<1>8. version' \in 1..MaxVersion /\ version <= version'
  BY <1>1
<1> QED BY <1>1, <1>2, <1>3, <1>5, <1>6, <1>7, <1>8, StandsTyped

(* A change made elsewhere. *)
LEMMA ProviderChangeTyped ==
    ASSUME Typed, NEW o \in Objects, ProviderChange(o)
    PROVE  /\ Typed'
           /\ version' = version + 1
           /\ \E c \in Body : content' = [content EXCEPT ![o] = c] /\ c.ver = version + 1
           /\ UNCHANGED <<store, session, write, writes>>
<1>1. /\ version < MaxVersion /\ version' = version + 1
      /\ UNCHANGED <<store, session, write, writes>>
  BY DEF ProviderChange
<1>2. PICK c \in ContentOf(o) : c.ver = version + 1 /\ content' = [content EXCEPT ![o] = c]
  BY DEF ProviderChange
<1>3. c \in Body /\ c.members \subseteq EventsOf(o) /\ (~c.ok => c.members = {})
  <2>0. 1..MaxVersion \subseteq Nat /\ EventsOf(o) \subseteq Events
    BY DEF EventsOf
  <2>1. CASE c \in [ver : 1..MaxVersion, members : SUBSET EventsOf(o), ok : {TRUE}]
    <3>1. c.ver \in Nat /\ c.members \subseteq EventsOf(o) /\ c.ok = TRUE
      BY <2>0, <2>1
    <3>2. c = [ver |-> c.ver, members |-> c.members, ok |-> c.ok]
      BY <2>1
    <3>3. c \in Body
      BY <2>0, <3>1, <3>2 DEF Body
    <3> QED BY <3>1, <3>3
  <2>2. CASE c \in [ver : 1..MaxVersion, members : {{}}, ok : {FALSE}]
    <3>1. c.ver \in Nat /\ c.members = {} /\ c.ok = FALSE
      BY <2>0, <2>2
    <3>2. c = [ver |-> c.ver, members |-> c.members, ok |-> c.ok]
      BY <2>2
    <3>3. c \in Body
      BY <2>0, <3>1, <3>2 DEF Body
    <3> QED BY <3>1, <3>3
  <2> QED BY <2>1, <2>2 DEF ContentOf
<1>4. write' \in WriteRow /\ write'.ver <= version' /\ writes' \in 0..MaxWrites
      /\ (write'.stage = "record" => write'.event \in Events)
  <2>1. write.ver \in Nat
    BY StateFields DEF WriteRow
  <2> QED BY <1>1, <2>1, StateFields
<1>5. UNCHANGED <<store, session>>
  BY <1>1
<1>6. Typed'
  BY <1>1, <1>2, <1>3, <1>4, <1>5, ContentTyped
<1> QED BY <1>1, <1>2, <1>3, <1>6

(* A mutation made through the UI. *)
LEMMA UIMutationTyped ==
    ASSUME Typed, NEW e \in Events, UIMutation(e)
    PROVE  Typed' /\ writes < MaxWrites /\ UNCHANGED <<store, session>>
<1>1. PICK o : o = ObjectOf[e]
  OBVIOUS
<1>2. o \in Objects
  BY <1>1, ReadModelConstants
<1>3. /\ write = NoWrite /\ writes < MaxWrites /\ version < MaxVersion
      /\ version' = version + 1 /\ writes' = writes + 1 /\ UNCHANGED <<store, session>>
  BY DEF UIMutation
<1>4. PICK deleted \in BOOLEAN :
        /\ content' = [content EXCEPT ![o] =
                [ver |-> version + 1, ok |-> TRUE,
                 members |-> IF deleted THEN content[o].members \ {e} ELSE content[o].members]]
        /\ write' = [stage |-> "record", event |-> e, ver |-> version + 1, deleted |-> deleted]
  BY <1>1 DEF UIMutation
<1>5. PICK members : members = IF deleted THEN content[o].members \ {e} ELSE content[o].members
  OBVIOUS
<1>6. members \subseteq EventsOf(o) /\ members \subseteq Events
  BY <1>2, <1>5, StateFields DEF EventsOf
<1>7. PICK c : c = [ver |-> version + 1, ok |-> TRUE, members |-> members]
  OBVIOUS
<1>8. content' = [content EXCEPT ![o] = c]
  BY <1>4, <1>5, <1>7
<1>9. version + 1 \in Nat /\ version + 1 <= version'
  BY <1>3, StateFields
<1>10. c \in Body /\ c.ver = version + 1 /\ c.members = members /\ c.ok = TRUE
  BY <1>6, <1>7, <1>9 DEF Body
<1>11. write' \in WriteRow /\ write'.ver = version + 1 /\ write'.event = e
  BY <1>4, <1>9 DEF WriteRow
<1>12. writes' \in 0..MaxWrites
  <2>1. MaxWrites \in Nat
    BY ReadModelConstants
  <2> QED BY <1>3, <2>1, StateFields
<1>13. UNCHANGED <<store, session>>
  BY <1>3
<1>14. c.ver = version + 1 /\ c.members \subseteq EventsOf(o) /\ (~c.ok => c.members = {})
       /\ write'.ver <= version' /\ (write'.stage = "record" => write'.event \in Events)
  BY <1>6, <1>9, <1>10, <1>11
<1>15. Typed'
  BY <1>2, <1>3, <1>8, <1>10, <1>11, <1>12, <1>13, <1>14, ContentTyped
<1> QED BY <1>3, <1>15

(* The mutation is recorded in the cache, or forgotten. *)
LEMMA RecordTyped ==
    ASSUME Typed, UpsertCachedEvent \/ DeleteCachedEvent \/ LeaveToSync \/ ForgetWrite
    PROVE  /\ Typed'
           /\ write # NoWrite
           /\ UNCHANGED <<provider, enabled, sync, quarantine, session, writes>>
<1>1. /\ UNCHANGED <<provider, enabled, sync, quarantine, session, writes>>
      /\ write' \in {NoWrite, [write EXCEPT !.stage = "schedule"]}
  BY DEF UpsertCachedEvent, DeleteCachedEvent, LeaveToSync, ForgetWrite, store
<1>2. write # NoWrite
  BY DEF UpsertCachedEvent, DeleteCachedEvent, LeaveToSync, ForgetWrite, NoWrite
<1>3. version' = version /\ content' = content /\ sync' = sync /\ enabled' = enabled
      /\ quarantine' = quarantine /\ session' = session /\ writes' = writes
  BY <1>1 DEF provider
<1>4. write' \in WriteRow /\ write'.ver <= version' /\ write'.stage \in {"none", "schedule"}
  <2>1. NoWrite \in WriteRow /\ NoWrite.ver = 0 /\ NoWrite.stage = "none"
    BY DEF NoWrite, WriteRow
  <2>2. PICK scheduled : scheduled = [write EXCEPT !.stage = "schedule"]
    OBVIOUS
  <2>3. scheduled \in WriteRow /\ scheduled.ver = write.ver /\ scheduled.stage = "schedule"
    BY <2>2, StateFields DEF WriteRow
  <2>4. version \in Nat /\ write.ver <= version
    BY StateFields
  <2>5. CASE write' = NoWrite
    BY <1>3, <2>1, <2>4, <2>5
  <2>6. CASE write' = scheduled
    BY <1>3, <2>3, <2>4, <2>6
  <2> QED BY <1>1, <2>2, <2>5, <2>6
<1>5. \/ cache' = cache
      \/ \E e \in Events, row \in CacheRow :
            cache' = [cache EXCEPT ![e] = row] /\ row.ver <= version /\ row.gen <= sync.gen
  <2>1. CASE UpsertCachedEvent
    <3>1. write.stage = "record"
          /\ cache' = [cache EXCEPT ![write.event] =
                [ver |-> write.ver, gen |-> sync.gen, src |-> SelfObject[write.event]]]
      BY <2>1 DEF UpsertCachedEvent
    <3>2. write.event \in Events
      BY <3>1, StateFields
    <3>3. SelfObject[write.event] \in Objects \cup {None} /\ write.ver \in Nat /\ sync.gen \in Nat
      BY <3>2, ReadModelConstants, StateFields DEF WriteRow
    <3>4. PICK row : row = [ver |-> write.ver, gen |-> sync.gen, src |-> SelfObject[write.event]]
      OBVIOUS
    <3>5. row \in CacheRow /\ row.ver = write.ver /\ row.gen = sync.gen
      BY <3>3, <3>4 DEF CacheRow
    <3>6. row.ver <= version /\ row.gen <= sync.gen
      BY <3>5, StateFields
    <3>7. cache' = [cache EXCEPT ![write.event] = row]
      BY <3>1, <3>4
    <3> QED BY <3>2, <3>5, <3>6, <3>7
  <2>2. CASE DeleteCachedEvent
    <3>1. write.stage = "record" /\ cache' = [cache EXCEPT ![write.event] = NoRow]
      BY <2>2 DEF DeleteCachedEvent
    <3>2. write.event \in Events
      BY <3>1, StateFields
    <3>3. NoRow \in CacheRow /\ NoRow.ver <= version /\ NoRow.gen <= sync.gen
      BY StateFields DEF NoRow, CacheRow
    <3> QED BY <3>1, <3>2, <3>3
  <2>3. CASE LeaveToSync \/ ForgetWrite
    BY <2>3 DEF LeaveToSync, ForgetWrite, store
  <2> QED BY <2>1, <2>2, <2>3
<1>6. cache' \in [Events -> CacheRow] /\ \A e \in Events : cache'[e].ver <= version' /\ cache'[e].gen <= sync'.gen
  <2>1. CASE cache' = cache
    BY <1>3, <2>1, StateFields
  <2>2. ASSUME NEW e \in Events, NEW row \in CacheRow,
               cache' = [cache EXCEPT ![e] = row], row.ver <= version, row.gen <= sync.gen
        PROVE  /\ cache' \in [Events -> CacheRow]
               /\ \A x \in Events : cache'[x].ver <= version' /\ cache'[x].gen <= sync'.gen
    <3>1. cache' \in [Events -> CacheRow]
      BY <2>2, StateFields
    <3>2. ASSUME NEW x \in Events
          PROVE  cache'[x].ver <= version' /\ cache'[x].gen <= sync'.gen
      <4>1. cache'[x] = IF x = e THEN row ELSE cache[x]
        BY <2>2, StateFields
      <4> QED BY <1>3, <2>2, <4>1, StateFields
    <3> QED BY <3>1, <3>2
  <2> QED BY <1>5, <2>1, <2>2
<1>7. version' \in 1..MaxVersion /\ version <= version' /\ sync.gen <= sync'.gen
      /\ sync'.cursor <= version' /\ content' \in [Objects -> Body] /\ sync' \in SyncRow
      /\ enabled' \in BOOLEAN /\ writes' \in 0..MaxWrites
  BY <1>3, StateFields
<1>8. \A o \in Objects :
        /\ content'[o].ver \in 1..version' /\ content'[o].members \subseteq EventsOf(o)
        /\ ~content'[o].ok => content'[o].members = {}
  BY <1>3, StateFields
<1>9. (sync'.lease = "none") <=> (sync'.owner = None)
  BY <1>3, StateFields
<1>10. UNCHANGED <<quarantine, session>> /\ (write'.stage = "record" => write'.event \in Events)
  BY <1>3, <1>4
<1>11. Typed'
  BY <1>4, <1>6, <1>7, <1>8, <1>9, <1>10, StandsTyped
<1> QED BY <1>1, <1>2, <1>11

(* A new calendar has no rows, no claim and no quarantine. *)
LEMMA InitTyped == Init => Typed
<1> SUFFICES ASSUME Init PROVE Typed
  OBVIOUS
<1>1. MaxVersion \in Nat \ {0} /\ MaxGen \in Nat /\ MaxWrites \in Nat
  BY ReadModelConstants
<1>2. version = 1 /\ version \in 1..MaxVersion /\ writes \in 0..MaxWrites /\ enabled \in BOOLEAN
      /\ quarantine \subseteq Objects
  BY <1>1 DEF Init
<1>3. content \in [Objects -> Content]
      /\ \A o \in Objects : content[o] \in ContentOf(o) /\ content[o].ver = 1
  BY DEF Init
<1>4. ASSUME NEW o \in Objects
      PROVE  /\ content[o] \in Body
             /\ content[o].ver \in 1..version /\ content[o].members \subseteq EventsOf(o)
             /\ ~content[o].ok => content[o].members = {}
  <2>1. EventsOf(o) \subseteq Events /\ content[o].ver = 1 /\ content[o].ver \in 1..version
    BY <1>2, <1>3 DEF EventsOf
  <2>2. CASE content[o] \in [ver : 1..MaxVersion, members : SUBSET EventsOf(o), ok : {TRUE}]
    <3>1. content[o].members \subseteq EventsOf(o) /\ content[o].ok = TRUE
      BY <2>2
    <3>2. content[o] = [ver |-> content[o].ver, members |-> content[o].members, ok |-> content[o].ok]
      BY <2>2
    <3>3. content[o].ver \in Nat
      BY <2>1
    <3>5. content[o].members \subseteq Events
      BY <2>1, <3>1
    <3>6. content[o].ok \in BOOLEAN
      BY <3>1
    <3>4. content[o] \in Body
      BY <3>2, <3>3, <3>5, <3>6 DEF Body
    <3> QED BY <2>1, <3>1, <3>4
  <2>3. CASE content[o] \in [ver : 1..MaxVersion, members : {{}}, ok : {FALSE}]
    <3>1. content[o].members = {} /\ content[o].ok = FALSE
      BY <2>3
    <3>2. content[o] = [ver |-> content[o].ver, members |-> content[o].members, ok |-> content[o].ok]
      BY <2>3
    <3>3. content[o].ver \in Nat
      BY <2>1
    <3>5. content[o].members \subseteq Events
      BY <2>1, <3>1
    <3>6. content[o].ok \in BOOLEAN
      BY <3>1
    <3>4. content[o] \in Body
      BY <3>2, <3>3, <3>5, <3>6 DEF Body
    <3> QED BY <2>1, <3>1, <3>4
  <2> QED BY <1>3, <2>2, <2>3 DEF ContentOf
<1>5. content \in [Objects -> Body]
  <2>1. content = [o \in Objects |-> content[o]]
    BY <1>3
  <2> QED BY <1>4, <2>1
<1>6. /\ sync \in SyncRow /\ sync.cursor = 0 /\ sync.gen = 0
      /\ sync.lease = "none" /\ sync.owner = None
  BY <1>1 DEF Init, SyncRow, Statuses, Leases
<1>7. cache \in [Events -> CacheRow] /\ \A e \in Events : cache[e].ver = 0 /\ cache[e].gen = 0
  BY DEF Init, NoRow, CacheRow
<1>8. session \in [Workers -> SessionRow] /\ \A w \in Workers : session[w] = IdleSession
  BY IdleTyped DEF Init
<1>9. \A w \in Workers :
        /\ session[w].cursor <= version /\ session[w].upTo <= version
        /\ session[w].beat <= session[w].gen /\ session[w].gen <= sync.gen
        /\ session[w].pc # "idle" => session[w].gen > 0
        /\ \A o \in DOMAIN session[w].body : session[w].body[o].ver <= version
  BY <1>2, <1>6, <1>8, IdleTyped
<1>10. write \in WriteRow /\ write.ver = 0 /\ write.stage = "none"
  BY DEF Init, NoWrite, WriteRow
<1>11. sync.cursor <= version /\ (\A e \in Events : cache[e].ver <= version /\ cache[e].gen <= sync.gen)
       /\ write.ver <= version
  BY <1>2, <1>6, <1>7, <1>10
<1> QED BY <1>2, <1>4, <1>5, <1>6, <1>7, <1>8, <1>9, <1>10, <1>11 DEF Typed

(* Every step leaves the rows, the runs and the provider well formed. *)
LEMMA NextTyped == Typed /\ [Next]_vars => Typed'
<1> SUFFICES ASSUME Typed, [Next]_vars PROVE Typed'
  OBVIOUS
<1>1. CASE UNCHANGED vars
  BY <1>1 DEF vars, Typed
<1>2. ASSUME NEW o \in Objects, ProviderChange(o) PROVE Typed'
  BY <1>2, ProviderChangeTyped
<1>3. CASE \/ LeaseExpires \/ ScheduleCalendarSync \/ SetCalendarEnabled
           \/ UpdateConnectionVerification \/ ScheduleAfterWrite
  BY <1>3, RowStepTyped
<1>4. CASE EnsureCalendarSyncStates
  BY <1>4, EnsureTyped
<1>5. ASSUME NEW w \in Workers,
             \/ ClaimDueCalendarSync(w)
             \/ \E resets \in 0..MaxResets : ResetCalendarSync(w, resets)
      PROVE  Typed'
  BY <1>5, BeginsTyped
<1>6. ASSUME NEW w \in Workers, ProviderReset(w) \/ CaptureReset(w)
      PROVE  \E resets \in 0..MaxResets : ResetCalendarSync(w, resets)
  <2>1. session[w].resets \in 0..MaxResets
    BY SessionFields DEF SessionRow
  <2>2. CASE ProviderReset(w)
    <3>1. session[w].resets < MaxResets /\ ResetCalendarSync(w, session[w].resets + 1)
      BY <2>2 DEF ProviderReset
    <3>2. session[w].resets + 1 \in 0..MaxResets
      BY <2>1, <3>1, ReadModelConstants
    <3> QED BY <3>1, <3>2
  <2>3. CASE CaptureReset(w)
    BY <2>1, <2>3 DEF CaptureReset
  <2> QED BY <1>6, <2>2, <2>3
<1>7. ASSUME NEW w \in Workers,
             \/ FailRun(w) \/ DeferCalendarSyncForReservation(w) \/ LeaseLost(w) \/ Cancelled(w)
      PROVE  Typed'
  BY <1>7, EndsTyped
<1>8. ASSUME NEW w \in Workers, RunStep(w) PROVE Typed'
  BY <1>7, <1>8, ReadRepairTyped, NothingToRepairTyped, ApplyTyped, FetchTyped, FinalTyped DEF RunStep
<1>9. ASSUME NEW e \in Events, UIMutation(e) PROVE Typed'
  BY <1>9, UIMutationTyped
<1>10. CASE UpsertCachedEvent \/ DeleteCachedEvent \/ LeaveToSync \/ ForgetWrite
  BY <1>10, RecordTyped
<1> QED BY <1>1, <1>2, <1>3, <1>4, <1>5, <1>6, <1>7, <1>8, <1>9, <1>10 DEF Next

(* The well-formed states have the declared types. *)
LEMMA TypedTypeOK == Typed => TypeOK
<1> SUFFICES ASSUME Typed PROVE TypeOK
  OBVIOUS
<1>1. version \in 1..MaxVersion /\ enabled \in BOOLEAN /\ quarantine \subseteq Objects
  BY DEF Typed
<1>2. ASSUME NEW o \in Objects PROVE content[o] \in Content
  <2>1. content[o] \in Body /\ content[o].ver \in 1..version
        /\ content[o].members \subseteq EventsOf(o) /\ (~content[o].ok => content[o].members = {})
    BY DEF Typed
  <2>2. content[o].ver \in 1..MaxVersion
    BY <1>1, <2>1, StateFields
  <2>5. content[o].ok \in BOOLEAN
        /\ content[o] = [ver |-> content[o].ver, members |-> content[o].members, ok |-> content[o].ok]
    BY <2>1 DEF Body
  <2>3. CASE content[o].ok = TRUE
    <3>2. content[o].ok \in {TRUE} /\ content[o].members \in SUBSET EventsOf(o)
      BY <2>1, <2>3
    <3>1. content[o] \in [ver : 1..MaxVersion, members : SUBSET EventsOf(o), ok : {TRUE}]
      BY <2>2, <2>5, <3>2
    <3>3. content[o] \in ContentOf(o)
      BY <3>1 DEF ContentOf
    <3> QED BY <3>3 DEF Content
  <2>4. CASE content[o].ok = FALSE
    <3>1. content[o].members \in {{}} /\ content[o].ok \in {FALSE}
      BY <2>1, <2>4
    <3>2. content[o] \in [ver : 1..MaxVersion, members : {{}}, ok : {FALSE}]
      BY <2>2, <2>5, <3>1
    <3>3. content[o] \in ContentOf(o)
      BY <3>2 DEF ContentOf
    <3> QED BY <3>3 DEF Content
  <2> QED BY <2>3, <2>4, <2>5
<1>3. content \in [Objects -> Content]
  <2>1. content = [o \in Objects |-> content[o]]
    BY DEF Typed
  <2> QED BY <1>2, <2>1
<1>4. sync \in [cursor : 0..MaxVersion, gen : 0..MaxGen, status : Statuses,
                owner : Workers \cup {None}, lease : Leases]
  <2>1. sync.cursor \in 0..MaxVersion
    BY <1>1, StateFields
  <2> QED BY <2>1, StateFields DEF SyncRow
<1>5. cache \in [Events -> [ver : 0..MaxVersion, gen : 0..MaxGen, src : Objects \cup {None}]]
  <2>1. ASSUME NEW e \in Events
        PROVE  cache[e] \in [ver : 0..MaxVersion, gen : 0..MaxGen, src : Objects \cup {None}]
    <3>1. cache[e] \in CacheRow /\ cache[e].ver <= version /\ cache[e].gen <= sync.gen
          /\ sync.gen \in 0..MaxGen
      BY DEF Typed, SyncRow
    <3> QED BY <1>1, <3>1, StateFields DEF CacheRow
  <2>2. cache = [e \in Events |-> cache[e]]
    BY DEF Typed
  <2> QED BY <2>1, <2>2
<1>6. ASSUME NEW w \in Workers
      PROVE  /\ session[w].pc \in {"idle", "claimed", "repairing", "paging", "page"}
             /\ session[w].todo \subseteq Objects /\ DOMAIN session[w].body \subseteq Objects
             /\ session[w].resets \in 0..MaxResets
             /\ session[w].gen \in session[w].beat..MaxGen
  <2>1. /\ session[w].pc \in {"idle", "claimed", "repairing", "paging", "page"}
        /\ session[w].todo \subseteq Objects /\ session[w].resets \in 0..MaxResets
    BY SessionFields DEF SessionRow
  <2>2. DOMAIN session[w].body \subseteq Objects
    BY SessionFields DEF Bodies
  <2>3. session[w].gen \in session[w].beat..MaxGen
    <3>1. sync.gen <= MaxGen
      BY StateFields DEF SyncRow
    <3> QED BY <3>1, SessionFields, StateFields DEF SessionFits
  <2> QED BY <2>1, <2>2, <2>3
<1>7. write.stage \in {"none", "record", "schedule"} /\ writes \in 0..MaxWrites
  BY DEF Typed, WriteRow
<1>8. (sync.lease = "none") <=> (sync.owner = None)
  BY DEF Typed
<1> QED BY <1>1, <1>3, <1>4, <1>5, <1>6, <1>7, <1>8 DEF TypeOK

(* The rows of a calendar keep their columns: a lease has an owner exactly *)
(* when there is one, and a heartbeat is not ahead of its run.             *)
THEOREM TypeCorrect == Spec => []TypeOK
<1>1. Spec => []Typed
  BY InitTyped, NextTyped, PTL DEF Spec
<1> QED BY <1>1, TypedTypeOK, PTL

-----------------------------------------------------------------------------
(* Rows are filed under the object that contains their event.              *)

(* Then a page replaces exactly the rows of the objects it could read.     *)
LEMMA ReplacedFiled ==
    ASSUME \A e \in Events : Live(e) => cache[e].src = ObjectOf[e],
           NEW b \in Bodies, NEW gen, NEW e \in Events, NEW o, o = ObjectOf[e]
    PROVE  /\ o \in DOMAIN b /\ b[o].ok /\ e \in b[o].members
                => /\ Replaced(b, gen)[e] = [ver |-> b[o].ver, gen |-> gen, src |-> o]
                   /\ Replaced(b, gen)[e] # NoRow
           /\ o \in DOMAIN b /\ b[o].ok /\ e \notin b[o].members => Replaced(b, gen)[e] = NoRow
           /\ ~(o \in DOMAIN b /\ b[o].ok) => Replaced(b, gen)[e] = cache[e]
<1>1. o \in Objects /\ DOMAIN b \subseteq Objects /\ None \notin Objects
  BY ReadModelConstants DEF Bodies
<1>2. NoRow.src = None
  BY DEF NoRow
<1>3. CASE o \in DOMAIN b /\ b[o].ok /\ e \in b[o].members
  <2>1. Replaced(b, gen)[e] = [ver |-> b[o].ver, gen |-> gen, src |-> o]
    BY <1>3, ReplacedRow
  <2>2. Replaced(b, gen)[e].src = o
    BY <2>1
  <2> QED BY <1>1, <1>2, <1>3, <2>1, <2>2
<1>4. CASE o \in DOMAIN b /\ b[o].ok /\ e \notin b[o].members
  <2>1. CASE Live(e)
    <3>1. cache[e].src = o
      BY <2>1
    <3> QED BY <1>4, <3>1, ReplacedRow
  <2>2. CASE cache[e] = NoRow
    <3>1. cache[e].src \notin DOMAIN b
      BY <1>1, <1>2, <2>2
    <3>2. Replaced(b, gen)[e] = cache[e]
      BY <1>4, <3>1, ReplacedRow
    <3> QED BY <1>4, <2>2, <3>2
  <2> QED BY <2>1, <2>2 DEF Live
<1>5. CASE ~(o \in DOMAIN b /\ b[o].ok)
  <2>1. cache[e].src = o \/ cache[e].src = None
    BY <1>2 DEF Live
  <2>2. ~(cache[e].src \in DOMAIN b /\ b[cache[e].src].ok)
    BY <1>1, <1>5, <2>1
  <2>3. ~(ObjectOf[e] \in DOMAIN b /\ b[ObjectOf[e]].ok /\ e \in b[ObjectOf[e]].members)
    BY <1>5
  <2>4. Replaced(b, gen)[e] = cache[e]
    BY <2>2, <2>3, ReplacedRow, ZenonT(40)
  <2> QED BY <1>5, <2>4, Zenon
<1> QED BY <1>3, <1>4, <1>5

(* The row that a page leaves of an event of object o. *)
Places(b, gen, e, o) ==
    /\ o \in DOMAIN b /\ b[o].ok /\ e \in b[o].members
         => /\ Replaced(b, gen)[e] = [ver |-> b[o].ver, gen |-> gen, src |-> o]
            /\ Replaced(b, gen)[e] # NoRow
    /\ o \in DOMAIN b /\ b[o].ok /\ e \notin b[o].members => Replaced(b, gen)[e] = NoRow
    /\ ~(o \in DOMAIN b /\ b[o].ok) => Replaced(b, gen)[e] = cache[e]

(* Where rows are filed, that is what a page leaves of each event. *)
LEMMA ReplacedPlaces ==
    ASSUME \A e \in Events : Live(e) => cache[e].src = ObjectOf[e],
           NEW b \in Bodies, NEW gen, NEW e \in Events
    PROVE  Places(b, gen, e, ObjectOf[e])
<1>1. PICK o : o = ObjectOf[e]
  OBVIOUS
<1>2. /\ o \in DOMAIN b /\ b[o].ok /\ e \in b[o].members
          => /\ Replaced(b, gen)[e] = [ver |-> b[o].ver, gen |-> gen, src |-> o]
             /\ Replaced(b, gen)[e] # NoRow
      /\ o \in DOMAIN b /\ b[o].ok /\ e \notin b[o].members => Replaced(b, gen)[e] = NoRow
      /\ ~(o \in DOMAIN b /\ b[o].ok) => Replaced(b, gen)[e] = cache[e]
  BY <1>1, ReplacedFiled
<1> QED BY <1>1, <1>2 DEF Places

(* A row after the terminal sweep is the row before it, or gone. *)
LEMMA SweptOrKept ==
    ASSUME NEW rows, NEW gen, NEW active, NEW e \in Events
    PROVE  Swept(rows, gen, active)[e] \in {rows[e], NoRow}
BY SweptRow

(* Pages, sweeps and filed API writes keep rows where they belong. *)
LEMMA FiledStep ==
    ASSUME Typed, WritesAreFiled, RowsAreFiled, [Next]_vars
    PROVE  RowsAreFiled'
<1>1. ASSUME cache' = cache, write' \in {write, NoWrite} PROVE RowsAreFiled'
  BY <1>1 DEF RowsAreFiled, Live
<1>2. CASE UNCHANGED vars
  BY <1>1, <1>2 DEF vars
<1>3. ASSUME NEW o \in Objects, ProviderChange(o) PROVE RowsAreFiled'
  BY <1>1, <1>3 DEF ProviderChange, store
<1>4. CASE \/ LeaseExpires \/ ScheduleCalendarSync \/ SetCalendarEnabled
           \/ UpdateConnectionVerification \/ ScheduleAfterWrite
  BY <1>1, <1>4, RowStepTyped
<1>5. CASE EnsureCalendarSyncStates
  BY <1>1, <1>5 DEF EnsureCalendarSyncStates
<1>6. ASSUME NEW w \in Workers,
             \/ ClaimDueCalendarSync(w) \/ ProviderReset(w) \/ CaptureReset(w)
             \/ FailRun(w) \/ DeferCalendarSyncForReservation(w) \/ LeaseLost(w) \/ Cancelled(w)
             \/ (\E o \in Objects : ReadRepair(w, o)) \/ NothingToRepair(w) \/ FetchPage(w)
      PROVE  RowsAreFiled'
  <2>1. cache' = cache /\ write' = write
    BY <1>6 DEF ClaimDueCalendarSync, ProviderReset, CaptureReset, ResetCalendarSync, FailRun,
           DeferCalendarSyncForReservation, LeaseLost, Cancelled, ReadRepair, NothingToRepair,
           FetchPage, store
  <2> QED BY <1>1, <2>1
<1>7. ASSUME NEW w \in Workers,
             ApplyEventSyncObjectRepair(w) \/ ApplyPage(w) \/ ApplyFinalPage(w)
      PROVE  RowsAreFiled'
  <2>1. PICK b \in Bodies : b = session[w].body
    BY SessionFields
  <2>2. PICK gen \in Nat : gen = session[w].gen
    BY SessionFields
  <2>3. \A e \in Events : Live(e) => cache[e].src = ObjectOf[e]
    BY DEF RowsAreFiled
  <2>4. ASSUME NEW e \in Events, Replaced(b, gen)[e] # NoRow
        PROVE  Replaced(b, gen)[e].src = ObjectOf[e]
    <3>1. PICK o : o = ObjectOf[e]
      OBVIOUS
    <3>2. Places(b, gen, e, o)
      BY <2>3, <3>1, ReplacedPlaces
    <3>3. CASE Replaced(b, gen)[e] = [ver |-> b[o].ver, gen |-> gen, src |-> o]
      BY <3>1, <3>3
    <3>4. CASE Replaced(b, gen)[e] = cache[e]
      BY <2>3, <2>4, <3>4 DEF Live
    <3> QED BY <2>4, <3>2, <3>3, <3>4 DEF Places
  <2>5. write' = write
    BY <1>7 DEF ApplyEventSyncObjectRepair, ApplyPage, ApplyFinalPage
  <2>6. \A e \in Events : cache'[e] \in {Replaced(b, gen)[e], NoRow}
    <3>1. CASE ApplyEventSyncObjectRepair(w) \/ ApplyPage(w)
      BY <2>1, <2>2, <3>1 DEF ApplyEventSyncObjectRepair, ApplyPage
    <3>2. CASE ApplyFinalPage(w)
      <4>1. cache' = IF session[w].cursor = 0
                     THEN Swept(Replaced(b, gen), gen, Quarantined(b))
                     ELSE Replaced(b, gen)
        BY <2>1, <2>2, <3>2, FinalTyped
      <4> QED BY <4>1, SweptOrKept
    <3> QED BY <1>7, <3>1, <3>2
  <2>7. \A e \in Events : cache'[e] # NoRow => cache'[e].src = ObjectOf[e]
    BY <2>4, <2>6
  <2> QED BY <2>5, <2>7 DEF RowsAreFiled, Live
<1>8. ASSUME NEW e \in Events, UIMutation(e) PROVE RowsAreFiled'
  <2>1. MaxWrites # 0
    BY <1>8, UIMutationTyped, StateFields
  <2>2. cache' = cache
    BY <1>8 DEF UIMutation, store
  <2> QED BY <2>1, <2>2 DEF RowsAreFiled, Live
<1>9. CASE UpsertCachedEvent \/ DeleteCachedEvent \/ LeaveToSync \/ ForgetWrite
  <2>1. MaxWrites # 0 /\ SelfObject = ObjectOf
    BY <1>9, RecordTyped DEF RowsAreFiled, WritesAreFiled
  <2>2. CASE UpsertCachedEvent
    <3>1. write.stage = "record"
          /\ cache' = [cache EXCEPT ![write.event] =
                [ver |-> write.ver, gen |-> sync.gen, src |-> SelfObject[write.event]]]
      BY <2>2 DEF UpsertCachedEvent
    <3>2. ASSUME NEW e \in Events, cache'[e] # NoRow PROVE cache'[e].src = ObjectOf[e]
      <4>1. CASE e = write.event
        BY <2>1, <3>1, <4>1, StateFields
      <4>2. CASE e # write.event
        <5>1. cache'[e] = cache[e]
          BY <3>1, <4>2, StateFields
        <5> QED BY <3>2, <5>1 DEF RowsAreFiled, Live
      <4> QED BY <4>1, <4>2
    <3> QED BY <2>1, <3>2 DEF RowsAreFiled, Live
  <2>3. CASE DeleteCachedEvent
    <3>1. cache' = [cache EXCEPT ![write.event] = NoRow]
      BY <2>3 DEF DeleteCachedEvent
    <3>2. \A e \in Events : cache'[e] \in {cache[e], NoRow}
      BY <3>1, StateFields
    <3>3. \A e \in Events : cache'[e] # NoRow => cache'[e].src = ObjectOf[e]
      BY <3>2 DEF RowsAreFiled, Live
    <3> QED BY <2>1, <3>3 DEF RowsAreFiled, Live
  <2>4. CASE LeaveToSync \/ ForgetWrite
    <3>1. cache' = cache
      BY <2>4 DEF LeaveToSync, ForgetWrite, store
    <3> QED BY <2>1, <3>1 DEF RowsAreFiled, Live
  <2> QED BY <1>9, <2>2, <2>3, <2>4
<1> QED BY <1>2, <1>3, <1>4, <1>5, <1>6, <1>7, <1>8, <1>9 DEF Next, RunStep

(* The first state has no rows. *)
LEMMA FiledInit == Init => RowsAreFiled
BY DEF Init, RowsAreFiled, Live

(* The rows keep their types and their places. *)
LEMMA FiledInv ==
    ASSUME WritesAreFiled
    PROVE  Spec => [](Typed /\ RowsAreFiled)
<1>1. Init => Typed /\ RowsAreFiled
  BY InitTyped, FiledInit
<1>2. Typed /\ RowsAreFiled /\ [Next]_vars => (Typed /\ RowsAreFiled)'
  BY NextTyped, FiledStep
<1> QED BY <1>1, <1>2, PTL DEF Spec

(* After a page the live rows of each object it could read are the members *)
(* the page gave (EventSyncPage.ReplacedObjectIDs): nothing of an earlier  *)
(* version survives, and the terminal sweep drops none of it, wherever API *)
(* writes are filed as the feed files its rows.                            *)
THEOREM PagesReplaceMembership ==
    ASSUME WritesAreFiled
    PROVE  Spec => PageMembershipIsExact
<1>1. ASSUME Typed, RowsAreFiled, NEW w \in Workers, ApplyPage(w) \/ ApplyFinalPage(w),
             NEW e \in Events, ObjectOf[e] \in DOMAIN session[w].body,
             session[w].body[ObjectOf[e]].ok
      PROVE  Live(e)' <=> e \in session[w].body[ObjectOf[e]].members
  <2>1. PICK b \in Bodies : b = session[w].body
    BY <1>1, SessionFields
  <2>2. PICK gen \in Nat : gen = session[w].gen
    BY <1>1, SessionFields
  <2>3. PICK o : o = ObjectOf[e]
    OBVIOUS
  <2>4. Places(b, gen, e, o)
    BY <1>1, <2>3, ReplacedPlaces DEF RowsAreFiled
  <2>5. \/ cache'[e] = Replaced(b, gen)[e]
        \/ cache' = Swept(Replaced(b, gen), gen, Quarantined(b))
    <3>1. CASE ApplyPage(w)
      BY <2>1, <2>2, <3>1 DEF ApplyPage
    <3>2. CASE ApplyFinalPage(w)
      BY <1>1, <2>1, <2>2, <3>2, FinalTyped
    <3> QED BY <1>1, <3>1, <3>2
  <2>6. o \in DOMAIN b /\ b[o].ok
    BY <1>1, <2>1, <2>3
  <2>7. CASE e \in b[o].members
    <3>1. Replaced(b, gen)[e].gen = gen /\ Replaced(b, gen)[e] # NoRow
      BY <2>4, <2>6, <2>7 DEF Places
    <3>2. cache'[e] = Replaced(b, gen)[e]
      BY <2>5, <3>1, SweptRow
    <3> QED BY <2>1, <2>3, <2>7, <3>1, <3>2 DEF Live
  <2>8. CASE e \notin b[o].members
    <3>1. Replaced(b, gen)[e] = NoRow
      BY <2>4, <2>6, <2>8 DEF Places
    <3>2. cache'[e] = NoRow
      BY <2>5, <3>1, SweptOrKept
    <3> QED BY <2>1, <2>3, <2>8, <3>2 DEF Live
  <2> QED BY <2>7, <2>8
<1>2. Typed /\ RowsAreFiled /\ [Next]_vars =>
        [\A w \in Workers : ApplyPage(w) \/ ApplyFinalPage(w) =>
            \A e \in Events : ObjectOf[e] \in DOMAIN session[w].body =>
                LET read == session[w].body[ObjectOf[e]]
                IN  read.ok => (Live(e)' <=> e \in read.members)]_vars
  BY <1>1
<1> QED BY <1>2, FiledInv, PTL DEF Spec, PageMembershipIsExact

-----------------------------------------------------------------------------
(* Where nothing but the feed writes the cache.                            *)

(* A step leaves the rows and the quarantine alone, or stores one page and *)
(* keeps what is quarantined from the sweep.                               *)
LEMMA CacheStep ==
    ASSUME Typed, RowsAreFiled, MaxWrites = 0, [Next]_vars
    PROVE  \/ UNCHANGED <<cache, quarantine>>
           \/ \E b \in Bodies, gen \in Nat :
                /\ quarantine' = Quarantined(b)
                /\ \A e \in Events :
                    \/ cache'[e] = Replaced(b, gen)[e]
                    \/ cache'[e] = NoRow /\ Replaced(b, gen)[e].src \notin Quarantined(b)
<1>1. CASE UNCHANGED vars
  BY <1>1 DEF vars
<1>2. ASSUME NEW o \in Objects, ProviderChange(o) PROVE UNCHANGED <<cache, quarantine>>
  BY <1>2 DEF ProviderChange, store
<1>3. CASE \/ LeaseExpires \/ ScheduleCalendarSync \/ SetCalendarEnabled
           \/ UpdateConnectionVerification \/ ScheduleAfterWrite
  BY <1>3, RowStepTyped
<1>4. CASE EnsureCalendarSyncStates
  BY <1>4 DEF EnsureCalendarSyncStates
<1>5. ASSUME NEW w \in Workers,
             \/ ClaimDueCalendarSync(w) \/ ProviderReset(w) \/ CaptureReset(w)
             \/ FailRun(w) \/ DeferCalendarSyncForReservation(w) \/ LeaseLost(w) \/ Cancelled(w)
             \/ (\E o \in Objects : ReadRepair(w, o)) \/ NothingToRepair(w) \/ FetchPage(w)
      PROVE  UNCHANGED <<cache, quarantine>>
  BY <1>5 DEF ClaimDueCalendarSync, ProviderReset, CaptureReset, ResetCalendarSync, FailRun,
         DeferCalendarSyncForReservation, LeaseLost, Cancelled, ReadRepair, NothingToRepair,
         FetchPage, store
<1>6. ASSUME NEW w \in Workers,
             ApplyEventSyncObjectRepair(w) \/ ApplyPage(w) \/ ApplyFinalPage(w)
      PROVE  \E b \in Bodies, gen \in Nat :
                /\ quarantine' = Quarantined(b)
                /\ \A e \in Events :
                    \/ cache'[e] = Replaced(b, gen)[e]
                    \/ cache'[e] = NoRow /\ Replaced(b, gen)[e].src \notin Quarantined(b)
  <2>1. PICK b \in Bodies : b = session[w].body
    BY SessionFields
  <2>2. PICK gen \in Nat : gen = session[w].gen
    BY SessionFields
  <2>3. quarantine' = Quarantined(b)
    BY <1>6, <2>1 DEF ApplyEventSyncObjectRepair, ApplyPage, ApplyFinalPage
  <2>4. \/ cache' = Replaced(b, gen)
        \/ cache' = Swept(Replaced(b, gen), gen, Quarantined(b))
    <3>1. CASE ApplyEventSyncObjectRepair(w) \/ ApplyPage(w)
      BY <2>1, <2>2, <3>1 DEF ApplyEventSyncObjectRepair, ApplyPage
    <3>2. CASE ApplyFinalPage(w)
      BY <2>1, <2>2, <3>2, FinalTyped
    <3> QED BY <1>6, <3>1, <3>2
  <2>5. \A e \in Events :
            \/ cache'[e] = Replaced(b, gen)[e]
            \/ cache'[e] = NoRow /\ Replaced(b, gen)[e].src \notin Quarantined(b)
    BY <2>4, SweptRow
  <2> QED BY <2>3, <2>5
<1>7. ASSUME NEW e \in Events, UIMutation(e) PROVE FALSE
  BY <1>7, UIMutationTyped, StateFields
<1>8. CASE UpsertCachedEvent \/ DeleteCachedEvent \/ LeaveToSync \/ ForgetWrite
  BY <1>8, RecordTyped DEF RowsAreFiled
<1> QED BY <1>1, <1>2, <1>3, <1>4, <1>5, <1>6, <1>7, <1>8 DEF Next, RunStep

(* The last known members of a quarantined object stay visible until the   *)
(* object is read or reported again: no page, repair of another object,    *)
(* sweep, reset or rebase takes them (the sweeps' NOT EXISTS).             *)
THEOREM QuarantinedStayVisible ==
    ASSUME MaxWrites = 0
    PROVE  Spec => QuarantineKeepsMembers
<1>1. WritesAreFiled
  BY DEF WritesAreFiled
<1>2. ASSUME Typed, RowsAreFiled, [Next]_vars,
             NEW e \in Events, ObjectOf[e] \in quarantine', Live(e)
      PROVE  Live(e)'
  <2>1. CASE UNCHANGED <<cache, quarantine>>
    BY <1>2, <2>1 DEF Live
  <2>2. ASSUME NEW b \in Bodies, NEW gen \in Nat, quarantine' = Quarantined(b),
               \/ cache'[e] = Replaced(b, gen)[e]
               \/ cache'[e] = NoRow /\ Replaced(b, gen)[e].src \notin Quarantined(b)
        PROVE  Live(e)'
    <3>1. PICK o : o = ObjectOf[e]
      OBVIOUS
    <3>2. ~(o \in DOMAIN b /\ b[o].ok)
      BY <1>2, <2>2, <3>1 DEF Quarantined
    <3>3. Places(b, gen, e, o)
      BY <1>2, <3>1, ReplacedPlaces DEF RowsAreFiled
    <3>4. Replaced(b, gen)[e] = cache[e]
      BY <3>2, <3>3 DEF Places
    <3>5. cache[e].src = o
      BY <1>2, <3>1 DEF RowsAreFiled
    <3>6. cache'[e] = cache[e]
      BY <1>2, <2>2, <3>1, <3>4, <3>5
    <3> QED BY <1>2, <3>6 DEF Live
  <2> QED BY <1>2, <2>1, <2>2, CacheStep
<1>3. Typed /\ RowsAreFiled /\ [Next]_vars =>
        [\A e \in Events : ObjectOf[e] \in quarantine' /\ Live(e) => Live(e)']_vars
  BY <1>2
<1> QED BY <1>1, <1>3, FiledInv, PTL DEF Spec, QuarantineKeepsMembers

(* A reader never sees half a provider object, at any moment between the   *)
(* pages, repairs and sweeps of whatever runs there are                    *)
(* (tombstoneMissingObjectMembers).                                        *)
THEOREM ObjectsAreWhole ==
    ASSUME MaxWrites = 0
    PROVE  Spec => []MembersAreOneVersion
<1>1. WritesAreFiled
  BY DEF WritesAreFiled
<1>2. Init => MembersAreOneVersion
  BY DEF Init, MembersAreOneVersion, Live
<1>3. ASSUME Typed, RowsAreFiled, MembersAreOneVersion, [Next]_vars
      PROVE  MembersAreOneVersion'
  <2>1. CASE UNCHANGED <<cache, quarantine>>
    BY <1>3, <2>1 DEF MembersAreOneVersion, Live
  <2>2. ASSUME NEW b \in Bodies, NEW gen \in Nat,
               \A e \in Events : cache'[e] \in {Replaced(b, gen)[e], NoRow},
               NEW d \in Events, NEW e \in Events, ObjectOf[d] = ObjectOf[e],
               cache'[d] # NoRow, cache'[e] # NoRow
        PROVE  cache'[d].ver = cache'[e].ver
    <3>1. PICK o : o = ObjectOf[d] /\ o = ObjectOf[e]
      BY <2>2
    <3>2. Places(b, gen, d, o) /\ Places(b, gen, e, o)
      BY <1>3, <3>1, ReplacedPlaces DEF RowsAreFiled
    <3>4. cache'[d] = Replaced(b, gen)[d] /\ cache'[e] = Replaced(b, gen)[e]
      BY <2>2
    <3>5. CASE o \in DOMAIN b /\ b[o].ok
      <4>1. /\ cache'[d] = [ver |-> b[o].ver, gen |-> gen, src |-> o]
            /\ cache'[e] = [ver |-> b[o].ver, gen |-> gen, src |-> o]
        BY <2>2, <3>2, <3>4, <3>5 DEF Places
      <4> QED BY <4>1
    <3>6. CASE ~(o \in DOMAIN b /\ b[o].ok)
      <4>1. cache'[d] = cache[d] /\ cache'[e] = cache[e]
        BY <3>2, <3>4, <3>6 DEF Places
      <4> QED BY <1>3, <2>2, <4>1 DEF MembersAreOneVersion, Live
    <3> QED BY <3>5, <3>6
  <2>3. ASSUME NEW b \in Bodies, NEW gen \in Nat,
               \A e \in Events : cache'[e] \in {Replaced(b, gen)[e], NoRow}
        PROVE  MembersAreOneVersion'
    BY <2>2, <2>3 DEF MembersAreOneVersion, Live
  <2> QED BY <1>3, <2>1, <2>3, CacheStep
<1>4. Typed /\ RowsAreFiled /\ MembersAreOneVersion /\ [Next]_vars => MembersAreOneVersion'
  BY <1>3
<1> QED BY <1>1, <1>2, <1>4, FiledInv, PTL DEF Spec

-----------------------------------------------------------------------------
(* The cursor and the run that moves it.  A repair's read is not overtaken *)
(* before its run lists the feed (QuietRepairs), and nothing but the feed  *)
(* writes the cache (MaxWrites = 0).                                       *)

(* Without a live lease nobody has a claim. *)
LEMMA NoClaim ==
    ASSUME sync'.lease # "live"
    PROVE  ClaimsAreComplete' /\ LeasesAreClaims'
BY DEF ClaimsAreComplete, LeasesAreClaims, Holds, Leased

(* What the cursor covers depends on the rows, the provider and itself. *)
LEMMA SameCoverage ==
    ASSUME CursorIsCovered, UNCHANGED <<content, cache>>,
           sync'.cursor = 0 \/ sync'.cursor = sync.cursor
    PROVE  CursorIsCovered'
BY DEF CursorIsCovered, Shows

(* A run keeps its claim complete while others leave it and the data alone. *)
LEMMA SameClaim ==
    ASSUME NEW v \in Workers, ClaimsAreComplete, Holds(v)',
           UNCHANGED <<content, cache, sync>>, session'[v] = session[v]
    PROVE  Complete(v)'
<1>1. Holds(v)
  BY DEF Holds, Leased
<1>2. Complete(v)
  BY <1>1 DEF ClaimsAreComplete
<1> QED BY <1>2 DEF Complete, BeforeFirstPage, BetweenPages, Brought, Live

(* Only one run has the claim. *)
LEMMA OneClaim ==
    ASSUME NEW v \in Workers, NEW w \in Workers, Holds(v)', sync'.owner = w
    PROVE  v = w
BY DEF Holds

(* The provider changes something: the change lies beyond every cursor and *)
(* every listing, and no repair is waiting for its listing.                *)
LEMMA ProviderChangeCovered ==
    ASSUME FeedInv, QuietRepairs, NEW o \in Objects, ProviderChange(o)
    PROVE  CursorIsCovered' /\ ClaimsAreComplete' /\ LeasesAreClaims'
<1> USE DEF FeedInv
<1>1. PICK c \in Body : content' = [content EXCEPT ![o] = c] /\ c.ver = version + 1
  BY ProviderChangeTyped
<1>2. sync' = sync /\ cache' = cache /\ session' = session
  BY DEF ProviderChange, store
<1>3. \A x \in Objects : x # o => content'[x] = content[x]
  BY <1>1, StateFields
<1>4. content'[o] = c /\ content'[o].ver = version + 1
  BY <1>1, StateFields
<1>5. CursorIsCovered'
  <2>1. ASSUME sync.cursor # 0, NEW x \in Objects, content'[x].ver <= sync.cursor
        PROVE  Shows(cache, x)'
    <3>1. x # o
      BY <1>4, <2>1, StateFields
    <3>2. content'[x] = content[x]
      BY <1>3, <3>1
    <3>3. Shows(cache, x)
      BY <2>1, <3>2 DEF CursorIsCovered
    <3> QED BY <1>2, <3>2, <3>3 DEF Shows
  <2> QED BY <1>2, <2>1 DEF CursorIsCovered
<1>6. ASSUME NEW w \in Workers, Holds(w)' PROVE Complete(w)'
  <2>1. Holds(w)
    BY <1>2, <1>6 DEF Holds, Leased
  <2>2. Complete(w) /\ ~BeforeListing(w)
    BY <2>1 DEF ClaimsAreComplete, ProviderChange
  <2>3. session[w].cursor <= version /\ session[w].upTo <= version
        /\ session[w].cursor \in Nat /\ session[w].upTo \in Nat /\ version \in Nat
    BY SessionFields DEF SessionFits
  <2>4. CASE BeforeFirstPage(w)
    <3>1. session[w].pc = "claimed" /\ session[w].first
      BY <2>2, <2>4 DEF BeforeFirstPage, BeforeListing
    <3>2. \A e \in Events : Live(e) => cache[e].gen # session[w].gen
      BY <2>4, <3>1 DEF BeforeFirstPage
    <3>3. BeforeFirstPage(w)'
      BY <1>2, <3>1, <3>2 DEF BeforeFirstPage, Live
    <3> QED BY <1>2, <2>2, <3>3 DEF Complete
  <2>5. CASE BetweenPages(w)
    <3>1. session[w].cursor # 0 =>
            \A x \in session[w].todo \cup DOMAIN session[w].body :
                content'[x].ver > session[w].cursor
      <4>1. ASSUME session[w].cursor # 0, NEW x \in session[w].todo \cup DOMAIN session[w].body
            PROVE  content'[x].ver > session[w].cursor
        <5>1. x \in Objects
          BY <4>1, SessionFields DEF SessionRow, Bodies
        <5>2. CASE x = o
          BY <1>4, <2>3, <5>2
        <5>3. CASE x # o
          BY <1>3, <2>5, <4>1, <5>1, <5>3 DEF BetweenPages
        <5> QED BY <5>2, <5>3
      <4> QED BY <4>1
    <3>2. ASSUME session[w].pc = "page", NEW x \in DOMAIN session[w].body,
                 content'[x].ver <= session[w].upTo
          PROVE  session[w].body[x] = content'[x]
      <4>1. x # o
        BY <1>4, <2>3, <3>2
      <4>2. x \in Objects
        BY <3>2, SessionFields DEF Bodies
      <4> QED BY <1>3, <2>5, <3>2, <4>1, <4>2 DEF BetweenPages
    <3>3. ASSUME ~session[w].degraded, NEW x \in Objects, content'[x].ver <= session[w].upTo
          PROVE  \/ x \in session[w].todo
                 \/ x \in DOMAIN session[w].body /\ session[w].body[x] = content'[x] /\ content'[x].ok
                 \/ Brought(w, x)'
      <4>1. x # o
        BY <1>4, <2>3, <3>3
      <4>2. content'[x] = content[x]
        BY <1>3, <4>1
      <4>3. Brought(w, x) => Brought(w, x)'
        BY <1>2, <4>2 DEF Brought, Live
      <4> QED BY <2>5, <3>3, <4>2, <4>3 DEF BetweenPages
    <3>4. BetweenPages(w)'
      BY <1>2, <2>5, <3>1, <3>2, <3>3 DEF BetweenPages
    <3> QED BY <1>2, <2>2, <3>4 DEF Complete
  <2> QED BY <2>2, <2>4, <2>5 DEF Complete
<1>7. LeasesAreClaims'
  BY <1>2 DEF LeasesAreClaims, Leased
<1> QED BY <1>5, <1>6, <1>7 DEF ClaimsAreComplete

(* A claim or a reset begins before its first page, and no row is of its   *)
(* new generation.                                                         *)
LEMMA BeginsCovered ==
    ASSUME FeedInv, NEW w \in Workers,
           \/ ClaimDueCalendarSync(w)
           \/ \E resets \in 0..MaxResets : ResetCalendarSync(w, resets)
    PROVE  CursorIsCovered' /\ ClaimsAreComplete' /\ LeasesAreClaims'
<1> USE DEF FeedInv
<1>1. PICK s \in SessionRow :
        /\ session' = [session EXCEPT ![w] = s]
        /\ s.gen = sync'.gen /\ s.cursor = sync'.cursor /\ s.first
        /\ s.pc \in {"claimed", "paging"}
  BY BeginsTyped
<1>2. /\ sync'.gen = sync.gen + 1 /\ sync'.owner = w
      /\ sync'.cursor = 0 \/ sync'.cursor = sync.cursor
      /\ UNCHANGED <<provider, enabled, cache, quarantine, write, writes>>
  BY BeginsTyped
<1>3. content' = content /\ cache' = cache
  BY <1>2 DEF provider
<1>4. session'[w] = s
  BY <1>1 DEF Typed
<1>5. CursorIsCovered'
  <2>1. sync'.cursor = 0 \/ sync'.cursor = sync.cursor
    BY <1>2
  <2> QED BY <1>3, <2>1, SameCoverage
<1>6. ASSUME NEW v \in Workers, Holds(v)' PROVE Complete(v)'
  <2>1. v = w
    BY <1>2, <1>6, OneClaim
  <2>2. \A e \in Events : cache[e].gen # s.gen
    <3>1. \A e \in Events : cache[e].gen <= sync.gen /\ cache[e].gen \in Nat
      BY StateFields DEF CacheRow
    <3> QED BY <1>1, <1>2, <3>1, StateFields
  <2>3. BeforeFirstPage(w)'
    BY <1>1, <1>3, <1>4, <2>2 DEF BeforeFirstPage, Live
  <2> QED BY <1>1, <1>4, <2>1, <2>3 DEF Complete
<1>7. LeasesAreClaims'
  BY <1>2, StateFields DEF LeasesAreClaims
<1> QED BY <1>5, <1>6, <1>7 DEF ClaimsAreComplete

(* A run that ends leaves no claim, or another run's.                      *)
LEMMA EndsCovered ==
    ASSUME FeedInv, NEW w \in Workers,
           \/ FailRun(w) \/ DeferCalendarSyncForReservation(w) \/ LeaseLost(w) \/ Cancelled(w)
    PROVE  CursorIsCovered' /\ ClaimsAreComplete' /\ LeasesAreClaims'
<1> USE DEF FeedInv
<1>1. /\ session' = [session EXCEPT ![w] = IdleSession]
      /\ UNCHANGED <<provider, enabled, cache, quarantine, write, writes>>
      /\ sync' = sync \/ (sync'.lease = "none" /\ sync'.cursor = sync.cursor)
  BY EndsTyped
<1>2. content' = content /\ cache' = cache
  BY <1>1 DEF provider
<1>3. CursorIsCovered'
  <2>1. sync'.cursor = 0 \/ sync'.cursor = sync.cursor
    BY <1>1
  <2> QED BY <1>2, <2>1, SameCoverage
<1>4. CASE sync'.lease = "none"
  BY <1>3, <1>4, NoClaim
<1>5. CASE sync' = sync
  <2>1. ASSUME NEW v \in Workers, Holds(v)' PROVE Complete(v)'
    <3>1. CASE v = w
      <4>1. session'[v].gen = 0
        BY <1>1, <3>1, IdleTyped DEF Typed
      <4>2. sync.gen = 0 /\ sync.lease = "live"
        BY <1>5, <2>1, <4>1 DEF Holds, Leased
      <4> QED BY <4>2 DEF LeasesAreClaims, Leased
    <3>2. CASE v # w
      <4>1. session'[v] = session[v]
        BY <1>1, <3>2 DEF Typed
      <4> QED BY <1>2, <1>5, <2>1, <4>1, SameClaim
    <3> QED BY <3>1, <3>2
  <2>2. LeasesAreClaims'
    BY <1>5 DEF LeasesAreClaims, Leased
  <2> QED BY <1>3, <2>1, <2>2 DEF ClaimsAreComplete
<1> QED BY <1>1, <1>4, <1>5

(* A step of the run with the row as it is: the other runs have no claim,  *)
(* or their own.                                                           *)
LEMMA StepClaims ==
    ASSUME FeedInv, NEW w \in Workers, NEW s \in SessionRow,
           session' = [session EXCEPT ![w] = s], sync' = sync,
           Holds(w)' => Complete(w)', UNCHANGED <<content, cache>> \/ Holds(w)
    PROVE  ClaimsAreComplete' /\ LeasesAreClaims'
<1> USE DEF FeedInv
<1>1. ASSUME NEW v \in Workers, Holds(v)', v # w PROVE Complete(v)'
  <2>1. session'[v] = session[v]
    BY <1>1 DEF Typed
  <2>2. Holds(v)
    BY <1>1, <2>1 DEF Holds, Leased
  <2>3. UNCHANGED <<content, cache>>
    BY <1>1, <2>2 DEF Holds
  <2> QED BY <1>1, <2>1, <2>3, SameClaim
<1>2. LeasesAreClaims'
  BY DEF LeasesAreClaims, Leased
<1> QED BY <1>1, <1>2 DEF ClaimsAreComplete

(* A repair is read, or none is due.                                       *)
LEMMA ReadCovered ==
    ASSUME FeedInv, NEW w \in Workers,
           (\E o \in Objects : ReadRepair(w, o)) \/ NothingToRepair(w)
    PROVE  CursorIsCovered' /\ ClaimsAreComplete' /\ LeasesAreClaims'
<1> USE DEF FeedInv
<1>1. session[w].pc = "claimed" /\ UNCHANGED <<provider, store, write, writes>>
  BY DEF ReadRepair, NothingToRepair
<1>2. content' = content /\ cache' = cache /\ sync' = sync
  BY <1>1 DEF provider, store
<1>3. PICK s \in SessionRow :
        /\ session' = [session EXCEPT ![w] = s]
        /\ s.first = session[w].first /\ s.cursor = session[w].cursor
        /\ s.gen = session[w].gen
        /\ s.pc \in {"repairing", "paging"}
        /\ s.pc = "repairing" =>
            \A o \in DOMAIN s.body : s.body[o].ok => s.body[o] = content[o]
  <2>1. ASSUME NEW o \in Objects, ReadRepair(w, o)
        PROVE  \E s \in SessionRow :
                /\ session' = [session EXCEPT ![w] = s]
                /\ s.pc = "repairing" /\ DOMAIN s.body = {o}
                /\ s.body[o].ok => s.body[o] = content[o]
                /\ s.first = session[w].first /\ s.cursor = session[w].cursor
                /\ s.gen = session[w].gen
    BY <2>1, ReadRepairTyped
  <2>2. ASSUME NothingToRepair(w)
        PROVE  \E s \in SessionRow :
                /\ session' = [session EXCEPT ![w] = s]
                /\ s.pc = "paging" /\ s.body = session[w].body
                /\ s.first = session[w].first /\ s.cursor = session[w].cursor
                /\ s.gen = session[w].gen
    BY <2>2, NothingToRepairTyped
  <2> QED BY <2>1, <2>2
<1>4. session'[w] = s
  BY <1>3 DEF Typed
<1>5. CursorIsCovered'
  BY <1>2, SameCoverage
<1>6. ASSUME Holds(w)' PROVE Complete(w)'
  <2>1. Holds(w)
    BY <1>2, <1>3, <1>4, <1>6 DEF Holds, Leased
  <2>2. session[w].cursor = sync.cursor /\ BeforeFirstPage(w)
    BY <1>1, <2>1 DEF ClaimsAreComplete, Complete, BetweenPages
  <2>3. session[w].first /\ \A e \in Events : Live(e) => cache[e].gen # session[w].gen
    BY <1>1, <2>2 DEF BeforeFirstPage
  <2>4. BeforeFirstPage(w)'
    BY <1>2, <1>3, <1>4, <2>3 DEF BeforeFirstPage, Live
  <2> QED BY <1>2, <1>3, <1>4, <2>2, <2>4 DEF Complete
<1>7. UNCHANGED <<content, cache>>
  BY <1>2
<1>8. Holds(w)' => Complete(w)'
  BY <1>6
<1> QED BY <1>2, <1>3, <1>5, <1>7, <1>8, StepClaims

(* A page that carries an object as the provider holds it makes the rows   *)
(* show it, and leaves what it does not carry.                             *)
LEMMA PageShows ==
    ASSUME RowsAreFiled, NEW b \in Bodies, NEW gen, NEW o \in Objects
    PROVE  /\ o \in DOMAIN b /\ b[o].ok /\ b[o] = content[o] => Shows(Replaced(b, gen), o)
           /\ ~(o \in DOMAIN b /\ b[o].ok) /\ Shows(cache, o) => Shows(Replaced(b, gen), o)
<1>1. ASSUME NEW e \in EventsOf(o)
      PROVE  e \in Events /\ ObjectOf[e] = o /\ Places(b, gen, e, o)
  <2>1. e \in Events /\ ObjectOf[e] = o
    BY <1>1 DEF EventsOf
  <2> QED BY <2>1, ReplacedPlaces DEF RowsAreFiled
<1>2. CASE o \in DOMAIN b /\ b[o].ok /\ b[o] = content[o]
  <2>1. ASSUME NEW e \in EventsOf(o), e \in content[o].members
        PROVE  Replaced(b, gen)[e] # NoRow /\ Replaced(b, gen)[e].ver = content[o].ver
    <3>1. Replaced(b, gen)[e] = [ver |-> b[o].ver, gen |-> gen, src |-> o]
          /\ Replaced(b, gen)[e] # NoRow
      BY <1>1, <1>2, <2>1 DEF Places
    <3> QED BY <1>2, <3>1
  <2>2. ASSUME NEW e \in EventsOf(o), e \notin content[o].members
        PROVE  Replaced(b, gen)[e] = NoRow
    BY <1>1, <1>2, <2>2 DEF Places
  <2> QED BY <1>2, <2>1, <2>2 DEF Shows
<1>3. CASE ~(o \in DOMAIN b /\ b[o].ok)
  <2>1. \A e \in EventsOf(o) : Replaced(b, gen)[e] = cache[e]
    BY <1>1, <1>3 DEF Places
  <2> QED BY <1>3, <2>1 DEF Shows
<1> QED BY <1>2, <1>3

(* A repair stores what the provider holds, in the run's own generation.   *)
LEMMA RepairCovered ==
    ASSUME FeedInv, NEW w \in Workers, ApplyEventSyncObjectRepair(w)
    PROVE  CursorIsCovered' /\ ClaimsAreComplete' /\ LeasesAreClaims'
<1> USE DEF FeedInv
<1>1. PICK s \in SessionRow :
        /\ session' = [session EXCEPT ![w] = s]
        /\ s.pc = "paging" /\ DOMAIN s.body = {} /\ s.first = session[w].first
        /\ s.cursor = session[w].cursor /\ s.gen = session[w].gen
  BY ApplyTyped
<1>2. PICK b \in Bodies : b = session[w].body
  BY SessionFields
<1>3. PICK gen \in Nat : gen = session[w].gen
  BY SessionFields
<1>4. /\ Holds(w) /\ session[w].pc = "repairing" /\ cache' = Replaced(b, gen)
      /\ content' = content /\ sync' = sync
  BY <1>2, <1>3 DEF ApplyEventSyncObjectRepair, provider
<1>5. session[w].cursor = sync.cursor /\ BeforeFirstPage(w)
  BY <1>4 DEF ClaimsAreComplete, Complete, BetweenPages
<1>6. /\ session[w].first
      /\ \A o \in DOMAIN b : b[o].ok => b[o] = content[o]
      /\ \A e \in Events : Live(e) => cache[e].gen # gen
  BY <1>2, <1>3, <1>4, <1>5 DEF BeforeFirstPage
<1>7. session'[w] = s
  BY <1>1 DEF Typed
<1>8. CursorIsCovered'
  <2>1. ASSUME sync.cursor # 0, NEW o \in Objects, content[o].ver <= sync.cursor
        PROVE  Shows(Replaced(b, gen), o)
    <3>1. Shows(cache, o)
      BY <2>1 DEF CursorIsCovered
    <3>2. o \in DOMAIN b /\ b[o].ok => b[o] = content[o]
      BY <1>6
    <3> QED BY <3>1, <3>2, PageShows
  <2>2. ASSUME sync'.cursor # 0, NEW o \in Objects, content'[o].ver <= sync'.cursor
        PROVE  Shows(cache, o)'
    <3>1. Shows(Replaced(b, gen), o)
      BY <1>4, <2>1, <2>2
    <3> QED BY <1>4, <3>1 DEF Shows
  <2> QED BY <2>2 DEF CursorIsCovered
<1>9. ASSUME Holds(w)' PROVE Complete(w)'
  <2>1. ASSUME NEW e \in Events, cache'[e] # NoRow, cache'[e].gen = gen
        PROVE  e \in content[ObjectOf[e]].members
    <3>1. PICK o : o = ObjectOf[e]
      OBVIOUS
    <3>2. Places(b, gen, e, o)
      BY <3>1, ReplacedPlaces DEF RowsAreFiled
    <3>3. CASE o \in DOMAIN b /\ b[o].ok
      <4>1. e \in b[o].members
        BY <1>4, <2>1, <3>2, <3>3 DEF Places
      <4> QED BY <1>6, <3>1, <3>3, <4>1
    <3>4. CASE ~(o \in DOMAIN b /\ b[o].ok)
      <4>1. cache'[e] = cache[e]
        BY <1>4, <3>2, <3>4 DEF Places
      <4> QED BY <1>6, <2>1, <4>1 DEF Live
    <3> QED BY <3>3, <3>4
  <2>2. BeforeFirstPage(w)'
    BY <1>1, <1>3, <1>4, <1>6, <1>7, <2>1 DEF BeforeFirstPage, Live
  <2> QED BY <1>1, <1>4, <1>5, <1>7, <2>2 DEF Complete
<1>10. Holds(w)' => Complete(w)'
  BY <1>9
<1> QED BY <1>1, <1>4, <1>8, <1>10, StepClaims

(* The first listing: what it does not report is in the cache already, or  *)
(* is not to be there.                                                     *)
LEMMA ListingBrought ==
    ASSUME FeedInv, NEW w \in Workers, Holds(w), BeforeFirstPage(w),
           session[w].cursor = sync.cursor, session[w].pc = "paging",
           NEW o \in Objects, o \notin Listed(session[w].cursor)
    PROVE  Brought(w, o)
<1> USE DEF FeedInv
<1>1. CASE session[w].cursor = 0
  <2>1. content[o].members = {} /\ content[o].ok
    BY <1>1 DEF Listed
  <2>2. ASSUME NEW e \in EventsOf(o), Live(e) PROVE cache[e].gen # session[w].gen
    <3>1. e \in Events /\ ObjectOf[e] = o
      BY <2>2 DEF EventsOf
    <3> QED BY <2>1, <2>2, <3>1 DEF BeforeFirstPage
  <2> QED BY <1>1, <2>1, <2>2 DEF Brought
<1>2. CASE session[w].cursor # 0
  <2>1. content[o].ver <= sync.cursor
    <3>1. ~(content[o].ver > session[w].cursor)
      BY <1>2 DEF Listed
    <3>2. content[o].ver \in Nat /\ session[w].cursor \in Nat
      BY StateFields, SessionFields
    <3> QED BY <3>1, <3>2
  <2>2. Shows(cache, o)
    BY <1>2, <2>1 DEF CursorIsCovered
  <2> QED BY <1>2, <2>2 DEF Brought, Shows, Live
<1> QED BY <1>1, <1>2

(* A page is read: every object of the listing is at hand or still to come *)
(* as often as the provider leaves it alone.                               *)
LEMMA FetchCovered ==
    ASSUME FeedInv, NEW w \in Workers, FetchPage(w)
    PROVE  CursorIsCovered' /\ ClaimsAreComplete' /\ LeasesAreClaims'
<1> USE DEF FeedInv
<1>1. PICK s \in SessionRow, objs \in SUBSET Objects, todo \in SUBSET Objects :
        /\ session' = [session EXCEPT ![w] = s]
        /\ todo = IF session[w].first THEN Listed(session[w].cursor) ELSE session[w].todo
        /\ objs \subseteq todo
        /\ s.pc = "page" /\ s.first = FALSE
        /\ s.cursor = session[w].cursor /\ s.gen = session[w].gen
        /\ s.upTo = IF session[w].first THEN version ELSE session[w].upTo
        /\ s.todo = todo \ objs /\ s.body = Read(objs)
        /\ s.complete => objs = todo
        /\ ~s.degraded => ~session[w].degraded /\ \A o \in objs : content[o].ok
  BY FetchTyped
<1>2. session[w].pc = "paging" /\ content' = content /\ cache' = cache /\ sync' = sync
  BY DEF FetchPage, provider, store
<1>3. session'[w] = s
  BY <1>1 DEF Typed
<1>4. CursorIsCovered'
  BY <1>2, SameCoverage
<1>5. DOMAIN s.body = objs /\ \A o \in objs : s.body[o] = content[o]
  BY <1>1, ReadTyped
<1>6. ASSUME Holds(w)' PROVE Complete(w)'
  <2>1. Holds(w)
    BY <1>1, <1>2, <1>3, <1>6 DEF Holds, Leased
  <2>2. session[w].cursor = sync.cursor /\ (BeforeFirstPage(w) \/ BetweenPages(w))
    BY <2>1 DEF ClaimsAreComplete, Complete
  <2>3. s.cursor # 0 => \A o \in todo : content[o].ver > s.cursor
    <3>1. CASE BeforeFirstPage(w)
      BY <1>1, <3>1 DEF BeforeFirstPage, Listed
    <3>2. CASE BetweenPages(w)
      BY <1>1, <3>2 DEF BetweenPages
    <3> QED BY <2>2, <3>1, <3>2
  <2>4. ASSUME ~s.degraded, NEW o \in Objects, content[o].ver <= s.upTo
        PROVE  o \in todo \/ Brought(w, o)
    <3>1. CASE BeforeFirstPage(w)
      <4>1. todo = Listed(session[w].cursor)
        BY <1>1, <3>1 DEF BeforeFirstPage
      <4> QED BY <1>2, <2>1, <2>2, <3>1, <4>1, ListingBrought
    <3>2. CASE BetweenPages(w)
      <4>1. todo = session[w].todo /\ s.upTo = session[w].upTo /\ DOMAIN session[w].body = {}
        BY <1>1, <1>2, <3>2 DEF BetweenPages
      <4> QED BY <1>1, <2>4, <3>2, <4>1 DEF BetweenPages
    <3> QED BY <2>2, <3>1, <3>2
  <2>5. s.cursor # 0 => \A o \in s.todo \cup DOMAIN s.body : content[o].ver > s.cursor
    BY <1>1, <1>5, <2>3
  <2>6. ASSUME ~s.degraded, NEW o \in Objects, content[o].ver <= s.upTo
        PROVE  \/ o \in s.todo
               \/ o \in DOMAIN s.body /\ s.body[o] = content[o] /\ content[o].ok
               \/ Brought(w, o)
    BY <1>1, <1>5, <2>4, <2>6
  <2>7. \A o \in Objects : Brought(w, o) => Brought(w, o)'
    BY <1>1, <1>2, <1>3 DEF Brought, Live
  <2>8. s.complete => s.todo = {}
    BY <1>1
  <2>9. BetweenPages(w)'
    BY <1>1, <1>2, <1>3, <1>5, <2>5, <2>6, <2>7, <2>8 DEF BetweenPages
  <2> QED BY <1>1, <1>2, <1>3, <2>2, <2>9 DEF Complete
<1>7. UNCHANGED <<content, cache>>
  BY <1>2
<1>8. Holds(w)' => Complete(w)'
  BY <1>6
<1> QED BY <1>1, <1>2, <1>4, <1>7, <1>8, StepClaims

(* The page at hand, while the claim is held. *)
LEMMA PageAtHand ==
    ASSUME FeedInv, NEW w \in Workers, Holds(w), session[w].pc = "page"
    PROVE  /\ session[w].cursor = sync.cursor /\ BetweenPages(w)
           /\ session[w].cursor # 0 =>
                \A o \in DOMAIN session[w].body : content[o].ver > session[w].cursor
BY DEF FeedInv, ClaimsAreComplete, Complete, BeforeFirstPage, BetweenPages

(* What was brought stays brought, and the page at hand is added to it.    *)
LEMMA PageBrings ==
    ASSUME FeedInv, NEW w \in Workers, Holds(w), session[w].pc = "page",
           ~session[w].degraded, NEW o \in Objects, content[o].ver <= session[w].upTo,
           o \notin session[w].todo,
           NEW b \in Bodies, b = session[w].body, NEW gen \in Nat, gen = session[w].gen
    PROVE  /\ content[o].ok
           /\ \A e \in EventsOf(o) :
                IF e \in content[o].members
                THEN /\ Replaced(b, gen)[e] # NoRow /\ Replaced(b, gen)[e].ver = content[o].ver
                     /\ session[w].cursor = 0 => Replaced(b, gen)[e].gen = gen
                ELSE Replaced(b, gen)[e] # NoRow =>
                        session[w].cursor = 0 /\ Replaced(b, gen)[e].gen # gen
<1> USE DEF FeedInv
<1>1. ASSUME NEW e \in EventsOf(o)
      PROVE  e \in Events /\ ObjectOf[e] = o /\ Places(b, gen, e, o)
  <2>1. e \in Events /\ ObjectOf[e] = o
    BY <1>1 DEF EventsOf
  <2> QED BY <2>1, ReplacedPlaces DEF RowsAreFiled
<1>2. BetweenPages(w)
  BY PageAtHand
<1>3. o \in DOMAIN b => b[o] = content[o]
  BY <1>2 DEF BetweenPages
<1>4. \/ o \in DOMAIN b /\ content[o].ok
      \/ Brought(w, o)
  BY <1>2 DEF BetweenPages
<1>5. content[o].ok
  BY <1>4 DEF Brought
<1>6. CASE o \in DOMAIN b
  <2>1. b[o] = content[o] /\ b[o].ok
    BY <1>3, <1>5, <1>6
  <2>2. ASSUME NEW e \in EventsOf(o), e \in content[o].members
        PROVE  /\ Replaced(b, gen)[e] # NoRow /\ Replaced(b, gen)[e].ver = content[o].ver
               /\ Replaced(b, gen)[e].gen = gen
    <3>1. Replaced(b, gen)[e] = [ver |-> b[o].ver, gen |-> gen, src |-> o]
          /\ Replaced(b, gen)[e] # NoRow
      BY <1>1, <1>6, <2>1, <2>2 DEF Places
    <3> QED BY <2>1, <3>1
  <2>3. ASSUME NEW e \in EventsOf(o), e \notin content[o].members
        PROVE  Replaced(b, gen)[e] = NoRow
    BY <1>1, <1>6, <2>1, <2>3 DEF Places
  <2> QED BY <1>5, <2>2, <2>3
<1>7. CASE o \notin DOMAIN b
  <2>1. Brought(w, o)
    BY <1>4, <1>7
  <2>2. \A e \in EventsOf(o) : Replaced(b, gen)[e] = cache[e]
    BY <1>1, <1>7 DEF Places
  <2> QED BY <2>1, <2>2 DEF Brought, Live
<1> QED BY <1>6, <1>7

(* A page that is not the last: what it carried is brought now.            *)
LEMMA PageCovered ==
    ASSUME FeedInv, NEW w \in Workers, ApplyPage(w)
    PROVE  CursorIsCovered' /\ ClaimsAreComplete' /\ LeasesAreClaims'
<1> USE DEF FeedInv
<1>1. PICK s \in SessionRow :
        /\ session' = [session EXCEPT ![w] = s]
        /\ s.pc = "paging" /\ DOMAIN s.body = {} /\ s.first = session[w].first
        /\ s.cursor = session[w].cursor /\ s.gen = session[w].gen
        /\ s.upTo = session[w].upTo /\ s.todo = session[w].todo
        /\ s.degraded = session[w].degraded
  BY ApplyTyped
<1>2. PICK b \in Bodies : b = session[w].body
  BY SessionFields
<1>3. PICK gen \in Nat : gen = session[w].gen
  BY SessionFields
<1>4. /\ Holds(w) /\ session[w].pc = "page" /\ cache' = Replaced(b, gen)
      /\ content' = content /\ sync' = sync
  BY <1>2, <1>3 DEF ApplyPage, provider
<1>5. /\ session[w].cursor = sync.cursor /\ BetweenPages(w)
      /\ session[w].cursor # 0 => \A o \in DOMAIN b : content[o].ver > session[w].cursor
  BY <1>2, <1>4, PageAtHand
<1>6. session'[w] = s
  BY <1>1 DEF Typed
<1>7. CursorIsCovered'
  <2>1. ASSUME sync'.cursor # 0, NEW o \in Objects, content'[o].ver <= sync'.cursor
        PROVE  Shows(cache, o)'
    <3>1. Shows(cache, o)
      BY <1>4, <2>1 DEF CursorIsCovered
    <3>2. o \notin DOMAIN b
      <4>1. content[o].ver \in Nat /\ sync.cursor \in Nat
        BY StateFields
      <4> QED BY <1>4, <1>5, <2>1, <4>1
    <3>3. Shows(Replaced(b, gen), o)
      BY <3>1, <3>2, PageShows
    <3> QED BY <1>4, <3>3 DEF Shows
  <2> QED BY <2>1 DEF CursorIsCovered
<1>8. ASSUME Holds(w)' PROVE Complete(w)'
  <2>1. ASSUME ~session[w].degraded, NEW o \in Objects, content[o].ver <= session[w].upTo,
               o \notin session[w].todo
        PROVE  Brought(w, o)'
    <3>1. /\ content[o].ok
          /\ \A e \in EventsOf(o) :
                IF e \in content[o].members
                THEN /\ Replaced(b, gen)[e] # NoRow /\ Replaced(b, gen)[e].ver = content[o].ver
                     /\ session[w].cursor = 0 => Replaced(b, gen)[e].gen = gen
                ELSE Replaced(b, gen)[e] # NoRow =>
                        session[w].cursor = 0 /\ Replaced(b, gen)[e].gen # gen
      BY <1>2, <1>3, <1>4, <2>1, PageBrings
    <3> QED BY <1>1, <1>3, <1>4, <1>6, <3>1 DEF Brought, Live
  <2>2. ~s.first
    BY <1>1, <1>5 DEF BetweenPages
  <2>3. s.cursor # 0 => \A o \in s.todo \cup DOMAIN s.body : content[o].ver > s.cursor
    BY <1>1, <1>5 DEF BetweenPages
  <2>4. ~s.degraded => \A o \in Objects : content[o].ver <= s.upTo =>
            o \in s.todo \/ Brought(w, o)'
    BY <1>1, <2>1
  <2>5. BetweenPages(w)'
    BY <1>1, <1>4, <1>6, <2>2, <2>3, <2>4 DEF BetweenPages
  <2> QED BY <1>1, <1>4, <1>5, <1>6, <2>5 DEF Complete
<1>9. Holds(w)' => Complete(w)'
  BY <1>8
<1> QED BY <1>1, <1>4, <1>7, <1>9, StepClaims

(* The last page of a run without warnings: everything its listing covers  *)
(* is shown, and nothing else is.                                          *)
LEMMA FinalShows ==
    ASSUME FeedInv, NEW w \in Workers, ApplyFinalPage(w), ~session[w].degraded,
           Quarantined(session[w].body) = {},
           NEW o \in Objects, content[o].ver <= session[w].upTo
    PROVE  Shows(cache', o)
<1> USE DEF FeedInv
<1>1. PICK b \in Bodies : b = session[w].body
  BY SessionFields
<1>2. PICK gen \in Nat : gen = session[w].gen
  BY SessionFields
<1>3. /\ session[w].pc = "page" /\ session[w].complete /\ Holds(w)
      /\ cache' = IF session[w].cursor = 0
                  THEN Swept(Replaced(b, gen), gen, Quarantined(b))
                  ELSE Replaced(b, gen)
      /\ Quarantined(b) = {}
  BY <1>1, <1>2, FinalTyped
<1>4. o \notin session[w].todo
  BY <1>3, PageAtHand DEF BetweenPages
<1>5. /\ content[o].ok
      /\ \A e \in EventsOf(o) :
            IF e \in content[o].members
            THEN /\ Replaced(b, gen)[e] # NoRow /\ Replaced(b, gen)[e].ver = content[o].ver
                 /\ session[w].cursor = 0 => Replaced(b, gen)[e].gen = gen
            ELSE Replaced(b, gen)[e] # NoRow =>
                    session[w].cursor = 0 /\ Replaced(b, gen)[e].gen # gen
  BY <1>1, <1>2, <1>3, <1>4, PageBrings
<1>6. CASE session[w].cursor # 0
  BY <1>3, <1>5, <1>6 DEF Shows
<1>7. CASE session[w].cursor = 0
  <2>1. cache' = Swept(Replaced(b, gen), gen, {})
    BY <1>3, <1>7
  <2>2. ASSUME NEW e \in EventsOf(o)
        PROVE  /\ Replaced(b, gen)[e].gen = gen => cache'[e] = Replaced(b, gen)[e]
               /\ Replaced(b, gen)[e].gen # gen => cache'[e] = NoRow
    <3>1. e \in Events
      BY <2>2 DEF EventsOf
    <3> QED BY <2>1, <3>1, SweptRow
  <2>3. ASSUME NEW e \in EventsOf(o), e \in content[o].members
        PROVE  cache'[e] # NoRow /\ cache'[e].ver = content[o].ver
    BY <1>5, <1>7, <2>2, <2>3
  <2>4. ASSUME NEW e \in EventsOf(o), e \notin content[o].members
        PROVE  cache'[e] = NoRow
    <3>1. CASE Replaced(b, gen)[e] = NoRow
      BY <2>2, <3>1
    <3>2. CASE Replaced(b, gen)[e] # NoRow
      BY <1>5, <2>2, <2>4, <3>2
    <3> QED BY <3>1, <3>2
  <2> QED BY <1>5, <2>3, <2>4 DEF Shows
<1> QED BY <1>6, <1>7

(* The cursor moves only as far as the rows show.                          *)
LEMMA FinalCovered ==
    ASSUME FeedInv, NEW w \in Workers, ApplyFinalPage(w)
    PROVE  CursorIsCovered' /\ ClaimsAreComplete' /\ LeasesAreClaims'
<1> USE DEF FeedInv
<1>1. PICK b \in Bodies : b = session[w].body
  BY SessionFields
<1>2. PICK gen \in Nat : gen = session[w].gen
  BY SessionFields
<1>3. /\ session[w].pc = "page" /\ Holds(w)
      /\ session[w].cursor # 0 => cache' = Replaced(b, gen)
      /\ sync'.lease = "none"
      /\ \/ sync'.cursor = session[w].cursor
         \/ sync'.cursor = 0
         \/ /\ sync'.cursor = session[w].upTo
            /\ ~session[w].degraded /\ Quarantined(session[w].body) = {}
      /\ content' = content
  BY <1>1, <1>2, FinalTyped DEF provider
<1>4. /\ session[w].cursor = sync.cursor
      /\ session[w].cursor # 0 => \A o \in DOMAIN b : content[o].ver > session[w].cursor
  BY <1>1, <1>3, PageAtHand
<1>5. ASSUME sync'.cursor # 0, NEW o \in Objects, content'[o].ver <= sync'.cursor
      PROVE  Shows(cache, o)'
  <2>1. CASE sync'.cursor = session[w].cursor
    <3>1. Shows(cache, o)
      BY <1>3, <1>4, <1>5, <2>1 DEF CursorIsCovered
    <3>2. o \notin DOMAIN b
      <4>1. content[o].ver \in Nat /\ sync.cursor \in Nat
        BY StateFields
      <4> QED BY <1>3, <1>4, <1>5, <2>1, <4>1
    <3>3. Shows(Replaced(b, gen), o)
      BY <3>1, <3>2, PageShows
    <3>4. cache' = Replaced(b, gen)
      BY <1>3, <1>5, <2>1
    <3> QED BY <1>3, <3>3, <3>4 DEF Shows
  <2>2. CASE /\ sync'.cursor = session[w].upTo
             /\ ~session[w].degraded /\ Quarantined(session[w].body) = {}
    <3>1. content[o].ver <= session[w].upTo
      BY <1>3, <1>5, <2>2
    <3>2. Shows(cache', o)
      BY <2>2, <3>1, FinalShows
    <3> QED BY <1>3, <3>2 DEF Shows
  <2> QED BY <1>3, <1>5, <2>1, <2>2
<1>6. CursorIsCovered'
  BY <1>5 DEF CursorIsCovered
<1>7. sync'.lease # "live"
  BY <1>3
<1> QED BY <1>6, <1>7, NoClaim

(* Every step keeps the coverage of the cursor and of the claim.           *)
LEMMA NextCovered ==
    ASSUME QuietRepairs, MaxWrites = 0, FeedInv, [Next]_vars
    PROVE  FeedInv'
<1>1. Typed' /\ RowsAreFiled'
  <2>1. WritesAreFiled
    BY DEF WritesAreFiled
  <2> QED BY <2>1, NextTyped, FiledStep DEF FeedInv
<1>2. Typed /\ CursorIsCovered /\ ClaimsAreComplete /\ RowsAreFiled /\ LeasesAreClaims
  BY DEF FeedInv
<1>3. CASE UNCHANGED vars
  BY <1>2, <1>3 DEF vars, FeedInv, Typed, RowsAreFiled, CursorIsCovered, ClaimsAreComplete, Complete,
     BeforeFirstPage, BetweenPages, Brought, Live, Shows, Holds, Leased, LeasesAreClaims
<1>4. ASSUME NEW o \in Objects, ProviderChange(o) PROVE FeedInv'
  BY <1>1, <1>4, ProviderChangeCovered DEF FeedInv
<1>5. CASE \/ LeaseExpires \/ ScheduleCalendarSync \/ SetCalendarEnabled
           \/ UpdateConnectionVerification \/ ScheduleAfterWrite
  <2>1. /\ sync' = sync \/ (sync'.lease # "live" /\ sync'.cursor \in {0, sync.cursor})
        /\ UNCHANGED <<provider, cache, quarantine, session, writes>>
    BY <1>2, <1>5, RowStepTyped
  <2>2. content' = content /\ cache' = cache /\ session' = session
    BY <2>1 DEF provider
  <2>3. CursorIsCovered'
    <3>1. sync'.cursor = 0 \/ sync'.cursor = sync.cursor
      BY <2>1
    <3> QED BY <1>2, <2>2, <3>1, SameCoverage
  <2>4. CASE sync'.lease # "live"
    BY <1>1, <2>3, <2>4, NoClaim DEF FeedInv
  <2>5. CASE sync' = sync
    <3>1. ASSUME NEW v \in Workers, Holds(v)' PROVE Complete(v)'
      BY <1>2, <2>2, <2>5, <3>1, SameClaim
    <3>2. LeasesAreClaims'
      BY <1>2, <2>5 DEF LeasesAreClaims, Leased
    <3> QED BY <1>1, <2>3, <3>1, <3>2 DEF FeedInv, ClaimsAreComplete
  <2> QED BY <2>1, <2>4, <2>5
<1>6. CASE EnsureCalendarSyncStates
  <2>1. sync'.lease # "live" /\ sync'.cursor = 0
    BY <1>2, <1>6, EnsureTyped
  <2>2. CursorIsCovered'
    BY <2>1 DEF CursorIsCovered
  <2> QED BY <1>1, <2>1, <2>2, NoClaim DEF FeedInv
<1>7. ASSUME NEW w \in Workers,
             ClaimDueCalendarSync(w) \/ ProviderReset(w) \/ CaptureReset(w)
      PROVE  FeedInv'
  <2>1. session[w].resets \in 0..MaxResets
    BY <1>2, SessionFields DEF SessionRow
  <2>2. ASSUME ProviderReset(w)
        PROVE  \E resets \in 0..MaxResets : ResetCalendarSync(w, resets)
    <3>1. session[w].resets < MaxResets /\ ResetCalendarSync(w, session[w].resets + 1)
      BY <2>2 DEF ProviderReset
    <3>2. session[w].resets + 1 \in 0..MaxResets
      BY <2>1, <3>1, ReadModelConstants
    <3> QED BY <3>1, <3>2
  <2>3. ASSUME CaptureReset(w)
        PROVE  \E resets \in 0..MaxResets : ResetCalendarSync(w, resets)
    BY <2>1, <2>3 DEF CaptureReset
  <2>4. CursorIsCovered' /\ ClaimsAreComplete' /\ LeasesAreClaims'
    BY <1>7, <2>2, <2>3, BeginsCovered
  <2> QED BY <1>1, <2>4 DEF FeedInv
<1>8. ASSUME NEW w \in Workers,
             \/ FailRun(w) \/ DeferCalendarSyncForReservation(w) \/ LeaseLost(w) \/ Cancelled(w)
      PROVE  FeedInv'
  BY <1>1, <1>8, EndsCovered DEF FeedInv
<1>9. ASSUME NEW w \in Workers, RunStep(w) PROVE FeedInv'
  <2>1. CursorIsCovered' /\ ClaimsAreComplete' /\ LeasesAreClaims'
    BY <1>9, EndsCovered, ReadCovered, RepairCovered, FetchCovered, PageCovered, FinalCovered
       DEF RunStep
  <2> QED BY <1>1, <2>1 DEF FeedInv
<1>10. ASSUME NEW e \in Events, UIMutation(e) PROVE FALSE
  BY <1>2, <1>10, UIMutationTyped, StateFields
<1>11. CASE UpsertCachedEvent \/ DeleteCachedEvent \/ LeaveToSync \/ ForgetWrite
  BY <1>2, <1>11, RecordTyped DEF RowsAreFiled
<1> QED BY <1>3, <1>4, <1>5, <1>6, <1>7, <1>8, <1>9, <1>10, <1>11 DEF Next

(* A new calendar has an empty cursor and no claim. *)
LEMMA InitCovered == Init => FeedInv
<1> SUFFICES ASSUME Init PROVE FeedInv
  OBVIOUS
<1>1. Typed /\ RowsAreFiled
  BY InitTyped, FiledInit
<1>2. sync.cursor = 0 /\ sync.lease = "none"
  BY DEF Init
<1> QED BY <1>1, <1>2 DEF FeedInv, CursorIsCovered, ClaimsAreComplete, LeasesAreClaims, Holds, Leased

(* The cursor never runs ahead of what is committed: whatever the provider *)
(* changed up to it is in the cache exactly as the provider holds it,      *)
(* through crashes between pages, lost leases, resets, rebases and repairs *)
(* (ApplyEventSyncPage, ApplyEventSyncObjectRepair, ResetCalendarSync).    *)
THEOREM CursorCovers ==
    ASSUME QuietRepairs, MaxWrites = 0
    PROVE  Spec => []CursorIsCovered
<1>1. FeedInv /\ [Next]_vars => FeedInv'
  BY NextCovered
<1>2. FeedInv => CursorIsCovered
  BY DEF FeedInv
<1> QED BY InitCovered, <1>1, <1>2, PTL DEF Spec

(* A full replacement that ends ready leaves what the provider holds and   *)
(* nothing else, with or without a cursor of its own (the terminal sweep   *)
(* of applyEventSyncPageTx).                                               *)
THEOREM ReplacementsAreExact ==
    ASSUME QuietRepairs, MaxWrites = 0
    PROVE  Spec => ReplacementIsExact
<1>1. FeedInv /\ [Next]_vars => FeedInv'
  BY NextCovered
<1>2. ASSUME FeedInv, NEW w \in Workers, ApplyFinalPage(w), sync'.status = "ready",
             NEW o \in Objects, content[o].ver <= session[w].upTo
      PROVE  Shows(cache', o)
  <2>1. ~session[w].degraded /\ Quarantined(session[w].body) = {}
    BY <1>2, FinalTyped DEF FeedInv
  <2> QED BY <1>2, <2>1, FinalShows
<1>3. FeedInv /\ [Next]_vars =>
        [\A w \in Workers :
            ApplyFinalPage(w) /\ session[w].cursor = 0 /\ sync'.status = "ready" =>
                \A o \in Objects : content[o].ver <= session[w].upTo => Shows(cache', o)]_vars
  BY <1>2
<1> QED BY InitCovered, <1>1, <1>3, PTL DEF Spec, ReplacementIsExact
=============================================================================
