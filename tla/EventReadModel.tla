--------------------------- MODULE EventReadModel ---------------------------
(***************************************************************************)
(* The cached event read model of one calendar: the rows of                *)
(* calendar_sync_state, cached_events and calendar_sync_quarantine, and    *)
(* the event-sync workers that fill them from a provider's incremental     *)
(* feed (storage/event_cache.go, eventsync/service.go, runtime/worker.go). *)
(* Rows of different calendars share nothing, so one calendar is enough.   *)
(*                                                                         *)
(* A provider object (a Google or Microsoft event, an Apple .ics resource) *)
(* holds one or several cached events.  Every provider change has a        *)
(* version; the opaque cursor is the version the feed was read up to, and  *)
(* 0 is the empty cursor that asks for a full replacement.  A tombstoned   *)
(* row and a missing one are the same to every reader: both are NoRow.     *)
(***************************************************************************)
EXTENDS Naturals, FiniteSets

CONSTANTS
    Objects,      \* provider object IDs
    Events,       \* event IDs, the keys of cached_events
    ObjectOf,     \* [Events -> Objects]: the object that contains the event
    SelfObject,   \* [Events -> Objects \cup {None}]: the object whose ID is the event's own ID
    Workers,      \* concurrently running event-sync claims
    Cursorless,   \* TRUE for a server whose full listing carries no cursor
    AuthRecheck,  \* TRUE for Apple: a row parked for its authorization is claimed again
    MaxResets,    \* EventSyncPolicy.MaxResets
    MaxVersion,   \* bound on provider changes
    MaxGen,       \* bound on calendar_sync_state.generation
    MaxWrites,    \* bound on mutations made through the UI
    QuietRepairs, \* TRUE: nothing changes between a repair's read and its run's first listing
    None          \* the empty object ID, no worker, no mutation

ASSUME ReadModelConstants ==
    /\ ObjectOf \in [Events -> Objects]
    /\ SelfObject \in [Events -> Objects \cup {None}]
    /\ None \notin Objects \cup Workers
    /\ Cursorless \in BOOLEAN /\ AuthRecheck \in BOOLEAN /\ QuietRepairs \in BOOLEAN
    /\ MaxResets \in Nat /\ MaxVersion \in Nat \ {0} /\ MaxGen \in Nat /\ MaxWrites \in Nat

VARIABLES
    content,      \* provider: [Objects -> [ver, members, ok]]
    version,      \* provider: the version of its latest change
    enabled,      \* calendars.enabled
    sync,         \* the calendar_sync_state row
    cache,        \* cached_events: [Events -> Row \cup {NoRow}]
    quarantine,   \* the objects with an active calendar_sync_quarantine row
    session,      \* RunOne's locals, per worker
    write,        \* a UI mutation the provider accepted, until it is recorded
    writes        \* number of such mutations so far

provider == <<content, version>>
store == <<enabled, sync, cache, quarantine>>
vars == <<content, version, enabled, sync, cache, quarantine, session, write, writes>>

NoRow == [ver |-> 0, gen |-> 0, src |-> None]
EventsOf(o) == {e \in Events : ObjectOf[e] = o}

(* What the provider holds of an object: its members inside the window, or *)
(* a body that cannot be parsed.  A deleted object has no members.         *)
ContentOf(o) ==
    [ver : 1..MaxVersion, members : SUBSET EventsOf(o), ok : {TRUE}]
        \cup [ver : 1..MaxVersion, members : {{}}, ok : {FALSE}]
Content == UNION {ContentOf(o) : o \in Objects}

IdleSession ==
    [pc |-> "idle", cursor |-> 0, gen |-> 0, beat |-> 0, first |-> TRUE, upTo |-> 0,
     todo |-> {}, degraded |-> FALSE, resets |-> 0, body |-> <<>>, complete |-> FALSE]
NoWrite == [stage |-> "none", event |-> None, ver |-> 0, deleted |-> FALSE]

(* parked_auth: parked with the error code auth, where that is a difference. *)
Parked == {"parked"} \cup (IF AuthRecheck THEN {"parked_auth"} ELSE {})
Statuses == {"pending", "syncing", "ready", "degraded", "failed"} \cup Parked
Leases == {"none", "live", "expired"}

TypeOK ==
    /\ version \in 1..MaxVersion /\ content \in [Objects -> Content]
    /\ enabled \in BOOLEAN
    /\ sync \in [cursor : 0..MaxVersion, gen : 0..MaxGen, status : Statuses,
                 owner : Workers \cup {None}, lease : Leases]
    /\ (sync.lease = "none") <=> (sync.owner = None)
    /\ cache \in [Events -> [ver : 0..MaxVersion, gen : 0..MaxGen, src : Objects \cup {None}]]
    /\ quarantine \subseteq Objects
    /\ \A w \in Workers :
        /\ session[w].pc \in {"idle", "claimed", "repairing", "paging", "page"}
        /\ session[w].todo \subseteq Objects /\ DOMAIN session[w].body \subseteq Objects
        /\ session[w].resets \in 0..MaxResets
        /\ session[w].gen \in session[w].beat..MaxGen
    /\ write.stage \in {"none", "record", "schedule"} /\ writes \in 0..MaxWrites

Init ==
    /\ version = 1
    /\ content \in [Objects -> Content]
    /\ \A o \in Objects : content[o] \in ContentOf(o) /\ content[o].ver = 1
    /\ enabled = TRUE
    /\ sync = [cursor |-> 0, gen |-> 0, status |-> "pending", owner |-> None, lease |-> "none"]
    /\ cache = [e \in Events |-> NoRow]
    /\ quarantine = {}
    /\ session = [w \in Workers |-> IdleSession]
    /\ write = NoWrite /\ writes = 0

-----------------------------------------------------------------------------
(* The provider, seen through its feed.                                    *)

(* A run that has read a repair, if any, but has not listed the feed yet. *)
BeforeListing(w) ==
    session[w].pc \in {"repairing", "paging"} /\ session[w].first

ProviderChange(o) ==
    /\ version < MaxVersion
    /\ QuietRepairs => \A w \in Workers : ~BeforeListing(w)
    /\ version' = version + 1
    /\ \E c \in ContentOf(o) : c.ver = version + 1 /\ content' = [content EXCEPT ![o] = c]
    /\ UNCHANGED <<store, session, write, writes>>

(* The objects a listing from `cursor` reports: the changed ones, or on a  *)
(* full replacement the ones that exist.                                   *)
Listed(cursor) ==
    IF cursor = 0 THEN {o \in Objects : content[o].members # {} \/ ~content[o].ok}
                  ELSE {o \in Objects : content[o].ver > cursor}

-----------------------------------------------------------------------------
(* calendar_sync_state: claims and the operations that may touch a row     *)
(* only while no live lease owns it.                                       *)

Leased == sync.lease = "live"

(* lockCalendarSyncLease: every write of a worker starts with it. *)
Holds(w) ==
    /\ sync.status = "syncing"
    /\ sync.gen = session[w].gen
    /\ sync.owner = w
    /\ Leased

(* Faulty: the lease is cleared but its owner is kept. *)
OwnerKept(s) == [s EXCEPT !.lease = "none"]

Unowned(s) == [s EXCEPT !.owner = None, !.lease = "none"]

Claimable == sync.status \in Statuses \ {"parked"}

ClaimDueCalendarSync(w) ==
    /\ session[w].pc = "idle"
    /\ ~Leased /\ Claimable /\ enabled
    /\ sync.gen < MaxGen
    /\ sync' = [sync EXCEPT !.gen = @ + 1, !.status = "syncing", !.owner = w, !.lease = "live"]
    /\ session' = [session EXCEPT ![w] =
            [IdleSession EXCEPT !.pc = "claimed", !.cursor = sync.cursor,
                                !.gen = sync.gen + 1, !.beat = sync.gen + 1]]
    /\ UNCHANGED <<provider, enabled, cache, quarantine, write, writes>>

(* The lease runs out: the process stalled or its renewals failed. *)
LeaseExpires ==
    /\ Leased
    /\ sync' = [sync EXCEPT !.lease = "expired"]
    /\ UNCHANGED <<provider, enabled, cache, quarantine, session, write, writes>>

(* Faulty: the new window keeps the cursor of the old one. *)
RebasedInPlace(s) ==
    Unowned([s EXCEPT !.gen = @ + 1,
                      !.status = IF @ \in Parked THEN @ ELSE "pending"])

(* A new UTC day rebases the frozen window.  The members an object has     *)
(* inside the window may change although the provider changed nothing.     *)
Rebased(s) ==
    Unowned([s EXCEPT !.cursor = 0, !.gen = @ + 1,
                      !.status = IF @ \in Parked THEN @ ELSE "pending"])

EnsureCalendarSyncStates ==
    /\ enabled /\ ~Leased
    /\ sync.gen < MaxGen
    /\ sync' = Rebased(sync)
    /\ \E o \in Objects : \E members \in SUBSET EventsOf(o) :
            content' = [content EXCEPT ![o].members = IF content[o].ok THEN members ELSE {}]
    /\ UNCHANGED <<version, enabled, cache, quarantine, session, write, writes>>

Scheduled(s) == Unowned([s EXCEPT !.status = "pending"])

ScheduleCalendarSync ==
    /\ enabled /\ ~Leased
    /\ sync' = Scheduled(sync)
    /\ UNCHANGED <<provider, enabled, cache, quarantine, session, write, writes>>

(* The operator's switch takes the row from a live lease too. *)
SetCalendarEnabled ==
    /\ sync.gen < MaxGen
    /\ enabled' = ~enabled
    /\ sync' = Unowned([sync EXCEPT !.cursor = 0, !.gen = @ + 1,
            !.status = IF enabled' \/ @ \notin Parked THEN "pending" ELSE @])
    /\ UNCHANGED <<provider, cache, quarantine, session, write, writes>>

(* A verified connection reactivates parked rows only. *)
UpdateConnectionVerification ==
    /\ sync.status \in Parked /\ ~Leased
    /\ sync' = [sync EXCEPT !.status = "pending"]
    /\ UNCHANGED <<provider, enabled, cache, quarantine, session, write, writes>>

-----------------------------------------------------------------------------
(* What one object observed at the provider does to the projection.        *)

(* `body` maps the objects of a page to the content read; members missing  *)
(* from an object are tombstoned through their recorded source object.     *)
Upserted(body, e, gen) == [ver |-> body[ObjectOf[e]].ver, gen |-> gen, src |-> ObjectOf[e]]

(* Faulty: the missing members of a listed object are left as they are. *)
UpsertedOnly(body, gen) ==
    [e \in Events |->
        LET o == ObjectOf[e]
        IN  IF o \in DOMAIN body /\ body[o].ok /\ e \in body[o].members THEN Upserted(body, e, gen)
            ELSE cache[e]]

(* Faulty: an empty object is not reported as deleted. *)
ReplacedUnlessEmpty(body, gen) ==
    LET good == {o \in DOMAIN body : body[o].ok /\ body[o].members # {}}
    IN  [e \in Events |->
            IF ObjectOf[e] \in good /\ e \in body[ObjectOf[e]].members THEN Upserted(body, e, gen)
            ELSE IF cache[e].src \in good THEN NoRow
            ELSE cache[e]]

Replaced(body, gen) ==
    LET good == {o \in DOMAIN body : body[o].ok}
    IN  [e \in Events |->
            IF ObjectOf[e] \in good /\ e \in body[ObjectOf[e]].members THEN Upserted(body, e, gen)
            ELSE IF cache[e].src \in good THEN NoRow
            ELSE cache[e]]

Quarantined(body) ==
    {o \in quarantine : o \notin DOMAIN body} \cup {o \in DOMAIN body : ~body[o].ok}

(* Faulty: the sweep looks at the generation only. *)
SweptByGeneration(rows, gen, active) ==
    [e \in Events |-> IF rows[e].gen = gen THEN rows[e] ELSE NoRow]

(* The terminal sweep of a full replacement keeps what is quarantined. *)
Swept(rows, gen, active) ==
    [e \in Events |-> IF rows[e].gen = gen \/ rows[e].src \in active THEN rows[e] ELSE NoRow]

-----------------------------------------------------------------------------
(* One claimed run: repairOne, then the pages of the feed.                 *)

Read(objs) == [o \in objs |-> content[o]]

(* A due quarantined object is read again; a transient provider error      *)
(* leaves it quarantined (body is then the malformed content).             *)
ReadRepair(w, o) ==
    /\ session[w].pc = "claimed" /\ o \in quarantine
    /\ \E c \in {content[o], [ver |-> content[o].ver, members |-> {}, ok |-> FALSE]} :
            session' = [session EXCEPT ![w].pc = "repairing", ![w].body = [x \in {o} |-> c]]
    /\ UNCHANGED <<provider, store, write, writes>>

ApplyEventSyncObjectRepair(w) ==
    /\ session[w].pc = "repairing" /\ Holds(w)
    /\ cache' = Replaced(session[w].body, session[w].gen)
    /\ quarantine' = Quarantined(session[w].body)
    /\ session' = [session EXCEPT ![w].pc = "paging", ![w].body = <<>>]
    /\ UNCHANGED <<provider, enabled, sync, write, writes>>

NothingToRepair(w) ==
    /\ session[w].pc = "claimed"
    /\ session' = [session EXCEPT ![w].pc = "paging"]
    /\ UNCHANGED <<provider, store, write, writes>>

(* Faulty: the page token of the answer is not used for the next request. *)
FetchSamePage(w) ==
    LET first == session[w].first
        todo == IF first THEN Listed(session[w].cursor) ELSE session[w].todo
        upTo == IF first THEN version ELSE session[w].upTo
    IN  /\ session[w].pc = "paging"
        /\ \E objs \in SUBSET todo :
            /\ objs # {} \/ todo = {}
            /\ session' = [session EXCEPT ![w] = [@ EXCEPT
                    !.pc = "page", !.first = FALSE, !.upTo = upTo, !.todo = todo,
                    !.body = Read(objs), !.complete = (objs = todo),
                    !.degraded = session[w].degraded \/ \E o \in objs : ~content[o].ok]]
        /\ UNCHANGED <<provider, store, write, writes>>

(* SyncEvents: the first request fixes what the cursor will cover; each    *)
(* page carries objects as they are when it is served.                     *)
FetchPage(w) ==
    LET first == session[w].first
        todo == IF first THEN Listed(session[w].cursor) ELSE session[w].todo
        upTo == IF first THEN version ELSE session[w].upTo
    IN  /\ session[w].pc = "paging"
        /\ \E objs \in SUBSET todo :
            /\ objs # {} \/ todo = {}
            /\ session' = [session EXCEPT ![w] = [@ EXCEPT
                    !.pc = "page", !.first = FALSE, !.upTo = upTo, !.todo = todo \ objs,
                    !.body = Read(objs), !.complete = (objs = todo),
                    !.degraded = session[w].degraded \/ \E o \in objs : ~content[o].ok]]
        /\ UNCHANGED <<provider, store, write, writes>>

(* Faulty: the reset clears the cursor but keeps the generation. *)
ResetInPlace(w, resets) ==
    /\ Holds(w)
    /\ sync' = [sync EXCEPT !.cursor = 0]
    /\ session' = [session EXCEPT ![w] =
            [IdleSession EXCEPT !.pc = "paging", !.gen = sync.gen,
                                !.beat = session[w].beat, !.resets = resets]]
    /\ UNCHANGED <<provider, enabled, cache, quarantine, write, writes>>

(* ResetCalendarSync gives the run a new generation and an empty cursor;   *)
(* the heartbeat goes on renewing the generation of the claim.             *)
ResetCalendarSync(w, resets) ==
    /\ Holds(w) /\ sync.gen < MaxGen
    /\ sync' = [sync EXCEPT !.cursor = 0, !.gen = @ + 1]
    /\ session' = [session EXCEPT ![w] =
            [IdleSession EXCEPT !.pc = "paging", !.gen = sync.gen + 1,
                                !.beat = session[w].beat, !.resets = resets]]
    /\ UNCHANGED <<provider, enabled, cache, quarantine, write, writes>>

(* The provider refused the cursor or a page token. *)
ProviderReset(w) ==
    /\ session[w].pc = "paging" /\ session[w].resets < MaxResets
    /\ ResetCalendarSync(w, session[w].resets + 1)

(* Before the first page: the copy snapshot does not match the cursor. *)
CaptureReset(w) ==
    /\ session[w].pc = "paging" /\ session[w].first /\ session[w].cursor # 0
    /\ ResetCalendarSync(w, session[w].resets)

ApplyPage(w) ==
    /\ session[w].pc = "page" /\ ~session[w].complete /\ Holds(w)
    /\ cache' = Replaced(session[w].body, session[w].gen)
    /\ quarantine' = Quarantined(session[w].body)
    /\ session' = [session EXCEPT ![w].pc = "paging", ![w].body = <<>>]
    /\ UNCHANGED <<provider, enabled, sync, write, writes>>

(* Faulty: only the warnings of this run degrade it. *)
ApplyFinalPageUnchecked(w) ==
    LET s == session[w]
        rows == Replaced(s.body, s.gen)
        active == Quarantined(s.body)
        next == IF s.cursor = 0 /\ Cursorless THEN 0 ELSE s.upTo
    IN  /\ s.pc = "page" /\ s.complete /\ Holds(w)
        /\ cache' = IF s.cursor = 0 THEN Swept(rows, s.gen, active) ELSE rows
        /\ quarantine' = active
        /\ sync' = Unowned([sync EXCEPT !.cursor = IF s.degraded THEN s.cursor ELSE next,
                                        !.status = IF s.degraded THEN "degraded" ELSE "ready"])
        /\ session' = [session EXCEPT ![w] = IdleSession]
        /\ UNCHANGED <<provider, enabled, write, writes>>

(* The terminal page: mutations, sweep, cursor and status commit together; *)
(* with a warning in this run or an active quarantine the cursor stays.    *)
ApplyFinalPage(w) ==
    LET s == session[w]
        rows == Replaced(s.body, s.gen)
        active == Quarantined(s.body)
        degraded == s.degraded \/ active # {}
        next == IF s.cursor = 0 /\ Cursorless THEN 0 ELSE s.upTo
    IN  /\ s.pc = "page" /\ s.complete /\ Holds(w)
        /\ cache' = IF s.cursor = 0 THEN Swept(rows, s.gen, active) ELSE rows
        /\ quarantine' = active
        /\ sync' = Unowned([sync EXCEPT !.cursor = IF degraded THEN s.cursor ELSE next,
                                        !.status = IF degraded THEN "degraded" ELSE "ready"])
        /\ session' = [session EXCEPT ![w] = IdleSession]
        /\ UNCHANGED <<provider, enabled, write, writes>>

(* fail: a retry or a parked row, by the class of the error. *)
FailRun(w) ==
    /\ session[w].pc # "idle" /\ Holds(w)
    /\ \E status \in {"failed"} \cup Parked :
            sync' = Unowned([sync EXCEPT !.status = status])
    /\ session' = [session EXCEPT ![w] = IdleSession]
    /\ UNCHANGED <<provider, enabled, cache, quarantine, write, writes>>

(* A dispatch reservation blocks the copy capture: the claim is given back *)
(* with its cursor, ready only when a verified snapshot still matches it.  *)
DeferCalendarSyncForReservation(w) ==
    /\ session[w].pc \in {"paging", "page"} /\ Holds(w)
    /\ \E status \in {"pending", "ready", "degraded"} :
        /\ status = "degraded" <=> quarantine # {}
        /\ status = "ready" => sync.cursor # 0
        /\ sync' = Unowned([sync EXCEPT !.status = status])
    /\ session' = [session EXCEPT ![w] = IdleSession]
    /\ UNCHANGED <<provider, enabled, cache, quarantine, write, writes>>

(* A write that finds its claim gone ends the run without a second one. *)
LeaseLost(w) ==
    /\ session[w].pc \in {"repairing", "page"} /\ ~Holds(w)
    /\ session' = [session EXCEPT ![w] = IdleSession]
    /\ UNCHANGED <<provider, store, write, writes>>

(* RenewCalendarSyncLease succeeds for the heartbeat of w. *)
Renewable(w) ==
    /\ sync.status = "syncing" /\ sync.gen = session[w].beat
    /\ sync.owner = w /\ Leased

(* A failed renewal cancels the run's context; so does a shutdown or crash. *)
Cancelled(w) ==
    /\ session[w].pc # "idle"
    /\ session' = [session EXCEPT ![w] = IdleSession]
    /\ UNCHANGED <<provider, store, write, writes>>

-----------------------------------------------------------------------------
(* Write-through: a mutation made in the UI is recorded in the cache after *)
(* the provider accepted it, then a sync is scheduled, in three            *)
(* transactions that anything may come between and that may fail.          *)

UIMutation(e) ==
    LET o == ObjectOf[e]
    IN  /\ write = NoWrite /\ writes < MaxWrites /\ version < MaxVersion
        /\ QuietRepairs => \A w \in Workers : ~BeforeListing(w)
        /\ e \in content[o].members
        /\ version' = version + 1 /\ writes' = writes + 1
        /\ \E deleted \in BOOLEAN :
            /\ content' = [content EXCEPT ![o] =
                    [ver |-> version + 1, ok |-> TRUE,
                     members |-> IF deleted THEN @.members \ {e} ELSE @.members]]
            /\ write' = [stage |-> "record", event |-> e, ver |-> version + 1, deleted |-> deleted]
        /\ UNCHANGED <<store, session>>

(* UpsertCachedEvent files the event under its own ID. *)
UpsertCachedEvent ==
    /\ write.stage = "record" /\ ~write.deleted
    /\ cache' = [cache EXCEPT ![write.event] =
            [ver |-> write.ver, gen |-> sync.gen, src |-> SelfObject[write.event]]]
    /\ write' = [write EXCEPT !.stage = "schedule"]
    /\ UNCHANGED <<provider, enabled, sync, quarantine, session, writes>>

DeleteCachedEvent ==
    /\ write.stage = "record" /\ write.deleted
    /\ cache' = [cache EXCEPT ![write.event] = NoRow]
    /\ write' = [write EXCEPT !.stage = "schedule"]
    /\ UNCHANGED <<provider, enabled, sync, quarantine, session, writes>>

(* A result that is not completed, or a cache that cannot be written, only *)
(* schedules the sync.                                                     *)
LeaveToSync ==
    /\ write.stage = "record"
    /\ write' = [write EXCEPT !.stage = "schedule"]
    /\ UNCHANGED <<provider, store, session, writes>>

(* An unknown outcome, a dead process or a failed scheduling: the cache    *)
(* hears of the mutation no more than it has by then.                      *)
ForgetWrite ==
    /\ write # NoWrite /\ write' = NoWrite
    /\ UNCHANGED <<provider, store, session, writes>>

ScheduleAfterWrite ==
    /\ write.stage = "schedule"
    /\ sync' = IF enabled /\ ~Leased THEN Scheduled(sync) ELSE sync
    /\ write' = NoWrite
    /\ UNCHANGED <<provider, enabled, cache, quarantine, session, writes>>

-----------------------------------------------------------------------------
RunStep(w) ==
    \/ \E o \in Objects : ReadRepair(w, o)
    \/ NothingToRepair(w)
    \/ ApplyEventSyncObjectRepair(w)
    \/ FetchPage(w)
    \/ ApplyPage(w)
    \/ ApplyFinalPage(w)
    \/ LeaseLost(w)

Next ==
    \/ \E o \in Objects : ProviderChange(o)
    \/ LeaseExpires
    \/ EnsureCalendarSyncStates
    \/ ScheduleCalendarSync
    \/ SetCalendarEnabled
    \/ UpdateConnectionVerification
    \/ \E w \in Workers :
        \/ ClaimDueCalendarSync(w)
        \/ RunStep(w)
        \/ ProviderReset(w)
        \/ CaptureReset(w)
        \/ FailRun(w)
        \/ DeferCalendarSyncForReservation(w)
        \/ Cancelled(w)
    \/ \E e \in Events : UIMutation(e)
    \/ UpsertCachedEvent
    \/ DeleteCachedEvent
    \/ LeaveToSync
    \/ ForgetWrite
    \/ ScheduleAfterWrite

Spec == Init /\ [][Next]_vars

(* A claimed run is one goroutine that keeps going until it returns. *)
FairSpec == Spec /\ \A w \in Workers : WF_vars(RunStep(w))

-----------------------------------------------------------------------------
(* Properties.                                                             *)

Live(e) == cache[e] # NoRow

(* What the cache shows of an object is exactly what the provider holds. *)
Shows(rows, o) ==
    /\ content[o].ok
    /\ \A e \in EventsOf(o) :
        IF e \in content[o].members THEN rows[e] # NoRow /\ rows[e].ver = content[o].ver
                                    ELSE rows[e] = NoRow

(* The cursor never runs ahead of committed events: an object whose last   *)
(* change lies at or before the cursor is in the cache exactly as the      *)
(* provider holds it, through crashes between pages, lost leases, resets,  *)
(* window rebases and repairs (ApplyEventSyncPage, ResetCalendarSync).     *)
CursorIsCovered ==
    sync.cursor # 0 => \A o \in Objects : content[o].ver <= sync.cursor => Shows(cache, o)

(* A calendar reported ready hides no quarantined object: no warning of    *)
(* this or an abandoned earlier run is forgotten (finalDegraded).          *)
ReadyIsClean == sync.status = "ready" => quarantine = {}

(* A reader never sees half a provider object: the live members of one     *)
(* object come from one version of it (tombstoneMissingObjectMembers).     *)
MembersAreOneVersion ==
    \A d, e \in Events :
        ObjectOf[d] = ObjectOf[e] /\ Live(d) /\ Live(e) => cache[d].ver = cache[e].ver

(* While an object stays quarantined its last known members stay visible:  *)
(* no page, sweep, reset or rebase removes them (the sweeps' NOT EXISTS).  *)
QuarantineKeepsMembers ==
    [][\A e \in Events : ObjectOf[e] \in quarantine' /\ Live(e) => Live(e)']_vars

(* A full replacement that ends ready leaves nothing else behind: an object *)
(* the provider has not changed since the listing is shown exactly, and one *)
(* it no longer holds is gone, with or without a cursor (the terminal sweep *)
(* of applyEventSyncPageTx).                                                *)
ReplacementIsExact ==
    [][\A w \in Workers :
        ApplyFinalPage(w) /\ session[w].cursor = 0 /\ sync'.status = "ready" =>
            \A o \in Objects : content[o].ver <= session[w].upTo => Shows(cache', o)]_vars

(* After a page is applied the live rows of each object on it are the      *)
(* members the page gave, and no others: "all current event membership for *)
(* each listed object is present" (EventSyncPage.ReplacedObjectIDs).       *)
PageMembershipIsExact ==
    [][\A w \in Workers : ApplyPage(w) \/ ApplyFinalPage(w) =>
        \A e \in Events : ObjectOf[e] \in DOMAIN session[w].body =>
            LET read == session[w].body[ObjectOf[e]]
            IN  read.ok => (Live(e)' <=> e \in read.members)]_vars

(* The heartbeat of a run that owns the calendar can renew its lease       *)
(* (RenewCalendarSyncLease: "extends a current worker claim").             *)
CurrentClaimIsRenewable == \A w \in Workers : Holds(w) => Renewable(w)

(* Every claimed run ends: repairs, resets and pages are bounded and a     *)
(* lost lease is noticed at the next write.                                *)
RunEnds == \A w \in Workers : session[w].pc # "idle" ~> session[w].pc = "idle"
=============================================================================
