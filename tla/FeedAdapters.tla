----------------------------- MODULE FeedAdapters -----------------------------
(***************************************************************************)
(* One synchronized calendar, from the provider's side: how the Google,    *)
(* Microsoft and Apple adapters turn a feed into pages and cursors, what   *)
(* RunOne stores of them, and the one correction the program makes at a    *)
(* provider, on a click of the operator (google/event_sync.go,             *)
(* microsoft/event_sync.go, apple/event_sync.go, eventsync/service.go,     *)
(* storage/event_cache.go).                                                *)
(*                                                                         *)
(* Provider time is a counter; the ETag of an object is the time it was    *)
(* last changed, a cursor is the time up to which it reports changes, and  *)
(* 0 is the empty string.  Whether the worker still owns the calendar is   *)
(* the subject of EventReadModel; here it does, or the run ends.           *)
(***************************************************************************)
EXTENDS Naturals, FiniteSets

CONSTANTS
    Objects,     \* event IDs (Google, Microsoft) or resource paths (Apple)
    Kinds,       \* adapters of this instance
    MaxVersion,  \* bound on the provider's clock
    MaxClicks,   \* bound on the operator's clicks
    None         \* no object, no outcome

ASSUME FeedConstants ==
    /\ Kinds \subseteq {"google", "microsoft", "apple"}
    /\ MaxVersion \in Nat /\ MaxClicks \in Nat /\ None \notin Objects

VARIABLES
    kind,        \* the calendar's provider
    version,     \* the provider's clock
    content,     \* [Objects -> what the provider holds]
    late,        \* patches without an answer: pairs <<object, ETag>>
    patched,     \* representations a patch replaced
    cursor,      \* calendar_sync_state.cursor
    view,        \* [Objects -> version whose events the cache shows, or 0]
    quarantine,  \* [Objects -> calendar_sync_quarantine row]
    clicks,      \* representations the operator asked to correct
    reserved,    \* an exclusive_dispatch_reservations row of the calendar exists
    run          \* locals of RunOne and of the adapter it calls

provider == <<version, content, late, patched>>
stored == <<cursor, view, quarantine, clicks, reserved>>
vars == <<kind, provider, stored, run>>

Absent  == [ver |-> 0, body |-> "absent"]
Settled == [active |-> FALSE, etag |-> 0, grant |-> 0]
Unlisted == [ver |-> 0, body |-> "unlisted", etag |-> 0]

IdleRun == [pc |-> "idle", obj |-> None, etag |-> 0, held |-> FALSE, allowed |-> FALSE,
            read |-> Absent, outcome |-> None, token |-> 0, upTo |-> 0, more |-> FALSE,
            page |-> [o \in Objects |-> Unlisted], seen |-> {}, degraded |-> FALSE]

\* "empty": an all-day event of equal dates, the one defect that is corrected.
Malformed == {"bad", "empty"}
Bodies == {"absent", "in", "out", "bad"} \cup (IF kind = "google" THEN {"empty"} ELSE {})

Times == 0..MaxVersion
TypeOK ==
    /\ kind \in Kinds /\ version \in Times
    /\ content \in [Objects -> [ver : Times, body : Bodies]]
    /\ late \cup patched \cup clicks \subseteq Objects \X Times
    /\ cursor \in Times /\ view \in [Objects -> Times] /\ reserved \in BOOLEAN
    /\ quarantine \in [Objects -> [active : BOOLEAN, etag : Times, grant : Times]]
    /\ run \in [pc : {"idle", "due", "granted", "get", "patch", "refetch", "apply", "list", "inventory", "read"},
                obj : Objects \cup {None}, etag : Times, held : BOOLEAN, allowed : BOOLEAN,
                read : [ver : Times, body : Bodies],
                outcome : {None, "error", "still", "deleted", "replace", "absent"},
                token : Times, upTo : Times, more : BOOLEAN, seen : SUBSET Objects, degraded : BOOLEAN,
                page : [Objects -> [ver : Times, etag : Times,
                                    body : Bodies \cup {"unlisted", "unread"}]]]

Init ==
    /\ kind \in Kinds /\ version = 0 /\ content = [o \in Objects |-> Absent]
    /\ late = {} /\ patched = {}
    /\ cursor = 0 /\ view = [o \in Objects |-> 0]
    /\ quarantine = [o \in Objects |-> Settled]
    /\ clicks = {} /\ reserved = FALSE /\ run = IdleRun

(* A run without a cursor is a replacement, with one it is incremental. *)
Incremental == cursor # 0
Replacement == ~Incremental

-----------------------------------------------------------------------------
(* The provider and the operator *)

Writes(o, body) ==
    /\ version < MaxVersion /\ version' = version + 1
    /\ content' = [content EXCEPT ![o] = [ver |-> version + 1, body |-> body]]

(* Between its repair and the listing of the same replacement an object is  *)
(* taken to stay as it was; the README says what happens otherwise.         *)
RepairedUnlisted(o) ==
    (run.pc = "apply" /\ o = run.obj) \/ (run.pc \in {"list", "inventory"} /\ o \in run.seen)

ProviderChange(o) ==
    /\ ~(Replacement /\ RepairedUnlisted(o))
    /\ \E body \in Bodies : Writes(o, body)
    /\ UNCHANGED <<kind, late, patched, stored, run>>

(* ScheduleEventSyncObjectRepair: the grant names the representation shown. *)
Click(o) ==
    LET q == quarantine[o] IN
    /\ q.active /\ q.etag # 0 /\ Cardinality(clicks) < MaxClicks
    /\ quarantine' = [quarantine EXCEPT ![o].grant = q.etag]
    /\ clicks' = clicks \cup {<<o, q.etag>>}
    /\ UNCHANGED <<kind, provider, cursor, view, reserved, run>>

-----------------------------------------------------------------------------
(* RunOne: first the repair of one due object *)

ClaimDueCalendarSync ==
    /\ run = IdleRun
    /\ run' = [IdleRun EXCEPT !.pc = "due", !.token = cursor]
    /\ UNCHANGED <<kind, provider, stored>>

(* ListDueEventSyncQuarantine.  Microsoft has no repairer. *)
DueForRepair(o) ==
    LET q == quarantine[o] IN
    /\ run.pc = "due" /\ kind # "microsoft" /\ q.active
    /\ run' = [run EXCEPT !.obj = o, !.etag = q.etag,
                          !.pc = IF q.grant # 0 /\ q.grant = q.etag THEN "granted" ELSE "get"]
    /\ UNCHANGED <<kind, provider, stored>>

NothingDue ==
    /\ run.pc = "due" /\ run' = [run EXCEPT !.pc = "list"]
    /\ UNCHANGED <<kind, provider, stored>>

(* BeginWriteDispatch; a conflict ends the run. *)
Reserve ==
    /\ run.pc = "granted" /\ ~reserved /\ ~run.held
    /\ reserved' = TRUE /\ run' = [run EXCEPT !.held = TRUE]
    /\ UNCHANGED <<kind, provider, cursor, view, quarantine, clicks>>

(* ConsumeEventSyncProviderMutationAuthorization *)
Consume ==
    LET q == quarantine[run.obj] IN
    /\ run.pc = "granted" /\ run.held
    /\ q.active /\ q.etag = run.etag /\ q.grant = run.etag
    /\ quarantine' = [quarantine EXCEPT ![run.obj].grant = 0]
    /\ run' = [run EXCEPT !.pc = "get", !.allowed = TRUE]
    /\ UNCHANGED <<kind, provider, cursor, view, clicks, reserved>>

(* The lease is lost: nothing was called, so the reservation is returned. *)
ConsumeFails ==
    /\ run.pc = "granted" /\ run.held
    /\ reserved' = FALSE /\ run' = IdleRun
    /\ UNCHANGED <<kind, provider, cursor, view, quarantine, clicks>>

(* What a read object means for the projection.  A read may fail, and the   *)
(* time zone a Google date needs may not be confirmed.                      *)
Outcomes(c) ==
    {"error"}
    \cup (IF kind = "google" /\ c.body # "absent" THEN {"still"} ELSE {})
    \cup CASE c.body = "absent"    -> {"deleted"}
           [] c.body = "in"        -> {"replace"}
           [] c.body = "out"       -> {"absent"}
           [] c.body \in Malformed -> {"still"}

Ends(outcome, c) ==
    run' = [run EXCEPT !.pc = "apply", !.outcome = outcome, !.read = c]

(* RepairEventSyncObject reads the object ... *)
RepairGet ==
    LET c == content[run.obj] IN
    /\ run.pc = "get"
    /\ \/ c.body = "empty" /\ run.allowed /\ run.etag = c.ver
          /\ run' = [run EXCEPT !.pc = "patch", !.read = c]
       \/ \E outcome \in Outcomes(c) : Ends(outcome, c)
    /\ UNCHANGED <<kind, provider, stored>>

\* Faulty: the patch is not bound to the representation just read.
AcceptsAny(o, etag) == content[o].body # "absent"

(* If-Match *)
Accepts(o, etag) == content[o].body # "absent" /\ content[o].ver = etag

Corrects(o) ==
    /\ \E body \in {"in", "out"} : Writes(o, body)
    /\ patched' = patched \cup {<<o, content[o].ver>>}

(* ... corrects it ... *)
RepairPatch ==
    LET o == run.obj IN
    /\ run.pc = "patch"
    /\ \/ Accepts(o, run.read.ver) /\ Corrects(o) /\ late' = late
          /\ run' = [run EXCEPT !.pc = "refetch"]
       \/ ~Accepts(o, run.read.ver) /\ UNCHANGED provider
          /\ IF content[o].body = "absent" THEN Ends("deleted", run.read) ELSE Ends("error", run.read)
       \/ late' = late \cup {<<o, run.read.ver>>} /\ UNCHANGED <<version, content, patched>>
          /\ Ends("error", run.read)
    /\ UNCHANGED <<kind, stored>>

(* ... and reads it again before trusting it. *)
RepairRefetch ==
    /\ run.pc = "refetch"
    /\ \E outcome \in Outcomes(content[run.obj]) : Ends(outcome, content[run.obj])
    /\ UNCHANGED <<kind, provider, stored>>

(* A patch nobody waits for is executed late, refused or lost. *)
LatePatch(p) ==
    /\ late' = late \ {p}
    /\ \/ Accepts(p[1], p[2]) /\ Corrects(p[1])
       \/ UNCHANGED <<version, content, patched>>
    /\ UNCHANGED <<kind, stored, run>>

\* Faulty: the reservation is returned whatever became of the patch.
AlwaysReleased == run.held
(* Nothing is given back when the repair ended in an error. *)
Released == run.held /\ run.outcome # "error"

(* upsertEventSyncWarning: a grant does not outlive its ETag. *)
Warned(q, etag) ==
    [active |-> TRUE, etag |-> etag, grant |-> IF q.active /\ q.etag = etag THEN q.grant ELSE 0]

(* ApplyEventSyncObjectRepair, then the release.  A failed read of the      *)
(* object keeps it quarantined as it was.                                   *)
ApplyRepair ==
    LET o == run.obj IN
    /\ run.pc = "apply"
    /\ CASE run.outcome = "replace" ->
              /\ view' = [view EXCEPT ![o] = run.read.ver]
              /\ quarantine' = [quarantine EXCEPT ![o] = Settled]
         [] run.outcome \in {"absent", "deleted"} ->
              /\ view' = [view EXCEPT ![o] = 0]
              /\ quarantine' = [quarantine EXCEPT ![o] = Settled]
         [] run.outcome = "still" ->
              /\ quarantine' = [quarantine EXCEPT ![o] = Warned(@, run.read.ver)]
              /\ UNCHANGED view
         [] run.outcome = "error" ->
              /\ quarantine' = [quarantine EXCEPT ![o] = Warned(@, run.etag)]
              /\ UNCHANGED view
    /\ reserved' = (reserved /\ ~Released)
    /\ run' = [IdleRun EXCEPT !.pc = "list", !.token = cursor,
                   !.seen = IF run.outcome = "replace" THEN {o} ELSE {}]
    /\ UNCHANGED <<kind, provider, cursor, clicks>>

-----------------------------------------------------------------------------
(* The feed *)

Lists(objects, upTo, more) ==
    run' = [run EXCEPT !.pc = "read", !.upTo = upTo, !.more = more,
                !.page = [o \in Objects |-> IF o \in objects
                             THEN [ver |-> content[o].ver, etag |-> content[o].ver,
                                   body |-> IF content[o].body = "absent" THEN "absent" ELSE "unread"]
                             ELSE Unlisted]]

Changed(from, upTo) == {o \in Objects : from < content[o].ver /\ content[o].ver <= upTo}
Existing == {o \in Objects : content[o].body # "absent"}

(* The first request decides what the new token will cover ... *)
Starts(listed) == Lists(listed, version, FALSE) /\ UNCHANGED <<kind, provider, stored>>

(* ... of an unbounded Events.List, ... *)
ListEvents ==
    /\ run.pc = "list" /\ kind = "google"
    /\ Starts(IF Incremental THEN Changed(run.token, version) ELSE Existing)

(* ... or of a calendarView/delta bound to the window. *)
ListCalendarViewDelta ==
    /\ run.pc = "list" /\ kind = "microsoft"
    /\ Starts(IF Incremental THEN Changed(run.token, version) ELSE Existing)

(* syncCollection: the REPORT of an Apple calendar.  A replacement only     *)
(* keeps its token, and none of a truncated or unsupported REPORT.          *)
SyncCollection ==
    /\ run.pc = "list" /\ kind = "apple"
    /\ \/ /\ Replacement
          /\ \E token \in {0, version} : run' = [run EXCEPT !.pc = "inventory", !.upTo = token]
       \/ /\ Incremental
          /\ \E upTo \in {version} \cup {content[o].ver : o \in Changed(run.token, version)} :
                Lists(Changed(run.token, upTo), upTo, upTo < version)
    /\ UNCHANGED <<kind, provider, stored>>

(* The calendar query, or the PROPFIND inventory when the REPORT or the     *)
(* query cannot be used.                                                    *)
ListInventory ==
    /\ run.pc = "inventory" /\ Lists(Existing, run.upTo, FALSE)
    /\ UNCHANGED <<kind, provider, stored>>

Reads(o, etag) ==
    /\ run.pc = "read" /\ run.page[o].body = "unread"
    /\ run' = [run EXCEPT !.page[o] = [ver |-> content[o].ver, body |-> content[o].body, etag |-> etag]]
    /\ UNCHANGED <<kind, provider, stored>>

(* An item is what it is when its page is served. *)
ReadGoogleItem(o) == kind = "google" /\ Reads(o, content[o].ver)

(* One malformed item fails its page. *)
ReadGraphItem(o) ==
    kind = "microsoft" /\ content[o].body \notin Malformed /\ Reads(o, content[o].ver)

(* fetchEventSyncObject, or an object of the calendar query.  A warning has *)
(* the ETag of the listing, or none in an inventory.                        *)
FetchObject(o) ==
    /\ kind = "apple"
    /\ \E etag \in {run.page[o].etag, IF Replacement THEN 0 ELSE run.page[o].etag} : Reads(o, etag)

Unread == {o \in Objects : run.page[o].body = "unread"}
With(bodies) == {o \in Objects : run.page[o].body \in bodies}

(* A Google replacement passes over what lies outside the window and        *)
(* leaves it to the sweep; all other pages remove it.                       *)
Removed == With({"absent"}) \cup (IF kind = "google" /\ Replacement THEN {} ELSE With({"out"}))
Shown == With({"in"})

\* Faulty: the cursor stands for the moment the last page was read.
CoveredAtEnd == version
(* The cursor the last page brought. *)
Covered == run.upTo

(* A page of what has been read: all of an Apple listing, any part of the   *)
(* others.  The last page sweeps, and stores its cursor when nothing is     *)
(* quarantined.                                                             *)
ApplyEventSyncPage ==
    LET warnings == With(Malformed)
        last == Unread = {} /\ ~run.more
        degraded == run.degraded \/ warnings # {}
        seen == run.seen \cup Shown
        rows == [o \in Objects |->
                    IF o \in Shown \cup Removed THEN Settled
                    ELSE IF o \in warnings THEN Warned(quarantine[o], run.page[o].etag)
                    ELSE quarantine[o]]
        kept == [o \in Objects |->
                    IF o \in Shown THEN run.page[o].ver
                    ELSE IF o \in Removed THEN 0 ELSE view[o]]
        quarantined == {o \in Objects : rows[o].active}
    IN
    /\ run.pc = "read" /\ (kind = "apple" => Unread = {})
    /\ quarantine' = rows
    /\ view' = IF last /\ Replacement
               THEN [o \in Objects |-> IF o \in seen \cup quarantined THEN kept[o] ELSE 0] ELSE kept
    /\ cursor' = IF last /\ ~degraded /\ quarantined = {} THEN Covered ELSE cursor
    /\ run' = IF last THEN IdleRun
              ELSE [run EXCEPT !.seen = seen, !.degraded = degraded,
                        !.pc = IF run.more THEN "list" ELSE "read", !.token = run.upTo,
                        !.page = [o \in Objects |-> IF o \in Unread THEN run.page[o] ELSE Unlisted]]
    /\ UNCHANGED <<kind, provider, clicks, reserved>>

(* An expired token, or an Apple calendar without usable REPORTs.           *)
ResetRequired == run.pc = "list" \/ (run.pc = "read" /\ kind # "apple")

(* The rows of the generation so far count as old. *)
ResetCalendarSync ==
    /\ ResetRequired
    /\ cursor' = 0 /\ run' = [IdleRun EXCEPT !.pc = "list"]
    /\ UNCHANGED <<kind, provider, view, quarantine, clicks, reserved>>

(* An error, a lost lease or a crash.  A reservation stays behind. *)
Fail ==
    /\ run # IdleRun /\ run' = IdleRun
    /\ UNCHANGED <<kind, provider, stored>>

-----------------------------------------------------------------------------
Repair == \/ NothingDue \/ Reserve \/ Consume \/ ConsumeFails \/ RepairGet \/ RepairPatch
          \/ RepairRefetch \/ ApplyRepair \/ (\E o \in Objects : DueForRepair(o))
Feed == \/ ListEvents \/ ListCalendarViewDelta \/ SyncCollection \/ ListInventory
        \/ (\E o \in Objects : ReadGoogleItem(o) \/ ReadGraphItem(o) \/ FetchObject(o))
        \/ ApplyEventSyncPage \/ ResetCalendarSync

Next ==
    \/ \E o \in Objects : ProviderChange(o) \/ Click(o)
    \/ \E p \in late : LatePatch(p)
    \/ ClaimDueCalendarSync \/ Repair \/ Feed \/ Fail

Spec == Init /\ [][Next]_vars

-----------------------------------------------------------------------------
(* Properties *)

(* Every change the cursor covers is in the cache: no page boundary, no     *)
(* truncated REPORT, no change during the listing, no reset, repair or      *)
(* correction makes an adapter hand out a cursor beyond what its pages      *)
(* said (SyncEvents of the three adapters, applyEventSyncPageTx).           *)
CursorCoversPages ==
    \A o \in Objects :
        LET c == content[o] IN
        cursor # 0 /\ c.ver <= cursor /\ ~quarantine[o].active =>
            /\ c.body \notin Malformed
            /\ view[o] = IF c.body = "in" THEN c.ver ELSE 0

(* The program changes an event at its provider only in the representation  *)
(* the operator clicked on, however late the patch is executed and whoever  *)
(* edits the event meanwhile (RepairEventSyncObject, "a later provider      *)
(* version needs a new click").                                             *)
CorrectionsAreAuthorized == patched \subseteq clicks

(* While a patch may still be executed its calendar is reserved, so that no *)
(* other writer of this program acts on it (repairObject).                  *)
UnsettledPatchIsReserved == late # {} \/ run.pc = "patch" => reserved
=============================================================================
