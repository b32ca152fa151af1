--------------------------- MODULE TargetMappings ---------------------------
(***************************************************************************)
(* Reconciliation of one sync rule: the event_mappings rows, the copies in *)
(* the target calendar and the engine's runs, which write an intent into   *)
(* the mapping before every provider call and replace it by compare and    *)
(* swap afterwards (syncengine/engine.go, mapping_mutation.go,             *)
(* cache_target_ownership.go, storage/mapping_cas.go).                     *)
(*                                                                         *)
(* The lease of SyncJobs is not assumed: a run that passed its last fence  *)
(* check, or whose call is still on the wire, may meet any number of later *)
(* runs.  A call is executed late, or never, and its answer may be lost.   *)
(* Copies stand for themselves: no provider allows the engine to write a   *)
(* series (preflightSafeRecurrence), so instances of one are mirrored as   *)
(* detached copies or not at all.                                          *)
(***************************************************************************)
EXTENDS Naturals, FiniteSets

CONSTANTS
    Events,       \* mirrored source events
    Instances,    \* those that are instances of one recurring source event
    Runs,         \* concurrent runs of the rule
    Copies,       \* target event IDs a create may return
    Contents,     \* contents of a source event
    Cancelled,    \* the state of a cancelled source event
    Foreign,      \* a content the target's user wrote
    MaxRows,      \* bound on the number of rows ever inserted for an event
    MaxVersion,   \* bound on event_mappings.version
    MaxEdits,     \* bound on changes the target's user makes
    None          \* no run, no copy, no state

States == Contents \cup {Cancelled, Foreign}

ASSUME MappingConstants ==
    /\ Instances \subseteq Events /\ None \notin Events \cup Runs \cup Copies \cup States
    /\ Cancelled # Foreign /\ {Cancelled, Foreign} \cap Contents = {}
    /\ MaxRows \in Nat /\ MaxVersion \in Nat \ {0} /\ MaxEdits \in Nat

VARIABLES
    cached,       \* rule.SyncMode = "cached_instances"
    source,       \* [Events -> the state the source calendar holds]
    published,    \* [Events -> the states it ever held]
    rows,         \* event_mappings: [Events -> Row or NoRow]
    inserted,     \* [Events -> rows inserted so far], the incarnations
    copies,       \* target calendar: [Copies -> Copy or NoCopy]
    edits,        \* changes made by the target's user so far
    calls,        \* provider calls on the wire
    run           \* [Runs -> locals of a run]

target == <<copies, edits>>
mappings == <<rows, inserted>>
vars == <<cached, source, published, rows, inserted, copies, edits, calls, run>>

NoRow == [state |-> "none", inc |-> 0, ver |-> 0, copy |-> None, hash |-> None, etag |-> 0]
NoCopy == [event |-> None, hash |-> None, live |-> FALSE, visible |-> FALSE, edited |-> FALSE, etag |-> 0]
IdleRun == [pc |-> "idle", master |-> FALSE, list |-> [e \in Events |-> None],
            rows |-> [e \in Events |-> NoRow], event |-> None, row |-> NoRow, own |-> FALSE]
Idle(r) == run[r].pc = "idle"

TypeOK ==
    /\ cached \in BOOLEAN /\ source \in [Events -> Contents \cup {Cancelled}]
    /\ published \in [Events -> SUBSET (Contents \cup {Cancelled})] /\ edits \in 0..MaxEdits
    /\ \A e \in Events :
        /\ rows[e].state \in {"none", "pending_create", "pending_update", "pending_delete", "current"}
        /\ inserted[e] \in 0..MaxRows /\ rows[e].inc \in 0..inserted[e]
        /\ rows[e].ver \in 0..MaxVersion
        /\ rows[e].copy \in Copies \cup {None} /\ rows[e].hash \in Contents \cup {None}
        /\ rows[e].state = "current" => rows[e].copy # None /\ rows[e].hash # None
    /\ \A k \in Copies : copies[k].event \in Events \cup {None} /\ copies[k].hash \in States \cup {None}
    /\ \A c \in calls : c.kind \in {"create", "update", "delete"} /\ c.run \in Runs \cup {None}
    /\ \A r \in Runs :
        /\ run[r].pc \in {"idle", "listed", "working", "lookup", "waiting", "answered"}
        /\ run[r].event \in Events \cup {None}

Init ==
    /\ cached \in BOOLEAN
    /\ source \in [Events -> Contents \cup {Cancelled}]
    /\ published = [e \in Events |-> {source[e]}]
    /\ rows = [e \in Events |-> NoRow] /\ inserted = [e \in Events |-> 0]
    /\ copies = [k \in Copies |-> NoCopy]
    /\ edits = 0 /\ calls = {}
    /\ run = [r \in Runs |-> IdleRun]

-----------------------------------------------------------------------------
(* Outside the engine.                                                     *)

SourceChange(e) ==
    /\ \E n \in (Contents \cup {Cancelled}) \ {source[e]} :
        /\ source' = [source EXCEPT ![e] = n]
        /\ published' = [published EXCEPT ![e] = @ \cup {n}]
    /\ UNCHANGED <<cached, mappings, target, calls, run>>

UserEdit(k) ==
    /\ copies[k].live /\ edits < MaxEdits
    /\ \E stays \in BOOLEAN :
        copies' = [copies EXCEPT ![k].hash = Foreign, ![k].edited = TRUE, ![k].live = stays,
                                 ![k].etag = @ + 1]
    /\ edits' = edits + 1
    /\ UNCHANGED <<cached, source, published, mappings, calls, run>>

(* The index behind the marker lookup catches up with a create. *)
BecomesVisible(k) ==
    /\ copies[k].live /\ ~copies[k].visible
    /\ copies' = [copies EXCEPT ![k].visible = TRUE]
    /\ UNCHANGED <<cached, source, published, mappings, edits, calls, run>>

-----------------------------------------------------------------------------
(* The start of a run.                                                     *)

(* Faulty: an event missing from the window counts as cancelled. *)
AbsentIsCancelled(e, listed) == IF e \in listed THEN source[e] ELSE Cancelled
(* "Absence from a bounded source window is not a deletion signal." *)
Listed(e, listed) == IF e \in listed THEN source[e] ELSE None

(* listAll, or the batch RunCacheCopy passed: any event may lie outside    *)
(* the rule's window, and so may the master of the instances.              *)
ListSource(r) ==
    /\ Idle(r)
    /\ \E listed \in SUBSET Events, master \in IF Instances = {} THEN {FALSE} ELSE BOOLEAN :
        run' = [run EXCEPT ![r] = [IdleRun EXCEPT !.pc = "listed", !.master = master,
                    !.list = [e \in Events |-> Listed(e, listed)]]]
    /\ UNCHANGED <<cached, source, published, mappings, target, calls>>

(* Any update or deletion without a known outcome stops every run.         *)
Unresolved == \E e \in Events : rows[e].state \in {"pending_update", "pending_delete"}
(* A master in sight would become a copied series unless one of its        *)
(* instances is mapped on its own already; preflight refuses the run.      *)
WritesSeries(r) == run[r].master /\ \A e \in Instances : rows[e] = NoRow

ListMappings(r) ==
    /\ run[r].pc = "listed"
    /\ run' = [run EXCEPT ![r] = IF Unresolved \/ WritesSeries(r) THEN IdleRun
                                 ELSE [@ EXCEPT !.pc = "working", !.rows = rows]]
    /\ UNCHANGED <<cached, source, published, mappings, target, calls>>

(* An error, a lost lease, a stop request or a crash ends the run; what it *)
(* sent stays on the wire.                                                 *)
Fail(r) ==
    /\ ~Idle(r)
    /\ run' = [run EXCEPT ![r] = IdleRun]
    /\ calls' = {[c EXCEPT !.run = IF @ = r THEN None ELSE @] : c \in calls}
    /\ UNCHANGED <<cached, source, published, mappings, target>>

-----------------------------------------------------------------------------
(* Mapping rows.                                                           *)

(* Faulty: a version is enough to identify a row. *)
SameVersion(e, m) == rows[e] # NoRow /\ rows[e].ver = m.ver
(* The WHERE clause of UpdateMappingCAS and DeleteMappingCAS. *)
Unchanged(e, m) == rows[e] # NoRow /\ rows[e].inc = m.inc /\ rows[e].ver = m.ver

(* InsertPendingCreateMapping, InsertPendingMutationMapping: ON CONFLICT   *)
(* DO NOTHING, with a fresh incarnation.                                   *)
Inserts(e, m) ==
    /\ rows[e] = NoRow /\ inserted[e] < MaxRows
    /\ rows' = [rows EXCEPT ![e] = m]
    /\ inserted' = [inserted EXCEPT ![e] = @ + 1]

Swaps(e, old, new) ==
    /\ Unchanged(e, old) /\ old.ver < MaxVersion
    /\ rows' = [rows EXCEPT ![e] = new]
    /\ UNCHANGED inserted

Removes(e, old) ==
    /\ Unchanged(e, old)
    /\ rows' = [rows EXCEPT ![e] = NoRow]
    /\ UNCHANGED inserted

(* Faulty: a call is sent without the version it was decided on. *)
Unconditional(m) == 0
(* cacheTargetConditions: a cached copy is changed only at the version     *)
(* last confirmed; 0 asks for none.                                        *)
Condition(m) == IF cached THEN m.etag ELSE 0

Sends(r, kind, e, m, n) ==
    calls' = calls \cup {[run |-> r, kind |-> kind, event |-> e, copy |-> m.copy, hash |-> n,
                          etag |-> Condition(m)]}

Waits(r, e, m) == run' = [run EXCEPT ![r].pc = "waiting", ![r].event = e, ![r].row = m]

Pending == [create |-> "pending_create", update |-> "pending_update", delete |-> "pending_delete"]

(* beginMappingMutation: the intent is written over the row as the run     *)
(* knows it, or inserted, and then the call goes out.                      *)
BeginMutation(r, e, m, kind, k, n) ==
    LET intent == [m EXCEPT !.state = Pending[kind], !.copy = k, !.ver = @ + 1]
    IN  /\ Swaps(e, m, intent)
        /\ Sends(r, kind, e, intent, n)
        /\ Waits(r, e, intent)
        /\ UNCHANGED <<cached, source, published, target>>

-----------------------------------------------------------------------------
(* The events of a run, one at a time.                                     *)

Working(r, e) == run[r].pc = "working" /\ run[r].list[e] # None
State(r, e) == run[r].list[e]
Known(r, e) == run[r].rows[e]

Done(r, e) ==
    run' = [run EXCEPT ![r] = [@ EXCEPT !.pc = "working", !.list[e] = None, !.rows[e] = NoRow,
                                        !.event = None, !.row = NoRow, !.own = FALSE]]

(* Unchanged since the last run, or nothing to delete. *)
Skip(r, e) ==
    /\ Working(r, e)
    /\ \/ Known(r, e).state = "current" /\ Known(r, e).hash = State(r, e)
       \/ Known(r, e) = NoRow /\ State(r, e) = Cancelled
    /\ Done(r, e)
    /\ UNCHANGED <<cached, source, published, mappings, target, calls>>

(* A mapped event that changed or was cancelled. *)
ChangeCopy(r, e) ==
    LET m == Known(r, e) n == State(r, e)
    IN  /\ Working(r, e) /\ m.state = "current" /\ m.hash # n
        /\ BeginMutation(r, e, m, IF n = Cancelled THEN "delete" ELSE "update", m.copy, n)

(* An unmapped event: the intent to create it comes before anything else.  *)
CreateIntent(r, e) ==
    LET intent == [NoRow EXCEPT !.state = "pending_create", !.inc = inserted[e] + 1, !.ver = 1]
    IN  /\ Working(r, e) /\ Known(r, e) = NoRow /\ State(r, e) # Cancelled
        /\ Inserts(e, intent)
        /\ run' = [run EXCEPT ![r].pc = "lookup", ![r].event = e, ![r].row = intent, ![r].own = TRUE]
        /\ UNCHANGED <<cached, source, published, target, calls>>

(* A creation an earlier run left open. *)
RecoverCreate(r, e) ==
    /\ Working(r, e) /\ Known(r, e).state = "pending_create"
    /\ run' = [run EXCEPT ![r].pc = "lookup", ![r].event = e, ![r].row = Known(r, e), ![r].own = FALSE]
    /\ UNCHANGED <<cached, source, published, mappings, target, calls>>

(* FindEventBySyncMarkerV2 *)
Marked(e) == {k \in Copies : copies[k].event = e /\ copies[k].live /\ copies[k].visible}

(* Faulty: a create that cannot be found is sent again. *)
CreateAnyway(r) == TRUE
(* "Never retry blindly": only the intent written by this very run. *)
MayCreate(r) == run[r].own

CreateCopy(r) ==
    LET e == run[r].event
    IN  /\ run[r].pc = "lookup" /\ State(r, e) # Cancelled
        /\ Marked(e) = {} /\ MayCreate(r)
        /\ Sends(r, "create", e, run[r].row, State(r, e))
        /\ run' = [run EXCEPT ![r].pc = "waiting"]
        /\ UNCHANGED <<cached, source, published, mappings, target>>

(* The copy is there with the right content: it becomes the mapped one.    *)
AdoptCopy(r) ==
    LET e == run[r].event
    IN  /\ run[r].pc = "lookup"
        /\ \E k \in Marked(e) :
            /\ copies[k].hash = State(r, e)
            /\ run' = [run EXCEPT ![r].pc = "answered",
                                  ![r].row = [@ EXCEPT !.copy = k, !.etag = copies[k].etag]]
        /\ UNCHANGED <<cached, source, published, mappings, target, calls>>

(* The copy is there and differs, or its event was cancelled since.  For a *)
(* cached copy there is no confirmed version to ask for: the run fails.    *)
RepairCopy(r) ==
    LET e == run[r].event n == State(r, e)
    IN  /\ run[r].pc = "lookup" /\ ~cached
        /\ \E k \in Marked(e) :
            /\ copies[k].hash # n
            /\ BeginMutation(r, e, run[r].row, IF n = Cancelled THEN "delete" ELSE "update", k, n)

-----------------------------------------------------------------------------
(* Calls.                                                                  *)

Answered(c, k) ==
    IF c.run # None
    THEN \/ run' = [run EXCEPT ![c.run].pc = "answered",
                               ![c.run].row = [@ EXCEPT !.copy = k, !.etag = copies'[k].etag]]
         \/ UNCHANGED run
    ELSE UNCHANGED run

Executes(c, k, copy) ==
    /\ copies' = [copies EXCEPT ![k] = copy]
    /\ calls' = calls \ {c}
    /\ Answered(c, k)
    /\ UNCHANGED <<cached, source, published, mappings, edits>>

(* A create is executed now or never, and may not be found at once. *)
ExecuteCreate(c) ==
    /\ c.kind = "create"
    /\ \E k \in Copies, visible \in BOOLEAN :
        /\ copies[k] = NoCopy
        /\ Executes(c, k, [event |-> c.event, hash |-> c.hash, live |-> TRUE,
                           visible |-> visible, edited |-> FALSE, etag |-> 1])

(* An update or deletion; the provider refuses it if the copy is not at    *)
(* the version asked for.                                                  *)
ExecuteChange(c) ==
    LET k == c.copy
    IN  /\ c.kind \in {"update", "delete"} /\ copies[k].live
        /\ c.etag # 0 => c.etag = copies[k].etag
        /\ Executes(c, k, [copies[k] EXCEPT
                !.hash = IF c.kind = "update" THEN c.hash ELSE @,
                !.live = c.kind = "update", !.edited = @ /\ c.kind = "delete",
                !.etag = IF cached THEN @ + 1 ELSE @])

(* Faulty: the run does not wait for the provider's answer. *)
Unanswered(r) == run[r].pc \in {"waiting", "answered"}
(* A completed outcome came back. *)
HasAnswer(r) == run[r].pc = "answered"

(* completeMappingMutation, completeMappingDelete and the end of a         *)
(* creation: the intent gives way to the outcome.                          *)
Complete(r) ==
    LET e == run[r].event m == run[r].row n == State(r, e)
    IN  /\ HasAnswer(r)
        /\ IF n = Cancelled THEN Removes(e, m)
           ELSE Swaps(e, m, [m EXCEPT !.state = "current", !.hash = n, !.ver = @ + 1])
        /\ Done(r, e)
        /\ UNCHANGED <<cached, source, published, target, calls>>

FinishRun(r) ==
    /\ run[r].pc = "working" /\ \A e \in Events : run[r].list[e] = None
    /\ run' = [run EXCEPT ![r] = IdleRun]
    /\ UNCHANGED <<cached, source, published, mappings, target, calls>>

-----------------------------------------------------------------------------
RunStep(r) ==
    \/ ListSource(r)
    \/ ListMappings(r)
    \/ \E e \in Events :
        \/ Skip(r, e)
        \/ ChangeCopy(r, e)
        \/ CreateIntent(r, e)
        \/ RecoverCreate(r, e)
    \/ CreateCopy(r)
    \/ AdoptCopy(r)
    \/ RepairCopy(r)
    \/ Complete(r)
    \/ FinishRun(r)
    \/ Fail(r)

Next ==
    \/ \E e \in Events : SourceChange(e)
    \/ \E k \in Copies : UserEdit(k) \/ BecomesVisible(k)
    \/ \E r \in Runs : RunStep(r)
    \/ \E c \in calls : ExecuteCreate(c) \/ ExecuteChange(c)

Spec == Init /\ [][Next]_vars

-----------------------------------------------------------------------------
(* Properties.                                                             *)

Live(e) == {k \in Copies : copies[k].event = e /\ copies[k].live}

(* engine.go writes the intent before the call and never forgets it while  *)
(* the outcome is unknown: for every call on the wire the event's row is   *)
(* in the matching pending state, and it is the event's only call.         *)
CallsAreIntended ==
    \A c \in calls :
        /\ rows[c.event].state = Pending[c.kind] /\ (c.kind # "create" => rows[c.event].copy = c.copy)
        /\ \A d \in calls : d.event = c.event => d = c

(* mapping_cas.go: a row that claims to be current names a copy that shows *)
(* exactly the recorded content at the recorded version, unless the        *)
(* target's user changed it; no overlapping run left it on another copy.   *)
CurrentMappingsAreTrue ==
    \A e \in Events :
        LET m == rows[e]
        IN  m.state = "current" => \E k \in Copies :
                /\ k = m.copy /\ copies[k].event = e
                /\ \/ copies[k].edited
                   \/ /\ copies[k].live /\ copies[k].hash = m.hash
                      /\ cached => copies[k].etag = m.etag

(* engine.go:544-546: no copy is ever left behind that the rule does not   *)
(* know of: a live copy is the mapped one, or the one a creation intent    *)
(* will find.                                                              *)
LiveCopiesAreKnown ==
    \A e \in Events, k \in Copies :
        copies[k].event = e /\ copies[k].live =>
            rows[e].state = "pending_create" \/ rows[e].copy = k

(* cacheTargetConditions: whatever the target's user did to a cached copy  *)
(* stays; the rule neither overwrites nor removes it, however late its     *)
(* calls arrive.                                                           *)
UserEditsSurvive ==
    [][\A k \in Copies : cached /\ copies[k].edited =>
            copies'[k].edited /\ (copies'[k] # copies[k] => edits' # edits \/ copies'[k].live)]_vars

(* The engine implements the promise of Mirror: never two copies of an     *)
(* event, never a state the source did not publish, no removal without a   *)
(* cancellation (absence from a run's window is none).                     *)
M == INSTANCE Mirror WITH
        mirror <- [e \in Events |-> {<<k, copies[k].hash>> : k \in Live(e)}]
ImplementsMirror == M!Spec
=============================================================================
