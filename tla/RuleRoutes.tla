------------------------------ MODULE RuleRoutes ------------------------------
(***************************************************************************)
(* The graph of sync rules over discovered calendars: rules are created,   *)
(* enabled, paused and archived by several HTTP handlers at once while     *)
(* connections are verified and deleted, calendars are selected, source    *)
(* projections are published and one run at a time writes to a target      *)
(* (storage/store.go, cache_rule_enable.go, cache_execution_eligibility.go,*)
(* sync_control.go, rule_config_version.go, runtime/worker.go).            *)
(*                                                                         *)
(* A calendar row is a connection and the provider's calendar ID, so two   *)
(* rows may stand for one physical calendar.  All connections are Google   *)
(* accounts, the only ones a cached rule may use, every calendar is        *)
(* writable and no ID is the placeholder "primary".  The queue, the lease  *)
(* and the dry run a direct rule needs are in SyncJobs.                    *)
(***************************************************************************)
EXTENDS Naturals

CONSTANTS
    Connections,  \* identities of connections rows
    Rows,         \* calendars rows: pairs <<connection, provider calendar ID>>
    Rules,        \* identities of sync_rules rows
    Cached,       \* the rules whose sync_mode is cached_instances
    Sessions,     \* handlers that may be inside a transaction
    MaxEdits,     \* bound on changes of a connection's status or a selection
    None          \* no rule, no calendar

ASSUME RouteConstants ==
    /\ \A c \in Rows : c[1] \in Connections
    /\ Cached \subseteq Rules /\ MaxEdits \in Nat /\ None \notin Rules \cup Rows

VARIABLES
    status,    \* connections.status
    calendars, \* [Rows -> absent, or calendars.enabled]
    rules,     \* sync_rules rows
    preview,   \* [Cached -> whether the latest preview has the rule's present
               \* config_version, and the revision of the served snapshot]
    tx,        \* [Sessions -> transaction on the rule graph]
    run,       \* holder of the global reservation and where its run stands
    mapped,    \* rules with event_mappings rows
    owners,    \* rules with copies in their physical target (provider's side)
    edits      \* changes of a connection's status or a selection so far

vars == <<status, calendars, rules, preview, tx, run, mapped, owners, edits>>

NoRule    == [state |-> "absent", src |-> None, tgt |-> None]
NoPreview == [version |-> FALSE, revision |-> FALSE]
NoTx      == [op |-> "none", rule |-> None, row |-> NoRule]
NoRun     == [rule |-> None, step |-> "none", called |-> FALSE]

RuleRow == [state : {"absent", "paused", "enabled", "archived"},
            src : Rows \cup {None}, tgt : Rows \cup {None}]
Steps == {"none", "reserved", "intent", "ready", "called"}

TypeOK ==
    /\ status \in [Connections -> {"connected", "error", "deleted"}]
    /\ calendars \in [Rows -> {"absent", "enabled", "disabled"}]
    /\ rules \in [Rules -> RuleRow]
    /\ preview \in [Cached -> [version : BOOLEAN, revision : BOOLEAN]]
    /\ tx \in [Sessions -> [op : {"none", "create", "enable"}, rule : Rules \cup {None}, row : RuleRow]]
    /\ run \in [rule : Rules \cup {None}, step : Steps, called : BOOLEAN]
    /\ mapped \in SUBSET Rules /\ owners \in SUBSET Rules /\ edits \in 0..MaxEdits

-----------------------------------------------------------------------------
(* Graphs *)

(* b can be reached from a: every set that holds a and is closed under the  *)
(* edges holds b.                                                           *)
Reaches(edges, a, b) ==
    LET nodes == {a, b} \cup UNION {{e[1], e[2]} : e \in edges}
    IN  \A S \in SUBSET nodes :
            a \in S /\ (\A e \in edges : e[1] \in S => e[2] \in S) => b \in S

Acyclic(edges) == \A e \in edges : ~Reaches(edges, e[2], e[1])

Stored == {r \in Rules : rules[r].state # "absent"}
Routes == {<<rules[r].src, rules[r].tgt>> : r \in {q \in Stored : rules[q].state # "archived"}}

PhysicalTarget(r) == rules[r].tgt[2]
PhysicalRoutes(R) == {<<rules[r].src[2], rules[r].tgt[2]>> : r \in R}

-----------------------------------------------------------------------------
(* checkSyncTargetEligibility *)

Usable(c) == calendars[c] = "enabled" /\ status[c[1]] = "connected"

\* Faulty: a paused rule is taken for one that owns nothing.
EnabledOnly(r) ==
    {s \in Stored \ {r} : \/ rules[s].state = "enabled"
                          \/ r \notin Cached /\ s \in Cached}

(* The other rules that may own copies or soon will. *)
Relevant(r) ==
    {s \in Stored \ {r} : \/ rules[s].state = "enabled" \/ s \in mapped
                          \/ r \notin Cached /\ s \in Cached}

CheckSyncTargetEligibility(r) ==
    LET routed == {r} \cup Relevant(r) IN
    /\ r \in Cached => /\ Usable(rules[r].src) /\ Usable(rules[r].tgt)
                       /\ rules[r].src[2] # PhysicalTarget(r)
    /\ \A s \in Relevant(r) :
          {r, s} \cap Cached # {} => PhysicalTarget(s) # PhysicalTarget(r)
    /\ routed \cap Cached # {} => Acyclic(PhysicalRoutes(routed))

-----------------------------------------------------------------------------
Init ==
    /\ status = [c \in Connections |-> "connected"]
    /\ calendars = [c \in Rows |-> "enabled"]
    /\ rules = [r \in Rules |-> NoRule]
    /\ preview = [r \in Cached |-> NoPreview]
    /\ tx = [s \in Sessions |-> NoTx]
    /\ run = NoRun /\ mapped = {} /\ owners = {} /\ edits = 0

(* Connections and calendars *)

UpdateConnectionVerification(c) ==
    /\ status[c] # "deleted" /\ edits < MaxEdits /\ edits' = edits + 1
    /\ \E outcome \in {"connected", "error"} \ {status[c]} : status' = [status EXCEPT ![c] = outcome]
    /\ UNCHANGED <<calendars, rules, preview, tx, run, mapped, owners>>

(* Archived rules count as references too; a rule inserted meanwhile makes  *)
(* the deletion of its calendars fail.                                      *)
DeleteConnection(c) ==
    /\ status[c] # "deleted"
    /\ \A r \in Stored : c \notin {rules[r].src[1], rules[r].tgt[1]}
    /\ status' = [status EXCEPT ![c] = "deleted"]
    /\ calendars' = [k \in Rows |-> IF k[1] = c THEN "absent" ELSE calendars[k]]
    /\ UNCHANGED <<rules, preview, tx, run, mapped, owners, edits>>

SetCalendarEnabled(c) ==
    /\ edits < MaxEdits /\ edits' = edits + 1
    /\ \E choice \in {"enabled", "disabled"} \ {calendars[c]} :
          calendars[c] # "absent" /\ calendars' = [calendars EXCEPT ![c] = choice]
    /\ UNCHANGED <<status, rules, preview, tx, run, mapped, owners>>

-----------------------------------------------------------------------------
(* Transactions on the rule graph: what they read, then what they write.    *)
(* One statement may read before another process's commit and write after   *)
(* it.                                                                      *)

\* Faulty: no lock, each transaction on its own.
Unlocked(s) == tx[s] = NoTx

(* lockRuleGraph: an advisory lock (PostgreSQL), the only writer (SQLite). *)
GraphIsFree(s) == \A other \in Sessions : tx[other] = NoTx

Edits(s, op, r, row) ==
    /\ tx' = [tx EXCEPT ![s] = [op |-> op, rule |-> r, row |-> row]]
    /\ UNCHANGED <<status, calendars, rules, preview, run, mapped, owners, edits>>

EndTx(s) == tx' = [tx EXCEPT ![s] = NoTx]

(* CreateRule up to validateRuleRoute. *)
ValidateRuleRoute(s, r, src, tgt) ==
    /\ GraphIsFree(s) /\ rules[r] = NoRule
    /\ src # tgt /\ calendars[src] = "enabled" /\ calendars[tgt] = "enabled"
    /\ ~Reaches(Routes \cup {<<src, tgt>>}, tgt, src)
    /\ Edits(s, "create", r, [state |-> "paused", src |-> src, tgt |-> tgt])

\* Faulty: a schema without the foreign keys.
Unreferenced(c) == TRUE

(* The foreign keys of sync_rules. *)
Referenced(c) == calendars[c] # "absent"

CreateRule(s) ==
    LET r == tx[s].rule IN
    /\ tx[s].op = "create"
    /\ rules[r] = NoRule /\ Referenced(tx[s].row.src) /\ Referenced(tx[s].row.tgt)
    /\ rules' = [rules EXCEPT ![r] = tx[s].row]
    /\ EndTx(s)
    /\ UNCHANGED <<status, calendars, preview, run, mapped, owners, edits>>

(* A trigger raises config_version with every change of state, so that an   *)
(* earlier preview is no longer of this version.                            *)
Outdated(r) ==
    [q \in Cached |-> [preview[q] EXCEPT !.version = @ /\ q # r]]

SetState(r, state) ==
    /\ rules' = [rules EXCEPT ![r].state = state]
    /\ preview' = Outdated(r)

(* SetRuleState reads its conditions ... *)
SetRuleStateReads(s, r) ==
    /\ GraphIsFree(s) /\ r \notin Cached /\ rules[r].state = "paused" /\ run = NoRun
    /\ calendars[rules[r].src] = "enabled" /\ calendars[rules[r].tgt] = "enabled"
    /\ Edits(s, "enable", r, rules[r])

(* ... and so does EnableCachedRuleIfReady. *)
EnableCachedRuleIfReady(s, r) ==
    /\ GraphIsFree(s) /\ r \in Cached /\ rules[r].state = "paused" /\ run = NoRun
    /\ preview[r].version /\ preview[r].revision /\ CheckSyncTargetEligibility(r)
    /\ Edits(s, "enable", r, rules[r])

CommitEnable(s) ==
    /\ tx[s].op = "enable"
    /\ SetState(tx[s].rule, "enabled") /\ EndTx(s)
    /\ UNCHANGED <<status, calendars, run, mapped, owners, edits>>

(* Conflict, foreign key, cancelled request. *)
Rollback(s) ==
    /\ tx[s] # NoTx /\ EndTx(s)
    /\ UNCHANGED <<status, calendars, rules, preview, run, mapped, owners, edits>>

(* An enabling transaction keeps the rule row locked until it ends. *)
RowIsFree(r) == \A s \in Sessions : tx[s].op = "enable" => tx[s].rule # r

RequestRulePause(r) ==
    /\ rules[r].state = "enabled" /\ RowIsFree(r) /\ SetState(r, "paused")
    /\ UNCHANGED <<status, calendars, tx, run, mapped, owners, edits>>

ArchiveRule(s, r) ==
    /\ GraphIsFree(s) /\ rules[r].state = "paused" /\ run = NoRun /\ SetState(r, "archived")
    /\ UNCHANGED <<status, calendars, tx, run, mapped, owners, edits>>

-----------------------------------------------------------------------------
(* The preview of a cached rule *)

(* The worker reads the version before and after PreviewCacheCopy and drops *)
(* a preview between two different ones, so one step stands for both.       *)
PreviewCacheCopy(r) ==
    /\ r \in Cached /\ rules[r].state = "paused" /\ Usable(rules[r].src)
    /\ preview' = [preview EXCEPT ![r] = [version |-> TRUE, revision |-> TRUE]]
    /\ UNCHANGED <<status, calendars, rules, tx, run, mapped, owners, edits>>

\* Faulty: the snapshot may be replaced while the rule is being enabled.
Unguarded(c) == TRUE

(* An enabling transaction holds the projection guard of its source. *)
GuardIsFree(c) == \A s \in Sessions :
    tx[s].op = "enable" /\ tx[s].rule \in Cached => rules[tx[s].rule].src # c

(* A new snapshot of a source, or a preview that expires. *)
PublishSourceProjection(c) ==
    /\ GuardIsFree(c)
    /\ preview' = [r \in Cached |-> IF rules[r].src = c
                                    THEN [preview[r] EXCEPT !.revision = FALSE] ELSE preview[r]]
    /\ UNCHANGED <<status, calendars, rules, tx, run, mapped, owners, edits>>

-----------------------------------------------------------------------------
(* One run: the worker reserves, and the fence is asked before the intent,  *)
(* here together with writing it, and once more before the call.            *)

BeginExclusiveDispatch(r) ==
    /\ run = NoRun /\ rules[r].state = "enabled"
    /\ run' = [rule |-> r, step |-> "reserved", called |-> FALSE]
    /\ UNCHANGED <<status, calendars, rules, preview, tx, mapped, owners, edits>>

Advances(from, to) ==
    /\ run.step = from
    /\ run' = [run EXCEPT !.step = to, !.called = @ \/ to = "called"]
    /\ UNCHANGED <<status, calendars, rules, preview, tx, edits>>

CheckProviderDispatch ==
    /\ run # NoRun
    /\ rules[run.rule].state = "enabled" /\ CheckSyncTargetEligibility(run.rule)

BeginMappingMutation ==
    /\ CheckProviderDispatch
    /\ Advances("reserved", "intent") /\ mapped' = mapped \cup {run.rule} /\ UNCHANGED owners

PassDispatchFence ==
    /\ CheckProviderDispatch
    /\ calendars[rules[run.rule].src] = "enabled" /\ calendars[rules[run.rule].tgt] = "enabled"
    /\ Advances("intent", "ready") /\ UNCHANGED <<mapped, owners>>

(* The call writes a copy, or removes the last one. *)
CallProvider ==
    /\ Advances("ready", "called") /\ UNCHANGED mapped
    /\ owners' \in {owners \cup {run.rule}, owners \ {run.rule}}

CompleteMappingMutation ==
    /\ Advances("called", "reserved") /\ UNCHANGED owners
    /\ mapped' = IF run.rule \in owners THEN mapped ELSE mapped \ {run.rule}

(* Released after success or when nothing was called; parked otherwise. *)
ReleaseExclusive ==
    /\ run.step = "reserved" \/ (run.step = "intent" /\ ~run.called)
    /\ run' = NoRun
    /\ UNCHANGED <<status, calendars, rules, preview, tx, mapped, owners, edits>>

-----------------------------------------------------------------------------
Next ==
    \/ \E c \in Connections : UpdateConnectionVerification(c) \/ DeleteConnection(c)
    \/ \E c \in Rows : SetCalendarEnabled(c) \/ PublishSourceProjection(c)
    \/ \E s \in Sessions :
          \/ \E r \in Rules, src, tgt \in Rows : ValidateRuleRoute(s, r, src, tgt)
          \/ CreateRule(s)
          \/ \E r \in Rules : SetRuleStateReads(s, r) \/ EnableCachedRuleIfReady(s, r) \/ ArchiveRule(s, r)
          \/ CommitEnable(s) \/ Rollback(s)
    \/ \E r \in Rules : RequestRulePause(r) \/ PreviewCacheCopy(r) \/ BeginExclusiveDispatch(r)
    \/ BeginMappingMutation \/ PassDispatchFence \/ CallProvider
    \/ CompleteMappingMutation \/ ReleaseExclusive

Spec == Init /\ [][Next]_vars

-----------------------------------------------------------------------------
(* Properties *)

(* However creations interleave, the rules that are not archived never     *)
(* form a cycle over calendar rows (CreateRule, lockRuleGraph).            *)
RoutesAreAcyclic == Acyclic(Routes)

(* Two rules never both have copies in one physical calendar when one of   *)
(* them is a cached rule, and copies made beside a cached rule never flow  *)
(* in a circle, through whatever connections the calendars are reached and *)
(* whatever rules are paused, enabled or archived during a run             *)
(* (checkSyncTargetEligibility and the global reservation).                *)
CachedTargetsAreExclusive ==
    owners \cap Cached # {} =>
        /\ \A r \in owners \cap Cached : \A s \in owners \ {r} :
              PhysicalTarget(r) # PhysicalTarget(s)
        /\ Acyclic(PhysicalRoutes(owners))

(* A cached rule is enabled only on a preview of its present configuration *)
(* and of the snapshot that is served at that moment; in particular a      *)
(* preview does not outlive a pause (EnableCachedRuleIfReady).             *)
EnabledOnPreview ==
    [][\A r \in Cached : rules[r].state # "enabled" /\ rules'[r].state = "enabled" =>
          preview[r].version /\ preview[r].revision]_vars

(* No rule is left without its calendars, however a deletion of a          *)
(* connection races the creation of a rule (DeleteConnection, CreateRule). *)
RulesHaveCalendars ==
    \A r \in Stored : calendars[rules[r].src] # "absent" /\ calendars[rules[r].tgt] # "absent"
=============================================================================
