-------------------------- MODULE RuleRoutes_proofs --------------------------
(***************************************************************************)
(* Proofs about the graph of sync rules, for any connections, calendars,   *)
(* rules and sessions: rules keep their calendars, never form a cycle, are *)
(* enabled on a valid preview only, and cached rules own their targets     *)
(* alone.                                                                  *)
(***************************************************************************)
EXTENDS RuleRoutes, TLAPS

-----------------------------------------------------------------------------
(* Reachability.                                                           *)

Closed(edges, S) == \A e \in edges : e[1] \in S => e[2] \in S

(* Any closed set that holds a and not b, of whatever elements, shows that *)
(* b cannot be reached.                                                    *)
LEMMA Separated ==
    ASSUME NEW edges, NEW a, NEW b, NEW S, Closed(edges, S), a \in S, b \notin S
    PROVE  ~Reaches(edges, a, b)
<1> DEFINE nodes == {a, b} \cup UNION {{e[1], e[2]} : e \in edges}
           T == S \cap nodes
<1>1. T \in SUBSET nodes /\ a \in T /\ b \notin T
  OBVIOUS
<1>2. \A e \in edges : e[1] \in nodes /\ e[2] \in nodes
  OBVIOUS
<1>3. \A e \in edges : e[1] \in T => e[2] \in T
  BY <1>2 DEF Closed
<1> HIDE DEF T
<1> QED BY <1>1, <1>3 DEF Reaches

(* What cannot be reached is separated by a closed set.                    *)
LEMMA Separation ==
    ASSUME NEW edges, NEW a, NEW b, ~Reaches(edges, a, b)
    PROVE  \E S : Closed(edges, S) /\ a \in S /\ b \notin S
BY DEF Reaches, Closed

(* Fewer edges reach less.                                                 *)
LEMMA AcyclicSubset ==
    ASSUME NEW edges, Acyclic(edges), NEW fewer \in SUBSET edges
    PROVE  Acyclic(fewer)
<1> SUFFICES ASSUME NEW e \in fewer PROVE ~Reaches(fewer, e[2], e[1])
  BY DEF Acyclic
<1>1. PICK S : Closed(edges, S) /\ e[2] \in S /\ e[1] \notin S
  BY Separation DEF Acyclic
<1>2. Closed(fewer, S)
  BY <1>1 DEF Closed
<1> QED BY <1>1, <1>2, Separated

(* The check of validateRuleRoute is enough: an edge that closes no cycle  *)
(* itself makes no other edge part of one.                                 *)
LEMMA AcyclicEdge ==
    ASSUME NEW edges, Acyclic(edges), NEW a, NEW b, ~Reaches(edges \cup {<<a, b>>}, b, a)
    PROVE  Acyclic(edges \cup {<<a, b>>})
<1> DEFINE more == edges \cup {<<a, b>>}
<1> SUFFICES ASSUME NEW e \in more PROVE ~Reaches(more, e[2], e[1])
  BY DEF Acyclic
<1>1. PICK T : Closed(more, T) /\ b \in T /\ a \notin T
  BY Separation
<1>2. CASE e = <<a, b>>
  BY <1>2
<1>3. CASE e \in edges
  <2>1. PICK S : Closed(edges, S) /\ e[2] \in S /\ e[1] \notin S
    BY <1>3, Separation DEF Acyclic
  \* An edge inside T stays inside it, where a is not.
  <2>2. CASE e[1] \in T
    <3>1. Closed(more, S \cap T) /\ e[2] \in S \cap T /\ e[1] \notin S \cap T
      BY <1>1, <2>1, <2>2 DEF Closed
    <3> QED BY <3>1, Separated
  <2>3. CASE e[1] \notin T
    <3>1. Closed(more, S \cup T) /\ e[2] \in S \cup T /\ e[1] \notin S \cup T
      BY <1>1, <2>1, <2>3 DEF Closed
    <3> QED BY <3>1, Separated
  <2> QED BY <2>2, <2>3
<1> QED BY <1>2, <1>3

-----------------------------------------------------------------------------
(* The inductive invariant.                                                *)

Typed ==
    /\ calendars \in [Rows -> {"absent", "enabled", "disabled"}]
    /\ rules \in [Rules -> RuleRow]
    /\ preview \in [Cached -> [version : BOOLEAN, revision : BOOLEAN]]
    /\ tx \in [Sessions -> [op : {"none", "create", "enable"}, rule : Rules \cup {None}, row : RuleRow]]
    /\ run \in [rule : Rules \cup {None}, step : Steps, called : BOOLEAN]

(* A rule that was ever created has two calendars.                         *)
RulesAreRoutes ==
    \A r \in Rules : IF r \in Stored THEN rules[r].src \in Rows /\ rules[r].tgt \in Rows
                     ELSE rules[r] = NoRule

(* One transaction at a time is on the rule graph, and what it read is     *)
(* still so when it writes.                                                *)
OneTransaction == \A s, t \in Sessions : tx[s] # NoTx /\ tx[t] # NoTx => s = t
CreationIsChecked(s) ==
    tx[s].op = "create" =>
        LET row == tx[s].row
        IN  /\ tx[s].rule \in Rules /\ row.state = "paused" /\ row.src \in Rows /\ row.tgt \in Rows
            /\ ~Reaches(Routes \cup {<<row.src, row.tgt>>}, row.tgt, row.src)
EnablingIsChecked(s) ==
    tx[s].op = "enable" =>
        LET r == tx[s].rule
        IN  /\ r \in Rules /\ rules[r].state = "paused"
            /\ r \in Cached => preview[r].version /\ preview[r].revision
TransactionsAreChecked == \A s \in Sessions : CreationIsChecked(s) /\ EnablingIsChecked(s)

(* Only stored rules are run; whoever owns copies, or is about to make     *)
(* one, is mapped.                                                         *)
RunsAreStored ==
    /\ run.step # "none" => run.rule \in Stored
    /\ run.step = "intent" => run.rule \in mapped
    /\ owners \subseteq mapped /\ mapped \subseteq Stored

(* Physical targets that a cached rule shares with nobody, no circle.      *)
Exclusive(R) ==
    /\ \A r, s \in R : r # s /\ {r, s} \cap Cached # {} => PhysicalTarget(r) # PhysicalTarget(s)
    /\ R \cap Cached # {} => Acyclic(PhysicalRoutes(R))

(* What the last check of a run found holds when the call goes out.        *)
CallsAreExclusive == run.step = "ready" => run.rule \in mapped /\ Exclusive(owners \cup {run.rule})

IInv ==
    /\ Typed
    /\ RulesAreRoutes
    /\ RulesHaveCalendars
    /\ RoutesAreAcyclic
    /\ OneTransaction
    /\ TransactionsAreChecked
    /\ RunsAreStored
    /\ Exclusive(owners)
    /\ CallsAreExclusive

(* The rows of no rule, no transaction and no run.                         *)
LEMMA NoneTyped == NoRule \in RuleRow /\ NoTx.op = "none" /\ NoTx.row = NoRule /\ NoRun.step = "none"
BY DEF NoRule, RuleRow, NoTx, NoRun

(* The initial state.                                                      *)
LEMMA InitInv == Init => IInv
<1> SUFFICES ASSUME Init PROVE IInv
  OBVIOUS
<1> USE DEF Init
<1>1. Stored = {} /\ Routes = {}
  BY DEF Stored, Routes, NoRule
<1>2. Typed
  BY NoneTyped DEF Typed, NoPreview, NoTx, NoRun, Steps
<1>3. RulesAreRoutes /\ RulesHaveCalendars /\ RoutesAreAcyclic
  BY <1>1 DEF RulesAreRoutes, RulesHaveCalendars, RoutesAreAcyclic, Acyclic
<1>4. OneTransaction /\ TransactionsAreChecked
  BY NoneTyped DEF OneTransaction, TransactionsAreChecked, CreationIsChecked, EnablingIsChecked
<1>5. RunsAreStored /\ CallsAreExclusive /\ Exclusive(owners)
  BY NoneTyped DEF RunsAreStored, CallsAreExclusive, Exclusive
<1> QED BY <1>2, <1>3, <1>4, <1>5 DEF IInv

-----------------------------------------------------------------------------
(* Steps that leave the rules alone.                                       *)

(* While rules, calendars and transactions stay, only what a run may do    *)
(* has to be looked at.                                                    *)
LEMMA RunFrame ==
    ASSUME IInv, UNCHANGED <<calendars, rules, preview, tx>>,
           run' \in [rule : Rules \cup {None}, step : Steps, called : BOOLEAN],
           RunsAreStored', Exclusive(owners)', CallsAreExclusive'
    PROVE  IInv'
<1>1. Stored' = Stored /\ Routes' = Routes
  BY DEF Stored, Routes
<1>2. Typed' /\ RulesAreRoutes' /\ RulesHaveCalendars' /\ RoutesAreAcyclic'
  BY <1>1 DEF IInv, Typed, RulesAreRoutes, RulesHaveCalendars, RoutesAreAcyclic
<1>3. OneTransaction' /\ TransactionsAreChecked'
  BY <1>1 DEF IInv, OneTransaction, TransactionsAreChecked, CreationIsChecked, EnablingIsChecked
<1> QED BY <1>2, <1>3 DEF IInv

(* While rules and runs stay, only calendars and transactions have.        *)
LEMMA RuleFrame ==
    ASSUME IInv, UNCHANGED <<rules, run, mapped, owners>>,
           Typed', RulesHaveCalendars', OneTransaction', TransactionsAreChecked'
    PROVE  IInv'
<1>1. Stored' = Stored /\ Routes' = Routes
  BY DEF Stored, Routes
<1>2. RulesAreRoutes' /\ RoutesAreAcyclic' /\ RunsAreStored'
  BY <1>1 DEF IInv, RulesAreRoutes, RoutesAreAcyclic, RunsAreStored
<1>3. Exclusive(owners)' /\ CallsAreExclusive'
  BY DEF IInv, Exclusive, CallsAreExclusive, PhysicalTarget, PhysicalRoutes
<1> QED BY <1>2, <1>3 DEF IInv

(* Connections and calendars: a connection with rules is not deleted.      *)
LEMMA CalendarsInv ==
    ASSUME IInv,
           \/ \E c \in Connections : UpdateConnectionVerification(c) \/ DeleteConnection(c)
           \/ \E c \in Rows : SetCalendarEnabled(c)
    PROVE  IInv'
<1>1. UNCHANGED <<rules, preview, tx, run, mapped, owners>>
  BY DEF UpdateConnectionVerification, DeleteConnection, SetCalendarEnabled
<1>2. Stored' = Stored
  BY <1>1 DEF Stored
<1>3. OneTransaction' /\ TransactionsAreChecked'
  BY <1>1, <1>2 DEF IInv, OneTransaction, TransactionsAreChecked, CreationIsChecked, EnablingIsChecked, Routes
<1> DEFINE Kept == /\ calendars' \in [Rows -> {"absent", "enabled", "disabled"}]
                   /\ \A r \in Stored : calendars'[rules[r].src] # "absent" /\ calendars'[rules[r].tgt] # "absent"
<1>4. Kept
  <2>0. /\ calendars \in [Rows -> {"absent", "enabled", "disabled"}]
        /\ \A r \in Stored : /\ rules[r].src \in Rows /\ rules[r].tgt \in Rows
                             /\ calendars[rules[r].src] # "absent" /\ calendars[rules[r].tgt] # "absent"
    BY DEF IInv, Typed, RulesHaveCalendars, RulesAreRoutes, Stored
  <2>1. ASSUME NEW c \in Connections, UpdateConnectionVerification(c) PROVE Kept
    BY <2>0, <2>1 DEF UpdateConnectionVerification
  <2>2. ASSUME NEW c \in Connections, DeleteConnection(c) PROVE Kept
    <3>1. \A r \in Stored : rules[r].src[1] # c /\ rules[r].tgt[1] # c
      BY <2>2 DEF DeleteConnection
    <3> QED BY <2>0, <2>2, <3>1 DEF DeleteConnection
  <2>3. ASSUME NEW c \in Rows, SetCalendarEnabled(c) PROVE Kept
    BY <2>0, <2>3 DEF SetCalendarEnabled
  <2> QED BY <2>1, <2>2, <2>3
<1> QED BY <1>1, <1>2, <1>3, <1>4, RuleFrame DEF IInv, Typed, RulesHaveCalendars

(* A preview is made for a rule nobody is enabling, or of one being        *)
(* enabled; it is not replaced while its rule is.                          *)
LEMMA PreviewInv ==
    ASSUME IInv, \/ \E c \in Rows : PublishSourceProjection(c)
                 \/ \E r \in Rules : PreviewCacheCopy(r)
    PROVE  IInv'
<1>1. UNCHANGED <<calendars, rules, tx, run, mapped, owners>>
  BY DEF PublishSourceProjection, PreviewCacheCopy
<1>2. preview \in [Cached -> [version : BOOLEAN, revision : BOOLEAN]] /\ Stored' = Stored /\ Routes' = Routes
  BY <1>1 DEF IInv, Typed, Stored, Routes
<1> DEFINE Kept == /\ preview' \in [Cached -> [version : BOOLEAN, revision : BOOLEAN]]
                   /\ \A s \in Sessions : tx[s].op = "enable" /\ tx[s].rule \in Cached =>
                         preview'[tx[s].rule].version /\ preview'[tx[s].rule].revision
<1>3. Kept
  <2>1. ASSUME NEW c \in Rows, PublishSourceProjection(c) PROVE Kept
    BY <1>2, <2>1 DEF PublishSourceProjection, GuardIsFree, IInv, TransactionsAreChecked, EnablingIsChecked
  <2>2. ASSUME NEW r \in Rules, PreviewCacheCopy(r) PROVE Kept
    BY <1>2, <2>2 DEF PreviewCacheCopy, IInv, TransactionsAreChecked, EnablingIsChecked
  <2> QED BY <2>1, <2>2
<1>4. Typed' /\ RulesHaveCalendars' /\ OneTransaction'
  BY <1>1, <1>2, <1>3 DEF IInv, Typed, RulesHaveCalendars, OneTransaction
<1>5. TransactionsAreChecked'
  BY <1>1, <1>2, <1>3 DEF IInv, TransactionsAreChecked, CreationIsChecked, EnablingIsChecked
<1> QED BY <1>1, <1>4, <1>5, RuleFrame

(* The beginning and the abandoning of a transaction on the rule graph.    *)
LEMMA BeginTxInv ==
    ASSUME IInv, NEW s \in Sessions,
           \/ \E r \in Rules, src, tgt \in Rows : ValidateRuleRoute(s, r, src, tgt)
           \/ \E r \in Rules : SetRuleStateReads(s, r) \/ EnableCachedRuleIfReady(s, r)
           \/ Rollback(s)
    PROVE  IInv'
<1>0. tx \in [Sessions -> [op : {"none", "create", "enable"}, rule : Rules \cup {None}, row : RuleRow]]
  BY DEF IInv, Typed
<1>1. UNCHANGED <<calendars, rules, preview, run, mapped, owners>> /\ Stored' = Stored /\ Routes' = Routes
  BY DEF ValidateRuleRoute, SetRuleStateReads, EnableCachedRuleIfReady, Rollback, Edits, Stored, Routes
<1>2. ASSUME NEW new \in [op : {"none", "create", "enable"}, rule : Rules \cup {None}, row : RuleRow],
             tx' = [tx EXCEPT ![s] = new], new = NoTx \/ GraphIsFree(s),
             new.op = "create" =>
                /\ new.rule \in Rules /\ new.row.state = "paused" /\ new.row.src \in Rows /\ new.row.tgt \in Rows
                /\ ~Reaches(Routes \cup {<<new.row.src, new.row.tgt>>}, new.row.tgt, new.row.src),
             new.op = "enable" =>
                /\ new.rule \in Rules /\ rules[new.rule].state = "paused"
                /\ new.rule \in Cached => preview[new.rule].version /\ preview[new.rule].revision
      PROVE  IInv'
  <2>1. tx'[s] = new /\ \A t \in Sessions \ {s} : tx'[t] = tx[t]
    BY <1>0, <1>2
  <2>2. Typed' /\ RulesHaveCalendars'
    BY <1>0, <1>1, <1>2 DEF IInv, Typed, RulesHaveCalendars
  <2>3. OneTransaction'
    BY <1>2, <2>1 DEF IInv, OneTransaction, GraphIsFree
  <2>4. TransactionsAreChecked'
    BY <1>1, <1>2, <2>1 DEF IInv, TransactionsAreChecked, CreationIsChecked, EnablingIsChecked
  <2> QED BY <1>1, <2>2, <2>3, <2>4, RuleFrame
<1>3. ASSUME NEW r \in Rules, NEW src \in Rows, NEW tgt \in Rows, ValidateRuleRoute(s, r, src, tgt) PROVE IInv'
  <2> DEFINE new == [op |-> "create", rule |-> r, row |-> [state |-> "paused", src |-> src, tgt |-> tgt]]
  <2>1. new \in [op : {"none", "create", "enable"}, rule : Rules \cup {None}, row : RuleRow]
    BY DEF RuleRow
  <2>2. tx' = [tx EXCEPT ![s] = new] /\ GraphIsFree(s) /\ ~Reaches(Routes \cup {<<src, tgt>>}, tgt, src)
    BY <1>3 DEF ValidateRuleRoute, Edits
  <2> QED BY <1>2, <2>1, <2>2
<1>4. ASSUME NEW r \in Rules, SetRuleStateReads(s, r) \/ EnableCachedRuleIfReady(s, r) PROVE IInv'
  <2> DEFINE new == [op |-> "enable", rule |-> r, row |-> rules[r]]
  <2>1. new \in [op : {"none", "create", "enable"}, rule : Rules \cup {None}, row : RuleRow]
    BY DEF IInv, Typed
  <2>2. /\ tx' = [tx EXCEPT ![s] = new] /\ GraphIsFree(s) /\ rules[r].state = "paused"
        /\ r \in Cached => preview[r].version /\ preview[r].revision
    BY <1>4 DEF SetRuleStateReads, EnableCachedRuleIfReady, Edits
  <2> QED BY <1>2, <2>1, <2>2
<1>5. CASE Rollback(s)
  <2>1. tx' = [tx EXCEPT ![s] = NoTx] /\ NoTx \in [op : {"none", "create", "enable"}, rule : Rules \cup {None}, row : RuleRow]
    BY <1>5, NoneTyped DEF Rollback, EndTx, NoTx
  <2> QED BY <1>2, <2>1, NoneTyped
<1> QED BY <1>3, <1>4, <1>5

-----------------------------------------------------------------------------
(* Steps that write a rule.                                                *)

(* Exclusiveness is about the calendars of rules, not about their states.  *)
LEMMA ExclusiveFrame ==
    ASSUME NEW R, Exclusive(R),
           \A r \in R : rules'[r].src = rules[r].src /\ rules'[r].tgt = rules[r].tgt
    PROVE  Exclusive(R)'
<1>1. \A r \in R : PhysicalTarget(r)' = PhysicalTarget(r)
  BY DEF PhysicalTarget
<1>2. PhysicalRoutes(R)' = PhysicalRoutes(R)
  BY DEF PhysicalRoutes
<1> QED BY <1>1, <1>2 DEF Exclusive

(* Steps that leave the routes and their owners alone.                     *)
LEMMA RoutesFrame ==
    ASSUME IInv, UNCHANGED <<run, mapped, owners>>,
           \A r \in Stored : rules'[r].src = rules[r].src /\ rules'[r].tgt = rules[r].tgt
    PROVE  Exclusive(owners)' /\ CallsAreExclusive'
<1>1. PICK R : R = owners /\ R = owners'
  OBVIOUS
<1>2. PICK Q : Q = owners \cup {run.rule} /\ Q = owners' \cup {run'.rule}
  OBVIOUS
<1>3. R \subseteq Stored /\ (run.step = "ready" => Q \subseteq Stored)
  BY <1>1, <1>2 DEF IInv, RunsAreStored
<1>4. Exclusive(R)'
  BY <1>1, <1>3, ExclusiveFrame DEF IInv
<1>5. run.step = "ready" => Exclusive(Q)'
  BY <1>2, <1>3, ExclusiveFrame DEF IInv, CallsAreExclusive
<1> QED BY <1>1, <1>2, <1>4, <1>5 DEF CallsAreExclusive, IInv

(* The rule whose creation was checked is stored.                          *)
LEMMA CreateRuleInv ==
    ASSUME IInv, NEW s \in Sessions, CreateRule(s)
    PROVE  IInv'
<1> DEFINE r == tx[s].rule
           row == tx[s].row
<1>1. /\ tx[s].op = "create" /\ rules[r] = NoRule /\ rules' = [rules EXCEPT ![r] = row]
      /\ Referenced(row.src) /\ Referenced(row.tgt) /\ tx' = [tx EXCEPT ![s] = NoTx]
      /\ UNCHANGED <<calendars, preview, run, mapped, owners>>
  BY DEF CreateRule, EndTx
<1>2. /\ r \in Rules /\ row.state = "paused" /\ row.src \in Rows /\ row.tgt \in Rows /\ row \in RuleRow
      /\ ~Reaches(Routes \cup {<<row.src, row.tgt>>}, row.tgt, row.src)
  BY <1>1 DEF IInv, Typed, TransactionsAreChecked, CreationIsChecked
<1> HIDE DEF row, r
<1>3. rules'[r] = row /\ \A q \in Rules \ {r} : rules'[q] = rules[q]
  BY <1>1, <1>2 DEF IInv, Typed
<1>4. r \notin Stored
  BY <1>1, NoneTyped DEF Stored, NoRule
<1>5. Stored' = Stored \cup {r}
  BY <1>2, <1>3, <1>4 DEF Stored
<1>6. Routes' = Routes \cup {<<row.src, row.tgt>>}
  <2>1. \A q \in Stored : q \in Rules \ {r}
    BY <1>4 DEF Stored
  <2>2. {q \in Stored : rules[q].state # "archived"}' = {q \in Stored : rules[q].state # "archived"} \cup {r}
    BY <1>2, <1>3, <1>5, <2>1
  <2>3. \A q \in {p \in Stored : rules[p].state # "archived"} : rules'[q] = rules[q]
    BY <1>3, <2>1
  <2> QED BY <1>3, <2>2, <2>3 DEF Routes
<1>7. Typed'
  BY <1>1, <1>2, NoneTyped DEF IInv, Typed, NoTx
<1>8. RulesAreRoutes'
  BY <1>2, <1>3, <1>5 DEF IInv, RulesAreRoutes
<1>9. RulesHaveCalendars'
  <2>1. \A q \in Stored : q \in Rules \ {r}
    BY <1>4 DEF Stored
  <2> QED BY <1>1, <1>3, <1>5, <2>1 DEF IInv, RulesHaveCalendars, Referenced
<1>10. RoutesAreAcyclic'
  BY <1>2, <1>6, AcyclicEdge DEF IInv, RoutesAreAcyclic
<1>11. tx'[s] = NoTx /\ \A t \in Sessions : tx'[t] = NoTx
  <2>1. tx[s] # NoTx
    BY <1>1, NoneTyped
  <2> QED BY <1>1, <2>1 DEF IInv, OneTransaction, Typed
<1>12. OneTransaction' /\ TransactionsAreChecked'
  BY <1>11, NoneTyped DEF OneTransaction, TransactionsAreChecked, CreationIsChecked, EnablingIsChecked
<1>13. RunsAreStored'
  BY <1>1, <1>5 DEF IInv, RunsAreStored
<1>14. Exclusive(owners)' /\ CallsAreExclusive'
  <2>1. \A q \in Stored : rules'[q] = rules[q]
    BY <1>3, <1>4 DEF Stored
  <2> QED BY <1>1, <2>1, RoutesFrame
<1> QED BY <1>7, <1>8, <1>9, <1>10, <1>12, <1>13, <1>14 DEF IInv

(* A rule that is not archived changes its state; an archived route is     *)
(* gone, but only while no transaction on the graph is open.               *)
LEMMA SetStateInv ==
    ASSUME IInv, NEW r \in Rules, NEW state \in {"enabled", "paused", "archived"}, SetState(r, state),
           rules[r].state \in {"enabled", "paused"}, UNCHANGED <<calendars, run, mapped, owners>>,
           \A t \in Sessions : tx'[t] \in {tx[t], NoTx}, DOMAIN tx' = Sessions, tx' = [t \in Sessions |-> tx'[t]],
           state = "archived" => \A t \in Sessions : tx[t] = NoTx,
           \A t \in Sessions : tx'[t].op = "enable" => tx[t].rule # r
    PROVE  IInv'
<1>1. rules' = [rules EXCEPT ![r].state = state] /\ preview' = Outdated(r)
  BY DEF SetState
<1>2. /\ rules'[r].state = state /\ rules'[r].src = rules[r].src /\ rules'[r].tgt = rules[r].tgt
      /\ rules' \in [Rules -> RuleRow] /\ \A q \in Rules \ {r} : rules'[q] = rules[q]
  BY <1>1, ZenonT(40) DEF IInv, Typed, RuleRow
<1>3. preview' \in [Cached -> [version : BOOLEAN, revision : BOOLEAN]] /\ \A q \in Cached \ {r} : preview'[q] = preview[q]
  <2> SUFFICES ASSUME NEW q \in Cached
               PROVE  /\ preview'[q] \in [version : BOOLEAN, revision : BOOLEAN]
                      /\ q # r => preview'[q] = preview[q]
    BY <1>1 DEF Outdated
  <2>1. preview'[q] = [preview[q] EXCEPT !.version = @ /\ q # r]
    BY <1>1 DEF Outdated
  <2>2. preview[q] \in [version : BOOLEAN, revision : BOOLEAN]
    BY DEF IInv, Typed
  <2>3. CASE q = r
    BY <2>1, <2>2, <2>3
  <2>4. CASE q # r
    <3>1. preview'[q] = [preview[q] EXCEPT !.version = preview[q].version]
      BY <2>1, <2>2, <2>4
    <3> QED BY <2>2, <2>4, <3>1
  <2> QED BY <2>3, <2>4
<1>4. Typed'
  BY <1>2, <1>3, NoneTyped DEF IInv, Typed, NoTx
<1>5. Stored' = Stored /\ r \in Stored
  BY <1>2 DEF Stored
<1>6. \A q \in Rules : rules'[q].src = rules[q].src /\ rules'[q].tgt = rules[q].tgt
  BY <1>2
<1>7. RulesAreRoutes' /\ RulesHaveCalendars'
  BY <1>2, <1>5, <1>6 DEF IInv, RulesAreRoutes, RulesHaveCalendars, Stored
<1>8. /\ Routes' \subseteq Routes
      /\ state # "archived" => Routes' = Routes
  <2>1. {q \in Stored : rules[q].state # "archived"}' \subseteq {q \in Stored : rules[q].state # "archived"}
    BY <1>2, <1>5 DEF Stored
  <2>2. state # "archived" => {q \in Stored : rules[q].state # "archived"}' = {q \in Stored : rules[q].state # "archived"}
    BY <1>2, <1>5 DEF Stored
  <2>3. \A q \in Stored : q \in Rules
    BY DEF Stored
  <2> QED BY <1>6, <2>1, <2>2, <2>3 DEF Routes
<1>9. RoutesAreAcyclic'
  BY <1>8, AcyclicSubset DEF IInv, RoutesAreAcyclic
<1>10. OneTransaction'
  BY DEF IInv, OneTransaction
<1>11. TransactionsAreChecked'
  <2> SUFFICES ASSUME NEW t \in Sessions PROVE CreationIsChecked(t)' /\ EnablingIsChecked(t)'
    BY DEF TransactionsAreChecked
  <2>1. CASE tx'[t] = NoTx
    BY <2>1, NoneTyped DEF CreationIsChecked, EnablingIsChecked
  <2>2. CASE tx'[t] = tx[t] /\ tx'[t] # NoTx
    <3>1. CreationIsChecked(t) /\ EnablingIsChecked(t)
      BY DEF IInv, TransactionsAreChecked
    <3>2. Routes' = Routes
      BY <1>8, <2>2
    <3>3. tx[t].op = "enable" => tx[t].rule # r
      BY <2>2
    <3>4. EnablingIsChecked(t)'
      BY <1>2, <1>3, <2>2, <3>1, <3>3 DEF EnablingIsChecked
    <3>5. CreationIsChecked(t)'
      BY <2>2, <3>1, <3>2 DEF CreationIsChecked
    <3> QED BY <3>4, <3>5
  <2> QED BY <2>1, <2>2
<1>12. RunsAreStored'
  BY <1>5 DEF IInv, RunsAreStored
<1>13. Exclusive(owners)' /\ CallsAreExclusive'
  BY <1>6, RoutesFrame DEF Stored
<1> QED BY <1>4, <1>7, <1>9, <1>10, <1>11, <1>12, <1>13 DEF IInv

(* Steps that change only what state a rule is in.                         *)
LEMMA StatesInv ==
    ASSUME IInv, \/ \E s \in Sessions : CommitEnable(s) \/ \E r \in Rules : ArchiveRule(s, r)
                 \/ \E r \in Rules : RequestRulePause(r)
    PROVE  IInv'
<1>0. DOMAIN tx = Sessions /\ tx = [t \in Sessions |-> tx[t]]
  BY DEF IInv, Typed
<1>1. ASSUME NEW s \in Sessions, CommitEnable(s) PROVE IInv'
  <2>1. PICK r : r = tx[s].rule /\ tx[s].op = "enable" /\ SetState(r, "enabled") /\ tx' = [tx EXCEPT ![s] = NoTx]
                 /\ UNCHANGED <<calendars, run, mapped, owners>>
    BY <1>1 DEF CommitEnable, EndTx
  <2>2. r \in Rules /\ rules[r].state = "paused"
    BY <2>1 DEF IInv, TransactionsAreChecked, EnablingIsChecked
  <2>3. tx[s] # NoTx
    BY <2>1, NoneTyped
  <2>4. \A t \in Sessions : tx'[t] = NoTx
    BY <1>0, <2>1, <2>3 DEF IInv, OneTransaction
  <2>5. DOMAIN tx' = Sessions /\ tx' = [t \in Sessions |-> tx'[t]]
    BY <1>0, <2>1
  <2> QED BY <2>1, <2>2, <2>4, <2>5, NoneTyped, SetStateInv
<1>2. ASSUME NEW s \in Sessions, NEW r \in Rules, ArchiveRule(s, r) PROVE IInv'
  <2>1. /\ \A t \in Sessions : tx[t] = NoTx /\ tx'[t] = NoTx
        /\ rules[r].state = "paused" /\ SetState(r, "archived")
        /\ UNCHANGED <<calendars, tx, run, mapped, owners>>
    BY <1>2 DEF ArchiveRule, GraphIsFree
  <2> QED BY <1>0, <2>1, NoneTyped, SetStateInv
<1>3. ASSUME NEW r \in Rules, RequestRulePause(r) PROVE IInv'
  BY <1>0, <1>3, SetStateInv DEF RequestRulePause, RowIsFree
<1> QED BY <1>1, <1>2, <1>3

-----------------------------------------------------------------------------
(* A run.                                                                  *)

(* The check before the call covers every rule that owns copies: it is     *)
(* mapped.                                                                 *)
LEMMA CheckedIsExclusive ==
    ASSUME IInv, NEW r \in Stored, CheckSyncTargetEligibility(r)
    PROVE  Exclusive(owners \cup {r})
<1> DEFINE R == owners \cup {r}
           routed == {r} \cup Relevant(r)
<1>1. R \subseteq routed /\ owners \ {r} \subseteq Relevant(r) /\ r \in routed
  BY DEF IInv, RunsAreStored, Relevant
<1>2. \A p, q \in R : p # q /\ {p, q} \cap Cached # {} => PhysicalTarget(p) # PhysicalTarget(q)
  BY <1>1 DEF CheckSyncTargetEligibility, IInv, Exclusive
<1>3. PhysicalRoutes(R) \subseteq PhysicalRoutes(routed)
  BY <1>1 DEF PhysicalRoutes
<1>4. R \cap Cached # {} => Acyclic(PhysicalRoutes(R))
  BY <1>1, <1>3, AcyclicSubset DEF CheckSyncTargetEligibility
<1> QED BY <1>2, <1>4 DEF Exclusive

(* What fewer owners share is exclusive too.                               *)
LEMMA ExclusiveSubset ==
    ASSUME NEW R, Exclusive(R), NEW S \in SUBSET R
    PROVE  Exclusive(S)
<1>1. PhysicalRoutes(S) \subseteq PhysicalRoutes(R)
  BY DEF PhysicalRoutes
<1> QED BY <1>1, AcyclicSubset DEF Exclusive

(* Steps of a copy run.                                                    *)
LEMMA RunInv ==
    ASSUME IInv, \/ \E r \in Rules : BeginExclusiveDispatch(r)
                 \/ BeginMappingMutation \/ PassDispatchFence \/ CallProvider
                 \/ CompleteMappingMutation \/ ReleaseExclusive
    PROVE  IInv'
<1>1. UNCHANGED <<calendars, rules, preview, tx>>
  BY DEF BeginExclusiveDispatch, BeginMappingMutation, PassDispatchFence, CallProvider, CompleteMappingMutation,
         ReleaseExclusive, Advances
<1>2. Stored' = Stored /\ \A R : Exclusive(R) => Exclusive(R)'
  BY <1>1, ExclusiveFrame DEF Stored
<1>3. run \in [rule : Rules \cup {None}, step : Steps, called : BOOLEAN]
  BY DEF IInv, Typed
<1>4. ASSUME run' \in [rule : Rules \cup {None}, step : Steps, called : BOOLEAN],
             run'.step # "none" => run'.rule \in Stored, owners' \subseteq mapped', mapped' \subseteq Stored,
             run'.step = "intent" => run'.rule \in mapped', Exclusive(owners'),
             run'.step = "ready" => run'.rule \in mapped' /\ Exclusive(owners' \cup {run'.rule})
      PROVE  IInv'
  <2>1. PICK now : now = owners'
    OBVIOUS
  <2>2. PICK next : next = owners' \cup {run'.rule}
    OBVIOUS
  <2>3. Exclusive(now)' /\ (run'.step = "ready" => Exclusive(next)')
    BY <1>2, <1>4, <2>1, <2>2
  <2>4. Exclusive(owners)' /\ CallsAreExclusive'
    BY <1>4, <2>1, <2>2, <2>3 DEF CallsAreExclusive
  <2>5. RunsAreStored'
    BY <1>2, <1>4 DEF RunsAreStored
  <2> QED BY <1>1, <1>4, <2>4, <2>5, RunFrame
<1>5. ASSUME NEW r \in Rules, BeginExclusiveDispatch(r) PROVE IInv'
  <2>1. run' = [rule |-> r, step |-> "reserved", called |-> FALSE] /\ r \in Stored /\ UNCHANGED <<mapped, owners>>
    BY <1>5 DEF BeginExclusiveDispatch, Stored
  <2> QED BY <1>4, <2>1 DEF IInv, RunsAreStored, Steps
<1>6. ASSUME NEW from \in Steps, NEW to \in Steps \ {"none"}, Advances(from, to), from # "none"
      PROVE  /\ run' \in [rule : Rules \cup {None}, step : Steps, called : BOOLEAN]
             /\ run'.step = to /\ run'.rule = run.rule /\ run.rule \in Stored /\ run.step = from
  BY <1>3, <1>6 DEF Advances, IInv, RunsAreStored
<1>7. CASE BeginMappingMutation
  <2>1. Advances("reserved", "intent") /\ mapped' = mapped \cup {run.rule} /\ UNCHANGED owners
    BY <1>7 DEF BeginMappingMutation
  <2>2. run' \in [rule : Rules \cup {None}, step : Steps, called : BOOLEAN] /\ run'.step = "intent"
        /\ run'.rule = run.rule /\ run.rule \in Stored
    BY <1>6, <2>1 DEF Steps
  <2> QED BY <1>4, <2>1, <2>2 DEF IInv, RunsAreStored
<1>8. CASE PassDispatchFence
  <2>1. Advances("intent", "ready") /\ CheckSyncTargetEligibility(run.rule) /\ UNCHANGED <<mapped, owners>>
    BY <1>8 DEF PassDispatchFence, CheckProviderDispatch
  <2>2. run' \in [rule : Rules \cup {None}, step : Steps, called : BOOLEAN] /\ run'.step = "ready"
        /\ run'.rule = run.rule /\ run.rule \in Stored /\ run.step = "intent"
    BY <1>6, <2>1 DEF Steps
  <2>3. Exclusive(owners \cup {run.rule})
    BY <2>1, <2>2, CheckedIsExclusive
  <2>4. run'.rule \in mapped'
    BY <2>1, <2>2 DEF IInv, RunsAreStored
  <2> QED BY <1>4, <2>1, <2>2, <2>3, <2>4 DEF IInv, RunsAreStored
<1>9. CASE CallProvider
  <2>1. /\ Advances("ready", "called") /\ UNCHANGED mapped
        /\ owners' \in {owners \cup {run.rule}, owners \ {run.rule}}
    BY <1>9 DEF CallProvider
  <2>2. run' \in [rule : Rules \cup {None}, step : Steps, called : BOOLEAN] /\ run'.step = "called"
        /\ run'.rule \in Stored /\ run.step = "ready"
    BY <1>6, <2>1 DEF Steps
  <2>3. Exclusive(owners \cup {run.rule}) /\ run.rule \in mapped
    BY <2>2 DEF IInv, CallsAreExclusive
  <2>4. PICK now : now = owners' /\ now \subseteq owners \cup {run.rule}
    BY <2>1
  <2>5. Exclusive(now)
    BY <2>3, <2>4, ExclusiveSubset
  <2> QED BY <1>4, <2>1, <2>2, <2>3, <2>4, <2>5 DEF IInv, RunsAreStored
<1>10. CASE CompleteMappingMutation
  <2>1. /\ Advances("called", "reserved") /\ UNCHANGED owners
        /\ mapped' = IF run.rule \in owners THEN mapped ELSE mapped \ {run.rule}
    BY <1>10 DEF CompleteMappingMutation
  <2>2. run' \in [rule : Rules \cup {None}, step : Steps, called : BOOLEAN] /\ run'.step = "reserved" /\ run'.rule \in Stored
    BY <1>6, <2>1 DEF Steps
  <2>3. owners \subseteq mapped' /\ mapped' \subseteq Stored
    BY <2>1 DEF IInv, RunsAreStored
  <2> QED BY <1>4, <2>1, <2>2, <2>3 DEF IInv
<1>11. CASE ReleaseExclusive
  <2>1. run' = NoRun /\ UNCHANGED <<mapped, owners>>
    BY <1>11 DEF ReleaseExclusive
  <2> QED BY <1>4, <2>1 DEF IInv, RunsAreStored, NoRun, Steps
<1> QED BY <1>5, <1>7, <1>8, <1>9, <1>10, <1>11

-----------------------------------------------------------------------------
(* Theorems.                                                               *)

(* Every step keeps the invariant.                                         *)
LEMMA NextInv == IInv /\ [Next]_vars => IInv'
<1> SUFFICES ASSUME IInv, [Next]_vars PROVE IInv'
  OBVIOUS
<1>1. CASE UNCHANGED vars
  <2>1. Stored' = Stored /\ Routes' = Routes /\ Typed' /\ RulesHaveCalendars' /\ OneTransaction'
    BY <1>1 DEF vars, Stored, Routes, IInv, Typed, RulesHaveCalendars, OneTransaction
  <2>2. TransactionsAreChecked'
    BY <1>1, <2>1 DEF vars, IInv, TransactionsAreChecked, CreationIsChecked, EnablingIsChecked
  <2> QED BY <1>1, <2>1, <2>2, RuleFrame DEF vars
<1>2. CASE Next
  BY <1>2, CalendarsInv, PreviewInv, BeginTxInv, CreateRuleInv, StatesInv, RunInv DEF Next
<1> QED BY <1>1, <1>2

(* Every reachable state satisfies it.                                     *)
LEMMA Invariant == Spec => []IInv
BY InitInv, NextInv, PTL DEF Spec

(* A rule never loses its calendars to the deletion of a connection.       *)
THEOREM CalendarsAreKept == Spec => []RulesHaveCalendars
<1>1. IInv => RulesHaveCalendars
  BY DEF IInv
<1> QED BY <1>1, Invariant, PTL

(* The lock on the rule graph and the check of the one new edge keep the   *)
(* routes acyclic, however creations and archivings interleave.            *)
THEOREM NoCycle == Spec => []RoutesAreAcyclic
<1>1. IInv => RoutesAreAcyclic
  BY DEF IInv
<1> QED BY <1>1, Invariant, PTL

(* The eligibility check before each call, with the global reservation,    *)
(* keeps physical targets of cached rules exclusive.                       *)
THEOREM CachedTargetsAreAlone == Spec => []CachedTargetsAreExclusive
<1>1. IInv => CachedTargetsAreExclusive
  BY DEF IInv, Exclusive, CachedTargetsAreExclusive
<1> QED BY <1>1, Invariant, PTL

(* No cached rule is enabled on an outdated preview.                       *)
THEOREM PreviewIsPresent == Spec => EnabledOnPreview
<1>1. IInv /\ [Next]_vars =>
        [\A r \in Cached : rules[r].state # "enabled" /\ rules'[r].state = "enabled" =>
            preview[r].version /\ preview[r].revision]_vars
  <2> SUFFICES ASSUME IInv, Next, NEW r \in Cached, rules[r].state # "enabled", rules'[r].state = "enabled"
               PROVE  preview[r].version /\ preview[r].revision
    OBVIOUS
  <2>0. r \in Rules /\ rules \in [Rules -> RuleRow]
    BY RouteConstants DEF IInv, Typed
  <2>1. rules' # rules
    OBVIOUS
  <2>2. PICK s \in Sessions : \/ CreateRule(s) \/ CommitEnable(s)
                              \/ \E q \in Rules : ArchiveRule(s, q) \/ RequestRulePause(q)
    <3>1. \/ \E s \in Sessions : CreateRule(s) \/ CommitEnable(s) \/ \E q \in Rules : ArchiveRule(s, q)
          \/ \E q \in Rules : RequestRulePause(q)
      BY <2>1 DEF Next, UpdateConnectionVerification, DeleteConnection, SetCalendarEnabled, PublishSourceProjection,
         ValidateRuleRoute, SetRuleStateReads, EnableCachedRuleIfReady, Rollback, Edits, PreviewCacheCopy,
         BeginExclusiveDispatch, BeginMappingMutation, PassDispatchFence, CallProvider, CompleteMappingMutation,
         ReleaseExclusive, Advances
    <3>2. ASSUME NEW q \in Rules, RequestRulePause(q) PROVE FALSE
      BY <2>0, <3>2 DEF RequestRulePause, SetState, RuleRow
    <3> QED BY <3>1, <3>2
  <2>3. ~CreateRule(s) /\ \A q \in Rules : ~ArchiveRule(s, q)
    <3>1. ASSUME CreateRule(s) PROVE FALSE
      <4>1. tx[s].rule \in Rules /\ tx[s].row.state = "paused" /\ rules' = [rules EXCEPT ![tx[s].rule] = tx[s].row]
        BY <3>1 DEF CreateRule, IInv, TransactionsAreChecked, CreationIsChecked
      <4> QED BY <2>0, <4>1
    <3>2. ASSUME NEW q \in Rules, ArchiveRule(s, q) PROVE FALSE
      BY <2>0, <3>2 DEF ArchiveRule, SetState, RuleRow
    <3> QED BY <3>1, <3>2
  <2>4. \A q \in Rules : ~RequestRulePause(q)
    BY <2>0 DEF RequestRulePause, SetState, RuleRow
  <2>5. CommitEnable(s) /\ tx[s].rule = r
    BY <2>0, <2>2, <2>3, <2>4 DEF CommitEnable, SetState
  <2> QED BY <2>5 DEF CommitEnable, IInv, TransactionsAreChecked, EnablingIsChecked
<1> QED BY <1>1, Invariant, PTL DEF Spec, EnabledOnPreview

-----------------------------------------------------------------------------
(* The types of what the invariant leaves open.                            *)
Bounds ==
    /\ status \in [Connections -> {"connected", "error", "deleted"}]
    /\ edits \in 0..MaxEdits

(* Connections, calendars, rules, transactions and the run keep their      *)
(* types, and only stored rules are mapped or own copies.                  *)
THEOREM TypeCorrect == Spec => []TypeOK
<1>1. Init => Bounds
  BY RouteConstants DEF Init, Bounds
<1>2. Bounds /\ [Next]_vars => Bounds'
  <2> SUFFICES ASSUME Bounds, [Next]_vars PROVE Bounds'
    OBVIOUS
  <2>1. CASE UNCHANGED <<status, edits>>
    BY <2>1 DEF Bounds
  <2>2. ASSUME NEW c \in Connections, UpdateConnectionVerification(c)
        PROVE  Bounds'
    BY <2>2, RouteConstants DEF Bounds, UpdateConnectionVerification
  <2>3. ASSUME NEW c \in Connections, DeleteConnection(c)
        PROVE  Bounds'
    BY <2>3 DEF Bounds, DeleteConnection
  <2>4. ASSUME NEW c \in Rows, SetCalendarEnabled(c)
        PROVE  Bounds'
    BY <2>4, RouteConstants DEF Bounds, SetCalendarEnabled
  <2>5. \/ UNCHANGED <<status, edits>>
        \/ \E c \in Connections : UpdateConnectionVerification(c) \/ DeleteConnection(c)
        \/ \E c \in Rows : SetCalendarEnabled(c)
    BY DEF Next, vars, PublishSourceProjection, ValidateRuleRoute, CreateRule, SetRuleStateReads,
       EnableCachedRuleIfReady, ArchiveRule, CommitEnable, Rollback, Edits, RequestRulePause,
       PreviewCacheCopy, BeginExclusiveDispatch, BeginMappingMutation, PassDispatchFence,
       CallProvider, CompleteMappingMutation, ReleaseExclusive, Advances
  <2> QED BY <2>1, <2>2, <2>3, <2>4, <2>5
<1>3. IInv /\ Bounds => TypeOK
  BY DEF IInv, Typed, RunsAreStored, Stored, Bounds, TypeOK
<1> QED BY <1>1, <1>2, <1>3, Invariant, PTL DEF Spec
=============================================================================
