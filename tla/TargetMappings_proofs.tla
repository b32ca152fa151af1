------------------------ MODULE TargetMappings_proofs ------------------------
(***************************************************************************)
(* Proofs about the reconciliation engine, for any events, runs, copies,   *)
(* contents and bounds: what the rows of event_mappings say is true        *)
(* however runs overlap and however late their calls arrive, and the       *)
(* engine implements Mirror.                                               *)
(***************************************************************************)
EXTENDS TargetMappings, TLAPS

-----------------------------------------------------------------------------
(* The inductive invariant.                                                *)

RowStates == {"none", "pending_create", "pending_update", "pending_delete", "current"}
Busy == {"lookup", "waiting", "answered"}

Row == [state : RowStates, inc : Nat, ver : Nat, copy : Copies \cup {None},
        hash : Contents \cup {None}, etag : Nat]
Copy == [event : Events \cup {None}, hash : Contents \cup {Foreign, None}, live : BOOLEAN,
         visible : BOOLEAN, edited : BOOLEAN, etag : Nat]
Call == [run : Runs \cup {None}, kind : {"create", "update", "delete"}, event : Events,
         copy : Copies \cup {None}, hash : Contents \cup {Cancelled}, etag : Nat]
Locals == [pc : {"idle", "listed", "working"} \cup Busy, master : BOOLEAN,
           list : [Events -> Contents \cup {Cancelled, None}], rows : [Events -> Row],
           event : Events \cup {None}, row : Row, own : BOOLEAN]

Typed ==
    /\ cached \in BOOLEAN /\ source \in [Events -> Contents \cup {Cancelled}]
    /\ published \in [Events -> SUBSET (Contents \cup {Cancelled})]
    /\ rows \in [Events -> Row] /\ inserted \in [Events -> Nat]
    /\ copies \in [Copies -> Copy] /\ edits \in Nat
    /\ calls \subseteq Call /\ run \in [Runs -> Locals]

(* A row m of e that a run remembers is not ahead of the stored one.       *)
Past(e, m) ==
    /\ m.inc <= inserted[e]
    /\ rows[e] # NoRow /\ rows[e].inc = m.inc => m.ver <= rows[e].ver

(* Incarnations are numbered by insertions.                                *)
RowsAreNumbered ==
    \A e \in Events :
        /\ rows[e].state = "none" => rows[e] = NoRow
        /\ rows[e] # NoRow => rows[e].inc = inserted[e]

(* An incarnation and a version identify the row a run w remembers.        *)
Remembers(w) ==
    \A e \in Events :
        LET m == w.rows[e]
        IN  /\ m.state = "none" => m = NoRow
            /\ m # NoRow => Past(e, m) /\ (Unchanged(e, m) => rows[e] = m)
RowsAreRemembered == \A r \in Runs : Remembers(run[r])

(* Only what the source published is listed and sent.                      *)
Lists(w) == \A e \in Events : w.list[e] \in published[e] \cup {None}
ListsArePublished ==
    /\ \A e \in Events : source[e] \in published[e]
    /\ \A r \in Runs : Lists(run[r])
    /\ \A c \in calls : c.hash \in published[c.event]

(* What a run w works on.                                                  *)
Works(w) ==
    w.pc \in Busy =>
        /\ w.event \in Events /\ w.list[w.event] # None /\ Past(w.event, w.row)
        /\ w.pc = "lookup" =>
            /\ w.row.state = "pending_create"
            /\ Unchanged(w.event, w.row) => rows[w.event] = w.row
WorkIsKnown == \A r \in Runs : Works(run[r])

(* The calls of an event.                                                  *)
CallsOf(e) == {c \in calls : c.event = e}

(* A run that may still send a create: nothing of its event exists, and    *)
(* nobody else can finish or send anything for the row it wrote.           *)
MaySend(w) == w.pc = "lookup" /\ w.own
MayRecord(w) == w.pc = "answered" /\ Unchanged(w.event, w.row)
Alone(r) ==
    MaySend(run[r]) =>
        LET e == run[r].event
        IN  /\ Unchanged(e, run[r].row) /\ Live(e) = {} /\ CallsOf(e) = {}
            /\ \A s \in Runs \ {r} :
                run[s].event = e => ~MaySend(run[s]) /\ ~MayRecord(run[s])
OwnIntentIsAlone == \A r \in Runs : Alone(r)

(* A live copy has a content and an ETag; there is one of each event.      *)
CopiesAreSingle ==
    /\ \A k \in Copies : copies[k].live =>
        copies[k].event # None /\ copies[k].hash # None /\ copies[k].etag >= 1
    /\ \A k \in Copies : cached /\ copies[k].edited => copies[k].hash = Foreign
    /\ \A k, l \in Copies :
        copies[k].live /\ copies[l].live /\ copies[k].event = copies[l].event => k = l

(* A confirmed ETag of a cached copy is not ahead of the copy, and behind  *)
(* it once the user edited it.                                             *)
Confirmed(k, etag) ==
    cached => /\ etag >= 1 /\ etag <= copies[k].etag
              /\ copies[k].edited => etag < copies[k].etag

(* The copy k of e shows what a row records, or what a user made of it.    *)
Shows(k, e, hash, etag) ==
    /\ k \in Copies /\ copies[k].event = e /\ Confirmed(k, etag)
    /\ \/ copies[k].edited
       \/ copies[k].live /\ copies[k].hash = hash /\ (cached => copies[k].etag = etag)

CurrentRowsShow ==
    \A e \in Events : rows[e].state = "current" =>
        rows[e].hash # None /\ Shows(rows[e].copy, e, rows[e].hash, rows[e].etag)

(* A call on the wire: the run that waits for it, and what it will meet.   *)
Due(c) ==
    /\ c.run # None => /\ run[c.run].pc = "waiting" /\ run[c.run].event = c.event
                       /\ run[c.run].list[c.event] = c.hash
    /\ c.kind = "delete" <=> c.hash = Cancelled
    /\ c.kind = "create" => Live(c.event) = {}
    /\ c.kind # "create" => /\ c.copy \in Copies /\ copies[c.copy].event = c.event
                            /\ Confirmed(c.copy, c.etag)
CallsAreDue == \A c \in calls : Due(c)

(* An answer that is still to be recorded is true.                         *)
Answer(w) ==
    MayRecord(w) =>
        LET e == w.event n == w.list[e]
        IN  /\ rows[e].state # "current" /\ CallsOf(e) = {} /\ Live(e) \subseteq {w.row.copy}
            /\ n = Cancelled => Live(e) = {}
            /\ n # Cancelled => Shows(w.row.copy, e, n, w.row.etag)
AnswersAreTrue == \A r \in Runs : Answer(run[r])

IInv ==
    /\ Typed
    /\ RowsAreNumbered
    /\ RowsAreRemembered
    /\ ListsArePublished
    /\ WorkIsKnown
    /\ OwnIntentIsAlone
    /\ CopiesAreSingle
    /\ CurrentRowsShow
    /\ CallsAreDue
    /\ AnswersAreTrue
    /\ CallsAreIntended
    /\ LiveCopiesAreKnown

-----------------------------------------------------------------------------
(* Facts about the records.                                                *)

(* The absent row and the absent copy.                                     *)
LEMMA NoRowTyped == NoRow \in Row /\ NoCopy \in Copy
BY DEF NoRow, Row, RowStates, NoCopy, Copy

(* The locals of no run.                                                   *)
LEMMA IdleTyped == IdleRun \in Locals
BY NoRowTyped DEF IdleRun, Locals, Busy

(* The pending state of each kind of call.                                 *)
LEMMA PendingStates ==
    /\ Pending["create"] = "pending_create"
    /\ Pending["update"] = "pending_update"
    /\ Pending["delete"] = "pending_delete"
BY DEF Pending

(* The initial state.                                                      *)
LEMMA InitInv == Init => IInv
<1> SUFFICES ASSUME Init PROVE IInv
  OBVIOUS
<1> USE DEF Init
<1>1. Typed
  BY NoRowTyped, IdleTyped DEF Typed
<1>2. RowsAreNumbered /\ RowsAreRemembered
  BY DEF RowsAreNumbered, RowsAreRemembered, Remembers, IdleRun
<1>3. ListsArePublished /\ WorkIsKnown /\ OwnIntentIsAlone
  BY DEF ListsArePublished, Lists, WorkIsKnown, Works, OwnIntentIsAlone, Alone, MaySend, IdleRun, Busy
<1>4. CopiesAreSingle /\ LiveCopiesAreKnown
  BY DEF CopiesAreSingle, LiveCopiesAreKnown, NoCopy
<1>5. CurrentRowsShow /\ CallsAreDue /\ AnswersAreTrue /\ CallsAreIntended
  BY DEF CurrentRowsShow, CallsAreDue, Due, AnswersAreTrue, Answer, MayRecord, CallsAreIntended, IdleRun, NoRow
<1> QED BY <1>1, <1>2, <1>3, <1>4, <1>5 DEF IInv

(* A step of the run r that changes nothing but its locals.                *)
LEMMA RunFrame ==
    ASSUME IInv, NEW r \in Runs, NEW new \in Locals,
           UNCHANGED <<cached, source, published, mappings, target, calls>>,
           run' = [run EXCEPT ![r] = new],
           run[r].pc # "waiting", Remembers(new), Lists(new), Works(new), Answer(new), ~MaySend(new),
           MayRecord(new) => \A s \in Runs : MaySend(run[s]) => run[s].event # new.event
    PROVE  IInv'
<1> USE DEF mappings, target
<1>1. run'[r] = new /\ \A s \in Runs \ {r} : run'[s] = run[s]
  BY DEF IInv, Typed
<1>2. Typed'
  BY DEF IInv, Typed
<1>3. RowsAreNumbered' /\ CopiesAreSingle' /\ CurrentRowsShow' /\ CallsAreIntended' /\ LiveCopiesAreKnown'
  BY DEF IInv, RowsAreNumbered, CopiesAreSingle, CurrentRowsShow, CallsAreIntended,
         LiveCopiesAreKnown, Shows, Confirmed
<1>4. RowsAreRemembered' /\ WorkIsKnown'
  BY <1>1 DEF IInv, RowsAreRemembered, Remembers, WorkIsKnown, Works, Past, Unchanged
<1>5. ListsArePublished'
  BY <1>1 DEF IInv, ListsArePublished, Lists
<1>6. OwnIntentIsAlone'
  BY <1>1 DEF IInv, OwnIntentIsAlone, Alone, MaySend, MayRecord, Unchanged, Live, CallsOf
<1>7. CallsAreDue'
  BY <1>1 DEF IInv, Typed, CallsAreDue, Due, Call, Live, Confirmed
<1>8. AnswersAreTrue'
  BY <1>1 DEF IInv, AnswersAreTrue, Answer, MayRecord, Unchanged, Live, CallsOf, Shows, Confirmed
<1> QED BY <1>2, <1>3, <1>4, <1>5, <1>6, <1>7, <1>8 DEF IInv



(* Reading the source and the mappings, going on from one event to the     *)
(* next, looking a copy up, and the end of a run.                          *)
LEMMA RunOnlyInv ==
    ASSUME IInv, NEW r \in Runs,
           \/ ListSource(r) \/ ListMappings(r) \/ FinishRun(r) \/ AdoptCopy(r)
           \/ \E e \in Events : Skip(r, e) \/ RecoverCreate(r, e)
    PROVE  IInv'
<1> USE DEF IInv
<1>0. run[r] \in Locals /\ run \in [Runs -> Locals]
  BY DEF Typed
<1>1. CASE ListSource(r)
  <2>1. PICK listed \in SUBSET Events, master \in BOOLEAN :
            run' = [run EXCEPT ![r] = [IdleRun EXCEPT !.pc = "listed", !.master = master,
                        !.list = [e \in Events |-> Listed(e, listed)]]]
    BY <1>1 DEF ListSource
  <2> DEFINE new == [IdleRun EXCEPT !.pc = "listed", !.master = master,
                        !.list = [e \in Events |-> Listed(e, listed)]]
  <2>2. new \in Locals /\ Lists(new)
    BY IdleTyped DEF Typed, Locals, Lists, Listed, ListsArePublished, IdleRun
  <2>3. Remembers(new) /\ new.pc = "listed"
    BY DEF Remembers, IdleRun
  <2> QED BY <1>0, <1>1, <2>1, <2>2, <2>3, RunFrame
          DEF ListSource, Idle, Works, Answer, MayRecord, MaySend, Busy
<1>2. CASE ListMappings(r) \/ FinishRun(r)
  <2> DEFINE new == IF Unresolved \/ WritesSeries(r) \/ FinishRun(r) THEN IdleRun
                    ELSE [run[r] EXCEPT !.pc = "working", !.rows = rows]
  <2>1. run' = [run EXCEPT ![r] = new] /\ run[r].pc # "waiting"
    BY <1>2 DEF ListMappings, FinishRun
  <2>2. new \in Locals /\ Lists(new) /\ new.pc \notin Busy
    BY <1>0, IdleTyped DEF Typed, Locals, Lists, ListsArePublished, IdleRun, Busy
  <2>3. Remembers(new)
    BY <1>0 DEF Remembers, IdleRun, Locals, RowsAreNumbered, Past, Unchanged, Typed, Row
  <2>4. UNCHANGED <<cached, source, published, mappings, target, calls>>
    BY <1>2 DEF ListMappings, FinishRun
  <2> QED BY <2>1, <2>2, <2>3, <2>4, RunFrame DEF Works, Answer, MayRecord, MaySend, Busy
<1>3. ASSUME NEW e \in Events, Skip(r, e) PROVE IInv'
  <2> DEFINE new == [run[r] EXCEPT !.pc = "working", !.list[e] = None, !.rows[e] = NoRow,
                                   !.event = None, !.row = NoRow, !.own = FALSE]
  <2>1. run' = [run EXCEPT ![r] = new] /\ run[r].pc = "working"
    BY <1>3 DEF Skip, Done, Working
  <2>2. new \in Locals /\ Lists(new) /\ new.pc \notin Busy
    BY <1>0, NoRowTyped DEF Typed, Locals, Lists, ListsArePublished, Busy
  <2>3. Remembers(new)
    BY <1>0 DEF Remembers, Locals, RowsAreRemembered
  <2> QED BY <1>3, <2>1, <2>2, <2>3, RunFrame DEF Skip, Works, Answer, MayRecord, MaySend, Busy
<1>4. ASSUME NEW e \in Events, RecoverCreate(r, e) PROVE IInv'
  <2> DEFINE new == [run[r] EXCEPT !.pc = "lookup", !.event = e, !.row = run[r].rows[e], !.own = FALSE]
  <2>1. run' = [run EXCEPT ![r] = new] /\ run[r].pc = "working"
    BY <1>4, ZenonT(40) DEF RecoverCreate, Working, Known
  <2>2. new \in Locals /\ Lists(new)
    BY <1>0 DEF Typed, Locals, Lists, ListsArePublished, Busy
  <2>3. Remembers(new)
    BY <1>0 DEF Remembers, Locals, RowsAreRemembered
  <2>4. Works(new)
    <3>1. /\ new.event = e /\ new.row = run[r].rows[e] /\ new.list = run[r].list /\ new.pc = "lookup"
          /\ run[r].list[e] # None /\ run[r].rows[e].state = "pending_create"
      BY <1>0, <1>4 DEF Locals, RecoverCreate, Working, Known
    <3>2. Past(e, new.row) /\ (Unchanged(e, new.row) => rows[e] = new.row)
      BY <3>1 DEF RowsAreRemembered, Remembers, NoRow
    <3> QED BY <3>1, <3>2 DEF Works
  <2>5. ~MaySend(new) /\ ~MayRecord(new)
    BY <1>0 DEF MaySend, MayRecord, Locals
  <2> QED BY <1>4, <2>1, <2>2, <2>3, <2>4, <2>5, RunFrame DEF RecoverCreate, Answer
<1>5. CASE AdoptCopy(r)
  <2> DEFINE e == run[r].event
  <2>1. PICK k \in Marked(e) :
            /\ run[r].pc = "lookup" /\ copies[k].hash = State(r, e)
            /\ run' = [run EXCEPT ![r].pc = "answered",
                                  ![r].row = [@ EXCEPT !.copy = k, !.etag = copies[k].etag]]
    BY <1>5 DEF AdoptCopy
  <2> DEFINE new == [run[r] EXCEPT !.pc = "answered",
                         !.row = [run[r].row EXCEPT !.copy = k, !.etag = copies[k].etag]]
  <2>2. run' = [run EXCEPT ![r] = new]
    BY <1>0, <2>1
  <2>3. k \in Copies /\ copies[k].event = e /\ copies[k].live /\ copies[k] \in Copy
    BY <2>1 DEF Marked, Typed
  <2>4. new \in Locals /\ Lists(new) /\ new.event = e /\ new.list = run[r].list /\ new.pc = "answered"
    BY <1>0, <2>3 DEF Typed, Locals, Lists, ListsArePublished, Busy, Row, Copy
  <2>5. /\ new.row.inc = run[r].row.inc /\ new.row.ver = run[r].row.ver
        /\ new.row.copy = k /\ new.row.etag = copies[k].etag /\ new.rows = run[r].rows
    BY <1>0 DEF Locals, Row
  <2>6. Remembers(new) /\ Works(new) /\ ~MaySend(new)
    BY <2>1, <2>4, <2>5 DEF Remembers, RowsAreRemembered, Works, WorkIsKnown, Busy, Past, MaySend
  <2>7. e \in Events /\ run[r].row.state = "pending_create"
    BY <2>1 DEF WorkIsKnown, Works, Busy
  <2>8. MayRecord(new) => Unchanged(e, run[r].row) /\ rows[e] = run[r].row
    BY <2>1, <2>4, <2>5 DEF MayRecord, Unchanged, WorkIsKnown, Works, Busy
  <2>9. Answer(new)
    <3> SUFFICES ASSUME MayRecord(new) PROVE Answer(new)
      BY DEF Answer
    <3>1. rows[e].state = "pending_create" /\ Live(e) = {k}
      BY <2>3, <2>7, <2>8 DEF Live, CopiesAreSingle
    <3>2. CallsOf(e) = {}
      <4> SUFFICES ASSUME NEW c \in calls, c.event = e PROVE FALSE
        BY DEF CallsOf
      <4>1. c.kind = "create"
        BY <3>1, PendingStates DEF CallsAreIntended, Typed, Call
      <4> QED BY <3>1, <4>1 DEF CallsAreDue, Due
    <3>3. new.list[e] = copies[k].hash /\ copies[k].hash \in Contents \cup {Foreign}
      BY <2>1, <2>3, <2>4 DEF State, CopiesAreSingle, Copy
    <3>4. new.list[e] \in Contents
      BY <1>0, <2>4, <2>7, <3>3, MappingConstants DEF Locals, States
    <3>5. Shows(k, e, new.list[e], copies[k].etag)
      BY <2>3, <3>3, <3>4, MappingConstants DEF Shows, Confirmed, CopiesAreSingle, Copy
    <3> QED BY <2>4, <2>5, <3>1, <3>2, <3>4, <3>5, MappingConstants DEF Answer
  <2>10. MayRecord(new) => \A s \in Runs : MaySend(run[s]) => run[s].event # new.event
    BY <2>3, <2>4 DEF OwnIntentIsAlone, Alone, Live
  <2> QED BY <1>5, <2>1, <2>2, <2>4, <2>6, <2>9, <2>10, RunFrame DEF AdoptCopy
<1> QED BY <1>1, <1>2, <1>3, <1>4, <1>5

(* Outside the engine: only the source's states and the copies change.     *)
LEMMA SourceChangeInv ==
    ASSUME IInv, NEW e \in Events, SourceChange(e)
    PROVE  IInv'
<1> USE DEF IInv, SourceChange, mappings, target
<1>1. Typed'
  BY DEF Typed
<1>2. \A f \in Events : published[f] \subseteq published'[f] /\ source'[f] \in published'[f]
  BY DEF Typed, ListsArePublished
<1>3. ListsArePublished'
  BY <1>2 DEF ListsArePublished, Lists, Typed, Call
<1>4. /\ RowsAreNumbered' /\ RowsAreRemembered' /\ WorkIsKnown'
      /\ OwnIntentIsAlone' /\ CopiesAreSingle' /\ CurrentRowsShow'
      /\ CallsAreIntended' /\ LiveCopiesAreKnown'
  BY DEF RowsAreNumbered, RowsAreRemembered, Remembers, WorkIsKnown, Works, Past, Unchanged,
         OwnIntentIsAlone, Alone, MayRecord, CopiesAreSingle, CurrentRowsShow, Live, CallsOf,
         CallsAreIntended, LiveCopiesAreKnown, Shows, Confirmed
<1>5. CallsAreDue' /\ AnswersAreTrue'
  BY DEF CallsAreDue, Due, AnswersAreTrue, Answer, MayRecord, Unchanged, Live, CallsOf, Shows, Confirmed
<1> QED BY <1>1, <1>3, <1>4, <1>5

(* What the user does to a copy, or the index learns of it, leaves its     *)
(* event; it makes no copy, and an edit is newer than any ETag known.      *)
LEMMA CopyFrame ==
    ASSUME IInv, NEW k \in Copies,
           UNCHANGED <<cached, source, published, mappings, calls, run>>,
           edits' \in Nat, copies' = [copies EXCEPT ![k] = copies'[k]], copies'[k] \in Copy,
           copies'[k].event = copies[k].event, copies[k].live,
           \/ /\ copies'[k].edited /\ copies'[k].hash = Foreign /\ copies'[k].etag = copies[k].etag + 1
           \/ /\ copies'[k].edited = copies[k].edited /\ copies'[k].hash = copies[k].hash
              /\ copies'[k].etag = copies[k].etag /\ copies'[k].live
    PROVE  IInv'
<1> USE DEF IInv, mappings
<1>1. Typed' /\ copies[k] \in Copy
  BY DEF Typed
<1>2. \A l \in Copies \ {k} : copies'[l] = copies[l]
  BY DEF Typed
<1>3. /\ RowsAreNumbered' /\ RowsAreRemembered' /\ WorkIsKnown' /\ ListsArePublished'
      /\ CallsAreIntended'
  BY DEF RowsAreNumbered, RowsAreRemembered, Remembers, WorkIsKnown, Works, Past, Unchanged,
         ListsArePublished, Lists, CallsAreIntended
<1>4. \A e \in Events : Live(e)' \subseteq Live(e)
  BY <1>2 DEF Live
<1>5. CopiesAreSingle'
  BY <1>1, <1>2, MappingConstants DEF CopiesAreSingle, Copy, States
<1>6. ASSUME NEW l, NEW etag \in Nat, Confirmed(l, etag), l \in Copies PROVE Confirmed(l, etag)'
  BY <1>1, <1>2, <1>6 DEF Confirmed, Copy
<1>7. ASSUME NEW l, NEW e, NEW hash, NEW etag \in Nat, Shows(l, e, hash, etag)
      PROVE  Shows(l, e, hash, etag)'
  BY <1>2, <1>6, <1>7 DEF Shows
<1>8. CurrentRowsShow'
  BY <1>7 DEF CurrentRowsShow, Typed, Row
<1>9. OwnIntentIsAlone'
  BY <1>4 DEF OwnIntentIsAlone, Alone, MaySend, MayRecord, Unchanged, CallsOf, WorkIsKnown, Works, Busy
<1>10. CallsAreDue'
  <2> SUFFICES ASSUME NEW c \in calls PROVE Due(c)'
    BY DEF CallsAreDue
  <2>1. c \in Call /\ Due(c)
    BY DEF Typed, CallsAreDue
  <2>2. c.kind = "create" => Live(c.event)' = {}
    BY <1>4, <2>1 DEF Due, Call
  <2>3. c.kind # "create" => Confirmed(c.copy, c.etag)' /\ copies'[c.copy].event = c.event
    BY <1>2, <1>6, <2>1 DEF Due, Call
  <2> QED BY <2>1, <2>2, <2>3 DEF Due
<1>11. AnswersAreTrue'
  <2> SUFFICES ASSUME NEW r \in Runs, MayRecord(run[r]) PROVE Answer(run[r])'
    BY DEF AnswersAreTrue, Answer, MayRecord, Unchanged
  <2>1. run[r] \in Locals /\ run[r].event \in Events
    BY DEF Typed, WorkIsKnown, Works, Busy, MayRecord
  <2>2. run[r].row.etag \in Nat
    BY <2>1 DEF Locals, Row
  <2> QED BY <1>4, <1>7, <2>1, <2>2 DEF AnswersAreTrue, Answer, MayRecord, Unchanged, CallsOf
<1>12. LiveCopiesAreKnown'
  BY <1>2 DEF LiveCopiesAreKnown
<1> QED BY <1>1, <1>3, <1>5, <1>8, <1>9, <1>10, <1>11, <1>12

(* Steps of sources, users and of the provider on its own.                 *)
LEMMA OutsideInv ==
    ASSUME IInv, NEW k \in Copies, UserEdit(k) \/ BecomesVisible(k)
    PROVE  IInv'
<1>1. copies \in [Copies -> Copy] /\ copies[k] \in Copy /\ edits \in Nat
  BY DEF IInv, Typed
<1>2. CASE UserEdit(k)
  <2>1. PICK stays \in BOOLEAN :
            copies' = [copies EXCEPT ![k].hash = Foreign, ![k].edited = TRUE, ![k].live = stays,
                                     ![k].etag = @ + 1]
    BY <1>2 DEF UserEdit
  <2>2. /\ copies' = [copies EXCEPT ![k] = copies'[k]] /\ copies'[k] \in Copy
        /\ copies'[k].event = copies[k].event /\ copies'[k].edited
        /\ copies'[k].hash = Foreign /\ copies'[k].etag = copies[k].etag + 1
    BY <1>1, <2>1 DEF Copy
  <2>3. edits' = edits + 1 /\ copies[k].live /\ UNCHANGED <<cached, source, published, mappings, calls, run>>
    BY <1>2, Zenon DEF UserEdit
  <2>4. edits' \in Nat
    BY <1>1, <2>3
  <2> QED BY <2>2, <2>3, <2>4, CopyFrame
<1>3. CASE BecomesVisible(k)
  <2>1. /\ copies' = [copies EXCEPT ![k] = copies'[k]] /\ copies'[k] \in Copy
        /\ copies'[k].event = copies[k].event /\ copies'[k].edited = copies[k].edited
        /\ copies'[k].hash = copies[k].hash /\ copies'[k].etag = copies[k].etag /\ copies'[k].live
    BY <1>1, <1>3 DEF Copy, BecomesVisible
  <2> QED BY <1>1, <1>3, <2>1, CopyFrame DEF BecomesVisible, mappings
<1> QED BY <1>2, <1>3

(* A run that ends leaves its call on the wire, with nobody waiting.       *)
LEMMA FailInv ==
    ASSUME IInv, NEW r \in Runs, Fail(r)
    PROVE  IInv'
<1> USE DEF IInv, Fail, mappings, target
<1> DEFINE left(c) == [c EXCEPT !.run = IF @ = r THEN None ELSE @]
           same(d, c) == /\ d \in Call /\ d.kind = c.kind /\ d.event = c.event /\ d.copy = c.copy
                         /\ d.hash = c.hash /\ d.etag = c.etag /\ d.run # r
                         /\ d.run # None => d.run = c.run
<1>1. /\ run' = [run EXCEPT ![r] = IdleRun] /\ run'[r] = IdleRun
      /\ \A s \in Runs \ {r} : run'[s] = run[s]
  BY DEF Typed
<1>2. \A d \in calls' : \E c \in calls : d = left(c) /\ same(d, c)
  <2>1. calls' = {left(c) : c \in calls}
    BY DEF Fail
  <2>2. \A c \in calls : same(left(c), c)
    BY MappingConstants DEF Typed, Call
  <2> HIDE DEF left, same, Fail
  <2> QED BY <2>1, <2>2
<1> HIDE DEF left, same
<1>3. Typed'
  BY <1>1, <1>2, IdleTyped DEF Typed, same
<1>4. RowsAreNumbered' /\ CopiesAreSingle' /\ CurrentRowsShow' /\ LiveCopiesAreKnown'
  BY DEF RowsAreNumbered, CopiesAreSingle, CurrentRowsShow, LiveCopiesAreKnown, Shows, Confirmed
<1>5. RowsAreRemembered' /\ WorkIsKnown'
  BY <1>1 DEF RowsAreRemembered, Remembers, WorkIsKnown, Works, Past, Unchanged, IdleRun, Busy
<1>6. ListsArePublished'
  BY <1>1, <1>2 DEF ListsArePublished, Lists, IdleRun, same
<1>7. \A e : CallsOf(e) = {} => CallsOf(e)' = {}
  BY <1>2 DEF CallsOf, same
<1>8. OwnIntentIsAlone'
  <2> SUFFICES ASSUME NEW q \in Runs, MaySend(run[q])' PROVE Alone(q)'
    BY DEF OwnIntentIsAlone, Alone
  <2>1. q # r /\ run'[q] = run[q] /\ MaySend(run[q])
    BY <1>1 DEF MaySend, IdleRun
  <2>2. CallsOf(run[q].event)' = {}
    BY <1>7, <2>1 DEF OwnIntentIsAlone, Alone
  <2> QED BY <1>1, <2>1, <2>2 DEF OwnIntentIsAlone, Alone, MaySend, MayRecord, Unchanged, Live, IdleRun
<1>9. CallsAreDue'
  <2> SUFFICES ASSUME NEW d \in calls' PROVE Due(d)'
    BY DEF CallsAreDue, Due
  <2>1. PICK c \in calls : same(d, c)
    BY <1>2
  <2> QED BY <1>1, <2>1 DEF CallsAreDue, Due, Live, Confirmed, Typed, Call, same
<1>10. AnswersAreTrue'
  <2> SUFFICES ASSUME NEW s \in Runs, MayRecord(run[s])' PROVE Answer(run[s])'
    BY DEF AnswersAreTrue, Answer
  <2>1. s # r /\ run'[s] = run[s]
    BY <1>1 DEF MayRecord, IdleRun
  <2>2. MayRecord(run[s]) /\ Answer(run[s])
    BY <2>1 DEF AnswersAreTrue, MayRecord, Unchanged
  <2>3. CallsOf(run[s].event)' = {}
    BY <1>7, <2>1, <2>2 DEF Answer, CallsOf
  <2> QED BY <2>1, <2>2, <2>3 DEF Answer, Live, Shows, Confirmed
<1>11. CallsAreIntended'
  <2>1. \A d \in calls' : /\ rows[d.event].state = Pending[d.kind]
                          /\ d.kind # "create" => rows[d.event].copy = d.copy
    BY <1>2 DEF CallsAreIntended, same
  <2>2. ASSUME NEW d1 \in calls', NEW d2 \in calls', d2.event = d1.event PROVE d2 = d1
    BY <1>2, <2>2 DEF CallsAreIntended, same
  <2> QED BY <2>1, <2>2 DEF CallsAreIntended
<1> QED BY <1>3, <1>4, <1>5, <1>6, <1>8, <1>9, <1>10, <1>11

-----------------------------------------------------------------------------
(* Steps that write a row.                                                 *)

(* The row of e is inserted, swapped or removed; no other one changes.     *)
RowMoves(e) ==
    /\ rows' \in [Events -> Row] /\ inserted' \in [Events -> Nat]
    /\ \A f \in Events \ {e} : rows'[f] = rows[f] /\ inserted'[f] = inserted[f]
    /\ rows'[e].state = "none" => rows'[e] = NoRow
    /\ \/ rows[e] = NoRow /\ inserted'[e] = inserted[e] + 1 /\ rows'[e].inc = inserted'[e]
       \/ rows[e] # NoRow /\ rows'[e] = NoRow /\ inserted'[e] = inserted[e]
       \/ /\ rows[e] # NoRow /\ inserted'[e] = inserted[e]
          /\ rows'[e].inc = rows[e].inc /\ rows'[e].ver = rows[e].ver + 1

(* Compare and swap: whoever remembers the row of e from before finds it   *)
(* changed, and what it remembers stays behind what is stored.             *)
LEMMA RowsMoveOn ==
    ASSUME IInv, NEW e \in Events, RowMoves(e),
           NEW f \in Events, NEW m \in Row, Past(f, m)
    PROVE  Past(f, m)' /\ (Unchanged(f, m)' => f # e /\ Unchanged(f, m))
<1> USE DEF IInv, Typed, RowMoves
<1>1. CASE f # e
  BY <1>1 DEF Past, Unchanged
<1>2. CASE f = e
  <2>1. m.inc \in Nat /\ m.ver \in Nat /\ rows[e].ver \in Nat /\ rows'[e].ver \in Nat /\ inserted[e] \in Nat
    BY DEF Row
  <2> QED BY <1>2, <2>1 DEF Past, Unchanged, RowsAreNumbered
<1> QED BY <1>1, <1>2

(* A step of the run r that writes the row of e, nobody having a call for  *)
(* it on the wire or being about to send one, and may send one of its own. *)
LEMMA RowFrame ==
    ASSUME IInv, NEW r \in Runs, NEW e \in Events, RowMoves(e), NEW new \in Locals, NEW sent \in SUBSET Call,
           UNCHANGED <<cached, source, published, target>>,
           run' = [run EXCEPT ![r] = new], calls' = calls \cup sent,
           run[r].pc # "waiting", CallsOf(e) = {},
           \A s \in Runs \ {r} : MaySend(run[s]) => run[s].event # e,
           Lists(new), \A f \in Events : new.rows[f] \in {run[r].rows[f], NoRow},
           new.pc # "answered",
           new.pc \in Busy => /\ new.event = e /\ new.list[e] # None
                              /\ new.row = rows'[e] /\ rows'[e] # NoRow,
           new.pc = "lookup" => /\ rows'[e].state = "pending_create"
                                /\ Live(e) = {} /\ sent = {},
           rows'[e].state = "current" =>
              rows'[e].hash # None /\ Shows(rows'[e].copy, e, rows'[e].hash, rows'[e].etag),
           \A k \in Live(e) : rows'[e].state = "pending_create" \/ rows'[e].copy = k,
           \A c \in sent : /\ c.event = e /\ Due(c)' /\ c.hash \in published[e]
                           /\ rows'[e].state = Pending[c.kind] /\ (c.kind # "create" => rows'[e].copy = c.copy)
                           /\ \A d \in sent : d = c
    PROVE  IInv'
<1> USE DEF target
<1>1. run'[r] = new /\ \A s \in Runs \ {r} : run'[s] = run[s]
  BY DEF IInv, Typed
<1>2. Typed'
  BY DEF IInv, Typed, RowMoves
<1>3. RowsAreNumbered'
  BY DEF IInv, RowsAreNumbered, RowMoves
<1>4. \A f \in Events \ {e} : rows'[f] = rows[f]
  BY DEF RowMoves
<1>5. \A s \in Runs : run[s] \in Locals /\ run[s].row \in Row /\ run[s].rows \in [Events -> Row]
  BY DEF IInv, Typed, Locals
<1>6. RowsAreRemembered'
  <2> SUFFICES ASSUME NEW s \in Runs, NEW f \in Events, NEW m, m = run'[s].rows[f]
               PROVE  /\ m.state = "none" => m = NoRow
                      /\ m # NoRow => Past(f, m)' /\ (Unchanged(f, m)' => rows'[f] = m)
    BY DEF RowsAreRemembered, Remembers
  <2>1. m \in {run[s].rows[f], NoRow}
    BY <1>1
  <2>2. CASE m # NoRow
    <3>1. m \in Row /\ Past(f, m) /\ (m.state # "none") /\ (Unchanged(f, m) => rows[f] = m)
      BY <1>5, <2>1, <2>2 DEF IInv, RowsAreRemembered, Remembers
    <3> QED BY <1>4, <3>1, RowsMoveOn
  <2> QED BY <2>2
<1>7. ListsArePublished'
  BY <1>1 DEF IInv, ListsArePublished, Lists
<1>8. WorkIsKnown'
  <2> SUFFICES ASSUME NEW s \in Runs, run'[s].pc \in Busy PROVE Works(run[s])'
    BY DEF WorkIsKnown, Works
  <2>1. CASE s = r
    <3>1. Past(e, rows[e])'
      BY <1>1, <1>2, <1>3, <2>1 DEF Past, RowsAreNumbered, Typed, Row
    <3> QED BY <1>1, <2>1, <3>1 DEF Works
  <2>2. CASE s # r
    <3>1. Works(run[s]) /\ run[s].pc \in Busy /\ run[s].row \in Row
      BY <1>1, <1>5, <2>2 DEF IInv, WorkIsKnown
    <3>2. Past(run[s].event, run[s].row)' /\ (Unchanged(run[s].event, run[s].row)' =>
              run[s].event # e /\ Unchanged(run[s].event, run[s].row))
      BY <1>1, <2>2, <3>1, RowsMoveOn DEF Works
    <3> QED BY <1>1, <1>4, <2>2, <3>1, <3>2 DEF Works
  <2> QED BY <2>1, <2>2
<1>9. ASSUME NEW s \in Runs \ {r}, MayRecord(run[s])' PROVE run[s].event # e /\ MayRecord(run[s])
  <2>1. Works(run[s]) /\ run[s].pc \in Busy /\ run[s].row \in Row
    BY <1>1, <1>5, <1>9 DEF IInv, WorkIsKnown, MayRecord, Busy
  <2> QED BY <1>1, <1>9, <2>1, RowsMoveOn DEF Works, MayRecord
<1>10. \A f \in Events \ {e} : CallsOf(f) = {} => CallsOf(f)' = {}
  BY DEF CallsOf
<1>11. OwnIntentIsAlone'
  <2> SUFFICES ASSUME NEW s \in Runs, MaySend(run[s])' PROVE Alone(s)'
    BY DEF OwnIntentIsAlone, Alone
  <2>1. CASE s = r
    <3>1. new.pc = "lookup" /\ new.event = e /\ new.row = rows'[e] /\ rows'[e] # NoRow /\ Live(e)' = {}
      BY <1>1, <2>1 DEF MaySend, Busy, Live
    <3>2. CallsOf(e)' = {}
      BY <3>1 DEF CallsOf
    <3>3. \A q \in Runs \ {r} : run'[q].event = e => ~MaySend(run[q])' /\ ~MayRecord(run[q])'
      BY <1>1, <1>9 DEF MaySend
    <3> QED BY <1>1, <2>1, <3>1, <3>2, <3>3 DEF Alone, Unchanged
  <2>2. CASE s # r
    <3> DEFINE f == run[s].event
    <3>1. MaySend(run[s]) /\ f \in Events \ {e} /\ Alone(s) /\ run'[s] = run[s]
      BY <1>1, <2>2 DEF MaySend, IInv, WorkIsKnown, Works, Busy, OwnIntentIsAlone
    <3>2. Unchanged(f, run[s].row)' /\ Live(f)' = {} /\ CallsOf(f)' = {}
      BY <1>4, <1>10, <3>1 DEF Alone, Unchanged, Live
    <3>3. ASSUME NEW q \in Runs \ {s}, run'[q].event = f PROVE ~MaySend(run[q])' /\ ~MayRecord(run[q])'
      <4>1. CASE q = r
        BY <1>1, <3>1, <3>3, <4>1 DEF MaySend, MayRecord, Busy
      <4>2. CASE q # r
        BY <1>1, <1>9, <3>1, <3>3, <4>2 DEF Alone, MaySend
      <4> QED BY <4>1, <4>2
    <3> QED BY <3>1, <3>2, <3>3 DEF Alone
  <2> QED BY <2>1, <2>2
<1>12. CopiesAreSingle'
  BY DEF IInv, CopiesAreSingle
<1>13. CurrentRowsShow'
  BY <1>4 DEF IInv, CurrentRowsShow, Shows, Confirmed
<1>14. CallsAreDue'
  <2> SUFFICES ASSUME NEW c \in calls PROVE Due(c)'
    BY DEF CallsAreDue
  <2>1. Due(c) /\ c \in Call
    BY DEF IInv, CallsAreDue, Typed
  <2>2. c.run # None => c.run \in Runs \ {r}
    BY <2>1 DEF Due, Call
  <2> QED BY <1>1, <2>1, <2>2 DEF Due, Live, Confirmed
<1>15. AnswersAreTrue'
  <2> SUFFICES ASSUME NEW s \in Runs, MayRecord(run[s])' PROVE Answer(run[s])'
    BY DEF AnswersAreTrue, Answer
  <2>1. s # r
    BY <1>1 DEF MayRecord
  <2>2. MayRecord(run[s]) /\ run[s].event \in Events \ {e} /\ run'[s] = run[s] /\ Answer(run[s])
    BY <1>1, <1>9, <2>1 DEF IInv, WorkIsKnown, Works, Busy, MayRecord, AnswersAreTrue
  <2>3. CallsOf(run[s].event)' = {} /\ rows'[run[s].event] = rows[run[s].event]
    BY <1>4, <1>10, <2>2 DEF Answer
  <2> QED BY <2>2, <2>3 DEF Answer, Live, Shows, Confirmed
<1>16. CallsAreIntended'
  BY <1>4 DEF IInv, Typed, Call, CallsAreIntended, CallsOf
<1>17. LiveCopiesAreKnown'
  BY <1>4 DEF IInv, LiveCopiesAreKnown, Live
<1> QED BY <1>2, <1>3, <1>6, <1>7, <1>8, <1>11, <1>12, <1>13, <1>14, <1>15, <1>16, <1>17 DEF IInv

(* Inserting the intent to create a copy of e.                             *)
LEMMA CreateIntentInv ==
    ASSUME IInv, NEW r \in Runs, NEW e \in Events, CreateIntent(r, e)
    PROVE  IInv'
<1> DEFINE intent == [NoRow EXCEPT !.state = "pending_create", !.inc = inserted[e] + 1, !.ver = 1]
           new == [run[r] EXCEPT !.pc = "lookup", !.event = e, !.row = intent, !.own = TRUE]
<1>1. /\ rows[e] = NoRow /\ rows' = [rows EXCEPT ![e] = intent] /\ inserted' = [inserted EXCEPT ![e] = @ + 1]
      /\ run[r].pc = "working" /\ run[r].list[e] # None /\ run' = [run EXCEPT ![r] = new]
      /\ UNCHANGED <<cached, source, published, target>> /\ calls' = calls
  BY DEF CreateIntent, Inserts, Working
<1>2. run[r] \in Locals /\ inserted[e] \in Nat /\ rows \in [Events -> Row] /\ inserted \in [Events -> Nat]
  BY DEF IInv, Typed
<1>3. /\ intent \in Row /\ intent # NoRow /\ intent.state = "pending_create"
      /\ intent.inc = inserted[e] + 1
  <2>1. /\ intent.state = "pending_create" /\ intent.inc = inserted[e] + 1
        /\ NoRow.state = "none"
    BY DEF NoRow
  <2>2. ASSUME NEW inc \in Nat
        PROVE  [NoRow EXCEPT !.state = "pending_create", !.inc = inc, !.ver = 1] \in Row
    BY NoRowTyped DEF Row, RowStates
  <2>3. intent \in Row
    <3>1. inserted[e] + 1 \in Nat
      BY <1>2
    <3> QED BY <2>2, <3>1
  <2> QED BY <2>1, <2>3
<1> HIDE DEF intent
<1>4. RowMoves(e) /\ rows'[e] = intent
  BY <1>1, <1>2, <1>3 DEF RowMoves
<1>5. /\ new \in Locals /\ new.pc = "lookup" /\ new.event = e /\ new.row = intent
      /\ new.list = run[r].list /\ new.rows = run[r].rows
  BY <1>2, <1>3 DEF Locals, Busy
<1> HIDE DEF new
<1>6. Lists(new)
  BY <1>5 DEF IInv, ListsArePublished, Lists
<1>7. CallsOf(e) = {}
  BY <1>1, PendingStates DEF IInv, Typed, Call, CallsOf, CallsAreIntended, NoRow
<1>8. Live(e) = {}
  BY <1>1, MappingConstants DEF IInv, LiveCopiesAreKnown, Live, NoRow
<1>9. \A s \in Runs \ {r} : MaySend(run[s]) => run[s].event # e
  BY <1>1 DEF IInv, OwnIntentIsAlone, Alone, Unchanged
<1> QED BY <1>1, <1>3, <1>4, <1>5, <1>6, <1>7, <1>8, <1>9, RowFrame, ZenonT(40)

(* Writing the intent of an update or a deletion over the row the run      *)
(* knows, which is the stored one if nobody changed it.                    *)
LEMMA BeginMutationInv ==
    ASSUME IInv, NEW r \in Runs, NEW e \in Events, NEW kind \in {"update", "delete"}, NEW k \in Copies,
           BeginMutation(r, e, rows[e], kind, k, State(r, e)), rows[e] # NoRow,
           run[r].pc # "waiting", State(r, e) # None, kind = "delete" <=> State(r, e) = Cancelled,
           CallsOf(e) = {}, copies[k].event = e, Confirmed(k, Condition(rows[e])), Live(e) \subseteq {k},
           \A s \in Runs \ {r} : MaySend(run[s]) => run[s].event # e
    PROVE  IInv'
<1> DEFINE intent == [rows[e] EXCEPT !.state = Pending[kind], !.copy = k, !.ver = @ + 1]
           new == [run[r] EXCEPT !.pc = "waiting", !.event = e, !.row = intent]
<1> SUFFICES ASSUME NEW call, call = [run |-> r, kind |-> kind, event |-> e, copy |-> k,
                                      hash |-> State(r, e), etag |-> Condition(rows[e])]
             PROVE  IInv'
  OBVIOUS
<1>0. run[r] \in Locals /\ run[r] \in Locals /\ rows \in [Events -> Row] /\ inserted \in [Events -> Nat]
  BY DEF IInv, Typed
<1>1. /\ intent \in Row /\ intent # NoRow /\ intent.state = Pending[kind] /\ intent.copy = k
      /\ intent.inc = rows[e].inc /\ intent.ver = rows[e].ver + 1 /\ intent.etag = rows[e].etag
      /\ intent.state \in {"pending_update", "pending_delete"}
  <2>1. rows[e] \in Row /\ Pending[kind] \in {"pending_update", "pending_delete"}
    BY <1>0, PendingStates
  <2>2. /\ intent.state = Pending[kind] /\ intent.copy = k /\ intent.inc = rows[e].inc
        /\ intent.ver = rows[e].ver + 1 /\ intent.etag = rows[e].etag
    BY <2>1 DEF Row
  <2>3. intent \in Row
    <3>1. ASSUME NEW m \in Row, NEW state \in RowStates, NEW ver \in Nat
          PROVE  [m EXCEPT !.state = state, !.copy = k, !.ver = ver] \in Row
      BY DEF Row
    <3>2. rows[e].ver + 1 \in Nat /\ Pending[kind] \in RowStates
      BY <2>1 DEF Row, RowStates
    <3> QED BY <2>1, <3>1, <3>2
  <2>4. NoRow.state = "none"
    BY DEF NoRow
  <2> QED BY <2>1, <2>2, <2>3, <2>4
<1>2. Condition(intent) = Condition(rows[e]) /\ Condition(rows[e]) \in Nat
  BY <1>0, <1>1 DEF Condition, Row
<1>3. /\ rows' = [rows EXCEPT ![e] = intent] /\ inserted' = inserted /\ run' = [run EXCEPT ![r] = new]
      /\ UNCHANGED <<cached, source, published, target>>
      /\ calls' = calls \cup {[run |-> r, kind |-> kind, event |-> e, copy |-> intent.copy,
                               hash |-> State(r, e), etag |-> Condition(intent)]}
  BY DEF BeginMutation, Swaps, Sends, Waits
<1> HIDE DEF intent
<1>4. RowMoves(e) /\ rows'[e] = intent
  BY <1>0, <1>1, <1>3 DEF RowMoves
<1>5. /\ new \in Locals /\ new.pc = "waiting" /\ new.event = e /\ new.row = intent
      /\ new.list = run[r].list /\ new.rows = run[r].rows
  BY <1>0, <1>1 DEF Locals, Busy
<1>6. calls' = calls \cup {call}
  BY <1>1, <1>2, <1>3
<1>7. call \in Call /\ State(r, e) \in published[e]
  BY <1>0, <1>2 DEF Call, Locals, State, IInv, ListsArePublished, Lists
<1>8. run'[r] = new
  BY <1>3 DEF IInv, Typed
<1> HIDE DEF new
<1>9. Due(call)'
  BY <1>3, <1>5, <1>8 DEF Due, State, Confirmed, target
<1>10. Lists(new)
  BY <1>5 DEF IInv, ListsArePublished, Lists
<1> QED
  <2> DEFINE sent == {call}
  <2>1. /\ sent \in SUBSET Call /\ calls' = calls \cup sent
        /\ \A c \in sent : /\ c.event = e /\ Due(c)' /\ c.hash \in published[e]
                           /\ rows'[e].state = Pending[c.kind] /\ (c.kind # "create" => rows'[e].copy = c.copy)
                           /\ \A d \in sent : d = c
    BY <1>1, <1>4, <1>6, <1>7, <1>9
  <2> HIDE DEF sent
  <2>2. new.pc \in Busy => new.event = e /\ new.list[e] # None /\ new.row = rows'[e] /\ rows'[e] # NoRow
    BY <1>1, <1>4, <1>5 DEF State
  <2>3. /\ rows'[e].state # "current" /\ \A l \in Live(e) : rows'[e].copy = l
        /\ new.pc # "answered" /\ new.pc # "lookup" /\ \A f \in Events : new.rows[f] \in {run[r].rows[f], NoRow}
    BY <1>1, <1>4, <1>5
  <2>4. /\ UNCHANGED <<cached, source, published, target>> /\ run' = [run EXCEPT ![r] = new]
        /\ rows'[e].state # "current"
    BY <1>3, <2>3
  <2> HIDE DEF intent, new, State, Condition
  <2> QED BY <1>4, <1>5, <1>10, <2>1, <2>2, <2>3, <2>4, RowFrame

(* A mapped event that changed or was cancelled: if the run knows the      *)
(* stored row, its copy is the only one and nobody else has a call for it. *)
LEMMA ChangeCopyInv ==
    ASSUME IInv, NEW r \in Runs, NEW e \in Events, ChangeCopy(r, e)
    PROVE  IInv'
<1> DEFINE m == run[r].rows[e]
           n == State(r, e)
           kind == IF n = Cancelled THEN "delete" ELSE "update"
<1>1. /\ run[r].pc = "working" /\ n # None /\ m.state = "current"
      /\ BeginMutation(r, e, m, kind, m.copy, n)
  BY DEF ChangeCopy, Working, State, Known
<1>2. Unchanged(e, m) /\ m # NoRow
  BY <1>1 DEF BeginMutation, Swaps, NoRow
<1>3. m = rows[e]
  BY <1>2 DEF IInv, RowsAreRemembered, Remembers
<1> HIDE DEF m, kind
<1>4. Shows(rows[e].copy, e, rows[e].hash, rows[e].etag)
  BY <1>1, <1>3 DEF IInv, CurrentRowsShow
<1>5. CallsOf(e) = {}
  BY <1>1, <1>3, PendingStates DEF IInv, Typed, Call, CallsOf, CallsAreIntended
<1>6. Live(e) \subseteq {rows[e].copy}
  BY <1>1, <1>3 DEF IInv, LiveCopiesAreKnown, Live
<1>7. \A s \in Runs \ {r} : MaySend(run[s]) => run[s].event # e
  <2> SUFFICES ASSUME NEW s \in Runs, MaySend(run[s]), run[s].event = e PROVE FALSE
    OBVIOUS
  <2>1. Unchanged(e, run[s].row) /\ Works(run[s])
    BY DEF IInv, OwnIntentIsAlone, Alone, WorkIsKnown
  <2> QED BY <1>1, <1>3, <2>1 DEF Works, MaySend, Busy
<1>8. Confirmed(rows[e].copy, Condition(rows[e])) /\ rows[e].copy \in Copies /\ copies[rows[e].copy].event = e
  BY <1>4 DEF Shows, Confirmed, Condition
<1>9. kind \in {"update", "delete"} /\ (kind = "delete" <=> n = Cancelled)
  BY DEF kind
<1>10. rows[e] # NoRow /\ BeginMutation(r, e, rows[e], kind, rows[e].copy, State(r, e))
  BY <1>1, <1>2, <1>3
<1> QED BY <1>1, <1>5, <1>6, <1>7, <1>8, <1>9, <1>10, BeginMutationInv

(* A copy found by its marker that is not what the source shows.           *)
LEMMA RepairCopyInv ==
    ASSUME IInv, NEW r \in Runs, RepairCopy(r)
    PROVE  IInv'
<1> DEFINE e == run[r].event
           m == run[r].row
           n == State(r, e)
           kind == IF n = Cancelled THEN "delete" ELSE "update"
<1>1. PICK k \in Marked(e) : BeginMutation(r, e, m, kind, k, n)
  BY DEF RepairCopy
<1>2. run[r].pc = "lookup" /\ ~cached
  BY DEF RepairCopy
<1>3. /\ e \in Events /\ n # None /\ m.state = "pending_create"
      /\ Unchanged(e, m) => rows[e] = m
  BY <1>2 DEF IInv, WorkIsKnown, Works, Busy, State
<1>4. m = rows[e] /\ m # NoRow
  BY <1>1, <1>3 DEF BeginMutation, Swaps, NoRow
<1>5. k \in Copies /\ copies[k].event = e /\ copies[k].live
  BY <1>1 DEF Marked
<1>6. Live(e) \subseteq {k}
  BY <1>5 DEF IInv, CopiesAreSingle, Live
<1>7. CallsOf(e) = {}
  <2> SUFFICES ASSUME NEW c \in calls, c.event = e PROVE FALSE
    BY DEF CallsOf
  <2>1. c.kind = "create"
    BY <1>3, <1>4, PendingStates DEF IInv, CallsAreIntended, Typed, Call
  <2> QED BY <1>5, <2>1 DEF IInv, CallsAreDue, Due, Live
<1>8. \A s \in Runs \ {r} : MaySend(run[s]) => run[s].event # e
  BY <1>5 DEF IInv, OwnIntentIsAlone, Alone, Live
<1>9. kind \in {"update", "delete"} /\ (kind = "delete" <=> n = Cancelled)
  OBVIOUS
<1>10. Confirmed(k, Condition(rows[e]))
  BY <1>2 DEF Confirmed
<1> HIDE DEF e, m, n, kind
<1>11. BeginMutation(r, e, rows[e], kind, k, State(r, e))
  BY <1>1, <1>4 DEF n
<1>12. run[r].pc # "waiting" /\ State(r, e) # None /\ (kind = "delete" <=> State(r, e) = Cancelled)
  BY <1>2, <1>3, <1>9 DEF n
<1> QED BY <1>3, <1>4, <1>5, <1>6, <1>7, <1>8, <1>9, <1>10, <1>11, <1>12, BeginMutationInv

(* Recording an answer: the outcome is true, and whoever else remembers    *)
(* the row will not find it again.                                         *)
LEMMA CompleteInv ==
    ASSUME IInv, NEW r \in Runs, Complete(r)
    PROVE  IInv'
<1> DEFINE e == run[r].event
           m == run[r].row
           n == run[r].list[e]
           outcome == IF n = Cancelled THEN NoRow
                      ELSE [m EXCEPT !.state = "current", !.hash = n, !.ver = @ + 1]
           new == [run[r] EXCEPT !.pc = "working", !.list[e] = None, !.rows[e] = NoRow,
                                 !.event = None, !.row = NoRow, !.own = FALSE]
<1>0. run[r] \in Locals /\ rows \in [Events -> Row] /\ inserted \in [Events -> Nat]
  BY DEF IInv, Typed
<1>1. /\ run[r].pc = "answered" /\ Unchanged(e, m)
      /\ rows' = [rows EXCEPT ![e] = outcome] /\ inserted' = inserted
      /\ run' = [run EXCEPT ![r] = new] /\ calls' = calls
      /\ UNCHANGED <<cached, source, published, target>>
  BY DEF Complete, HasAnswer, State, Removes, Swaps, Done
<1>2. e \in Events /\ n # None /\ MayRecord(run[r]) /\ m \in Row
  BY <1>0, <1>1 DEF IInv, WorkIsKnown, Works, Busy, MayRecord, Locals
<1>3. /\ CallsOf(e) = {} /\ Live(e) \subseteq {m.copy}
      /\ n = Cancelled => Live(e) = {}
      /\ n # Cancelled => Shows(m.copy, e, n, m.etag)
  BY <1>2 DEF IInv, AnswersAreTrue, Answer
<1>4. n # Cancelled => n \in Contents
  BY <1>0, <1>2 DEF Locals
<1>5. n # Cancelled => /\ outcome.state = "current" /\ outcome.hash = n /\ outcome.ver = m.ver + 1
                       /\ outcome.inc = m.inc /\ outcome.copy = m.copy /\ outcome.etag = m.etag
  BY <1>2 DEF Row
<1>6. outcome \in Row
  <2>1. ASSUME NEW ver \in Nat, NEW hash \in Contents
        PROVE  [m EXCEPT !.state = "current", !.hash = hash, !.ver = ver] \in Row
    BY <1>2 DEF Row, RowStates
  <2>2. m.ver + 1 \in Nat
    BY <1>2 DEF Row
  <2> QED BY <1>4, <2>1, <2>2, NoRowTyped
<1>7. new \in Locals /\ new.pc = "working"
  BY <1>0, <1>2, NoRowTyped DEF Locals
<1>8. \A f \in Events : new.rows[f] \in {run[r].rows[f], NoRow} /\ new.list[f] \in {run[r].list[f], None}
  BY <1>0, <1>2 DEF Locals
<1>9. Lists(new)
  BY <1>8 DEF IInv, ListsArePublished, Lists
<1>10. n = Cancelled => outcome = NoRow
  OBVIOUS
<1> HIDE DEF outcome, new
<1>11. rows'[e] = outcome
  BY <1>0, <1>1, <1>2
<1>12. RowMoves(e)
  <2>1. NoRow.state = "none"
    BY DEF NoRow
  <2> QED BY <1>0, <1>1, <1>2, <1>5, <1>6, <1>10, <1>11, <2>1 DEF RowMoves, Unchanged
<1>13. \A s \in Runs \ {r} : MaySend(run[s]) => run[s].event # e
  BY <1>2 DEF IInv, OwnIntentIsAlone, Alone
<1>14. /\ rows'[e].state = "current" =>
              rows'[e].hash # None /\ Shows(rows'[e].copy, e, rows'[e].hash, rows'[e].etag)
       /\ \A k \in Live(e) : rows'[e].copy = k
  <2>1. CASE n = Cancelled
    BY <1>3, <1>10, <1>11, <2>1 DEF NoRow
  <2>2. CASE n # Cancelled
    BY <1>2, <1>3, <1>5, <1>11, <2>2
  <2> QED BY <2>1, <2>2
<1>15. run[r].pc # "waiting" /\ new.pc \notin Busy /\ calls' = calls \cup {}
  BY <1>1, <1>7 DEF Busy
<1>16. {} \in SUBSET Call /\ new.pc # "answered" /\ new.pc # "lookup"
  BY <1>7
<1> HIDE DEF e, m, n
<1> QED BY <1>1, <1>2, <1>3, <1>7, <1>8, <1>9, <1>12, <1>13, <1>14, <1>15, <1>16, RowFrame

-----------------------------------------------------------------------------
(* Calls.                                                                  *)

(* Sending a create: the run that wrote the intent is alone with it.       *)
LEMMA CreateCopyInv ==
    ASSUME IInv, NEW r \in Runs, CreateCopy(r)
    PROVE  IInv'
<1> DEFINE e == run[r].event
           n == State(r, e)
           new == [run[r] EXCEPT !.pc = "waiting"]
<1>1. PICK call : /\ call = [run |-> r, kind |-> "create", event |-> e, copy |-> run[r].row.copy, hash |-> n,
                             etag |-> Condition(run[r].row)]
                  /\ calls' = calls \cup {call}
  BY DEF CreateCopy, Sends
<1>2. /\ run[r].pc = "lookup" /\ n # Cancelled /\ MaySend(run[r]) /\ run' = [run EXCEPT ![r] = new]
      /\ UNCHANGED <<cached, source, published, mappings, target>>
  BY DEF CreateCopy, MayCreate, MaySend
<1>3. run[r] \in Locals /\ run[r].row \in Row
  BY DEF IInv, Typed, Locals
<1>4. /\ new \in Locals /\ new.pc = "waiting" /\ new.event = e /\ new.list = run[r].list
      /\ new.row = run[r].row /\ new.rows = run[r].rows
  BY <1>3 DEF Locals, Busy
<1> HIDE DEF new
<1>5. e \in Events /\ n # None /\ run[r].row.state = "pending_create" /\ Past(e, run[r].row)
  BY <1>2 DEF IInv, WorkIsKnown, Works, Busy, State
<1>6. /\ Unchanged(e, run[r].row) /\ Live(e) = {} /\ CallsOf(e) = {}
      /\ \A s \in Runs \ {r} : run[s].event = e => ~MaySend(run[s]) /\ ~MayRecord(run[s])
  BY <1>2 DEF IInv, OwnIntentIsAlone, Alone
<1>7. rows[e].state = "pending_create"
  BY <1>2, <1>5, <1>6 DEF IInv, WorkIsKnown, Works, Busy
<1>8. call \in Call /\ n \in published[e] /\ n = run[r].list[e]
  BY <1>1, <1>3, <1>5 DEF Call, Locals, Row, State, Condition, IInv, ListsArePublished, Lists
<1>9. run'[r] = new /\ \A s \in Runs \ {r} : run'[s] = run[s]
  BY <1>2 DEF IInv, Typed
<1>10. UNCHANGED <<cached, source, published, rows, inserted, copies, edits>>
  BY <1>2 DEF mappings, target
<1> HIDE DEF e, n
<1>11. Typed'
  BY <1>1, <1>2, <1>4, <1>8, <1>10 DEF IInv, Typed
<1>12. RowsAreNumbered' /\ CopiesAreSingle' /\ CurrentRowsShow' /\ LiveCopiesAreKnown'
  BY <1>10 DEF IInv, RowsAreNumbered, CopiesAreSingle, CurrentRowsShow, LiveCopiesAreKnown, Shows, Confirmed
<1>13. RowsAreRemembered'
  BY <1>4, <1>9, <1>10 DEF IInv, RowsAreRemembered, Remembers, Past, Unchanged
<1>14. WorkIsKnown'
  BY <1>2, <1>4, <1>9, <1>10 DEF IInv, WorkIsKnown, Works, Past, Unchanged, Busy, e
<1>15. ListsArePublished'
  BY <1>1, <1>4, <1>8, <1>9, <1>10 DEF IInv, ListsArePublished, Lists
<1>16. \A f \in Events \ {e} : CallsOf(f)' = CallsOf(f)
  BY <1>1 DEF CallsOf
<1>17. OwnIntentIsAlone'
  <2> SUFFICES ASSUME NEW s \in Runs, MaySend(run[s])' PROVE Alone(s)'
    BY DEF OwnIntentIsAlone, Alone
  <2>1. s # r /\ MaySend(run[s]) /\ run'[s] = run[s] /\ Alone(s)
    BY <1>4, <1>9 DEF MaySend, IInv, OwnIntentIsAlone
  <2>2. run[s].event \in Events \ {e}
    BY <1>6, <2>1 DEF IInv, WorkIsKnown, Works, Busy, MaySend
  <2>3. \A q \in Runs : MayRecord(run[q])' => MayRecord(run[q]) /\ run'[q] = run[q]
    BY <1>4, <1>9, <1>10 DEF MayRecord, Unchanged
  <2>4. \A q \in Runs : MaySend(run[q])' => MaySend(run[q]) /\ run'[q] = run[q]
    BY <1>4, <1>9, <1>10 DEF MaySend
  <2>5. Unchanged(run[s].event, run[s].row)' /\ Live(run[s].event)' = {} /\ CallsOf(run[s].event)' = {}
    BY <1>10, <1>16, <2>1, <2>2 DEF Alone, Unchanged, Live
  <2> QED BY <2>1, <2>3, <2>4, <2>5 DEF Alone
<1>18. CallsAreDue'
  <2> SUFFICES ASSUME NEW c \in calls' PROVE Due(c)'
    BY DEF CallsAreDue
  <2>1. CASE c = call
    BY <1>1, <1>2, <1>4, <1>6, <1>8, <1>9, <1>10, <2>1 DEF Due, Live, e
  <2>2. CASE c \in calls
    <3>1. Due(c) /\ c \in Call
      BY <2>2 DEF IInv, CallsAreDue, Typed
    <3>2. c.run # None => c.run \in Runs \ {r}
      BY <1>2, <3>1 DEF Due, Call
    <3> QED BY <1>9, <1>10, <3>1, <3>2 DEF Due, Live, Confirmed
  <2> QED BY <1>1, <2>1, <2>2
<1>19. AnswersAreTrue'
  <2> SUFFICES ASSUME NEW s \in Runs, MayRecord(run[s])' PROVE Answer(run[s])'
    BY DEF AnswersAreTrue, Answer
  <2>1. s # r /\ run'[s] = run[s] /\ MayRecord(run[s])
    BY <1>4, <1>9, <1>10 DEF MayRecord, Unchanged
  <2>2. Answer(run[s]) /\ run[s].event \in Events \ {e}
    BY <1>6, <2>1 DEF IInv, AnswersAreTrue, WorkIsKnown, Works, Busy, MayRecord
  <2> QED BY <1>10, <1>16, <2>1, <2>2 DEF Answer, Live, Shows, Confirmed
<1>20. CallsAreIntended'
  BY <1>1, <1>6, <1>7, <1>10, PendingStates DEF IInv, CallsAreIntended, CallsOf
<1> QED BY <1>11, <1>12, <1>13, <1>14, <1>15, <1>17, <1>18, <1>19, <1>20 DEF IInv

(* The provider executes a call for its event's only copy, which the       *)
(* waiting run may learn of.                                               *)
LEMMA CallFrame ==
    ASSUME IInv, NEW c \in calls, NEW k \in Copies, NEW copy \in Copy, Executes(c, k, copy),
           copies[k].event \in {c.event, None}, Live(c.event) \subseteq {k},
           c.kind # "create" => k = c.copy,
           copy.event = c.event, copy.hash # None,
           copy.live <=> c.hash # Cancelled,
           copy.live => copy.hash = c.hash /\ copy.etag >= 1 /\ ~copy.edited,
           cached /\ copy.edited => copy.hash = Foreign
    PROVE  IInv'
<1> DEFINE e == c.event
           s == c.run
<1>0. c \in Call /\ Due(c) /\ e \in Events /\ k # None
  BY MappingConstants DEF IInv, Typed, Call, CallsAreDue
<1>1. /\ copies' = [copies EXCEPT ![k] = copy] /\ calls' = calls \ {c}
      /\ UNCHANGED <<cached, source, published, rows, inserted, edits>>
  BY DEF Executes, mappings
<1>2. copies'[k] = copy /\ \A l \in Copies \ {k} : copies'[l] = copies[l]
  BY <1>1 DEF IInv, Typed
<1>3. \/ UNCHANGED run
      \/ /\ s \in Runs /\ run' = [run EXCEPT ![s] =
                [run[s] EXCEPT !.pc = "answered", !.row = [run[s].row EXCEPT !.copy = k, !.etag = copy.etag]]]
  <2>1. \/ UNCHANGED run
        \/ /\ s # None
           /\ run' = [run EXCEPT ![s].pc = "answered", ![s].row = [@ EXCEPT !.copy = k, !.etag = copies'[k].etag]]
    BY DEF Executes, Answered
  <2>2. s # None => s \in Runs
    BY <1>0 DEF Call
  <2> QED BY <1>2, <2>1, <2>2 DEF IInv, Typed
<1>4. \A q \in Runs : run[q] \in Locals /\ run[q].row \in Row
  BY DEF IInv, Typed, Locals
<1>5. s \in Runs => s # None /\ run[s].pc = "waiting" /\ run[s].event = e /\ run[s].list[e] = c.hash
  BY <1>0, MappingConstants DEF Due
(* The run that gets the answer is the only one whose locals change.       *)
<1>6. ASSUME NEW q \in Runs
      PROVE  \/ run'[q] = run[q]
             \/ /\ q = s /\ run'[q].pc = "answered" /\ run'[q] \in Locals
                /\ run'[q].event = run[q].event /\ run'[q].list = run[q].list /\ run'[q].rows = run[q].rows
                /\ run'[q].row.inc = run[q].row.inc /\ run'[q].row.ver = run[q].row.ver
                /\ run'[q].row.copy = k /\ run'[q].row.etag = copy.etag
  <2>1. CASE UNCHANGED run
    BY <2>1
  <2>2. CASE q # s
    BY <1>3, <2>2 DEF IInv, Typed
  <2>3. CASE q = s /\ run' # run
    <3> DEFINE row == [run[q].row EXCEPT !.copy = k, !.etag = copy.etag]
    <3>1. /\ row \in Row /\ row.inc = run[q].row.inc /\ row.ver = run[q].row.ver
          /\ row.copy = k /\ row.etag = copy.etag
      BY <1>4 DEF Row, Copy
    <3> HIDE DEF row
    <3>2. run'[q] = [run[q] EXCEPT !.pc = "answered", !.row = row]
      BY <1>3, <2>3 DEF IInv, Typed, row
    <3>3. run[q] \in Locals
      BY DEF IInv, Typed
    <3>4. run'[q] \in Locals
      BY <3>1, <3>2, <3>3, "answered" \in Busy DEF Locals, Busy
    <3>5. /\ run'[q].pc = "answered" /\ run'[q].event = run[q].event
          /\ run'[q].list = run[q].list /\ run'[q].rows = run[q].rows /\ run'[q].row = row
      BY <3>2, <3>3 DEF Locals
    <3> QED BY <2>3, <3>1, <3>4, <3>5
  <2> QED BY <2>1, <2>2, <2>3
<1>7. Typed'
  BY <1>1, <1>3, <1>4, <1>6 DEF IInv, Typed
<1>8. RowsAreNumbered'
  BY <1>1 DEF IInv, RowsAreNumbered
<1>9. RowsAreRemembered' /\ ListsArePublished'
  BY <1>1, <1>6 DEF IInv, RowsAreRemembered, Remembers, Past, Unchanged, ListsArePublished, Lists
<1>10. WorkIsKnown'
  <2> SUFFICES ASSUME NEW q \in Runs PROVE Works(run[q])'
    BY DEF WorkIsKnown
  <2>1. Works(run[q])
    BY DEF IInv, WorkIsKnown
  <2> QED BY <1>1, <1>5, <1>6, <2>1 DEF Works, Past, Unchanged, Busy
<1>11. \A f \in Events \ {e} : Live(f)' = Live(f) /\ CallsOf(f)' = CallsOf(f)
  BY <1>0, <1>1, <1>2, MappingConstants DEF Live, CallsOf
<1>12. CallsOf(e)' = {} /\ c \in CallsOf(e)
  BY <1>0, <1>1 DEF CallsOf, IInv, CallsAreIntended
<1>13. \A q \in Runs : MaySend(run[q]) \/ MayRecord(run[q]) => run[q].event \in Events \ {e}
  BY <1>12 DEF IInv, OwnIntentIsAlone, Alone, AnswersAreTrue, Answer, WorkIsKnown, Works, Busy, MaySend, MayRecord
<1>14. OwnIntentIsAlone'
  <2> SUFFICES ASSUME NEW q \in Runs, MaySend(run[q])' PROVE Alone(q)'
    BY DEF OwnIntentIsAlone, Alone
  <2>1. MaySend(run[q]) /\ run'[q] = run[q] /\ Alone(q)
    BY <1>6 DEF MaySend, IInv, OwnIntentIsAlone
  <2>2. run[q].event \in Events \ {e}
    BY <1>13, <2>1
  <2>3. Unchanged(run[q].event, run[q].row)' /\ Live(run[q].event)' = {} /\ CallsOf(run[q].event)' = {}
    BY <1>1, <1>11, <2>1, <2>2 DEF Alone, Unchanged
  <2>4. ASSUME NEW p \in Runs \ {q}, run'[p].event = run[q].event PROVE ~MaySend(run[p])' /\ ~MayRecord(run[p])'
    <3>1. p = s => run[p].event = e
      BY <1>5
    <3>2. run'[p] = run[p]
      BY <1>6, <2>2, <2>4, <3>1
    <3> QED BY <1>1, <2>1, <2>4, <3>2 DEF Alone, MaySend, MayRecord, Unchanged
  <2> QED BY <2>1, <2>3, <2>4 DEF Alone
<1>15. CopiesAreSingle'
  <2>1. \A l \in Copies \ {k} : copies[l].live => copies[l].event # e
    BY DEF Live
  <2>2. copies' \in [Copies -> Copy] /\ cached' = cached
    BY <1>1, <1>7 DEF Typed
  <2>3. copies'[k].live => copies'[k].event # None /\ copies'[k].hash # None /\ copies'[k].etag >= 1
    BY <1>0, <1>2, MappingConstants
  <2>4. \A i, j \in Copies : copies'[i].live /\ copies'[j].live /\ copies'[i].event = copies'[j].event => i = j
    BY <1>2, <2>1 DEF IInv, CopiesAreSingle
  <2>5. \A l \in Copies : cached' /\ copies'[l].edited => copies'[l].hash = Foreign
    BY <1>2, <2>2 DEF IInv, CopiesAreSingle
  <2>6. \A l \in Copies \ {k} : copies'[l].live =>
            copies'[l].event # None /\ copies'[l].hash # None /\ copies'[l].etag >= 1
    BY <1>2 DEF IInv, CopiesAreSingle
  <2> QED BY <2>3, <2>4, <2>5, <2>6 DEF CopiesAreSingle
<1>16. ASSUME NEW f \in Events \ {e}, NEW l, NEW hash, NEW etag, Shows(l, f, hash, etag)
       PROVE  Shows(l, f, hash, etag)'
  <2>1. l \in Copies \ {k}
    BY <1>0, <1>16, MappingConstants DEF Shows
  <2> QED BY <1>1, <1>2, <1>16, <2>1 DEF Shows, Confirmed
<1>17. CurrentRowsShow'
  <2> SUFFICES ASSUME NEW f \in Events, rows[f].state = "current"
               PROVE  rows[f].hash # None /\ Shows(rows[f].copy, f, rows[f].hash, rows[f].etag)'
    BY <1>1 DEF CurrentRowsShow, Shows, Confirmed
  <2>1. f # e
    BY <1>0, PendingStates DEF IInv, CallsAreIntended, Call
  <2>2. PICK m : m = rows[f] /\ m = rows'[f]
    BY <1>1
  <2>3. m.hash # None /\ Shows(m.copy, f, m.hash, m.etag)
    BY <2>2 DEF IInv, CurrentRowsShow
  <2>4. Shows(m.copy, f, m.hash, m.etag)'
    BY <1>16, <2>1, <2>3
  <2> QED BY <2>2, <2>3, <2>4
<1>18. CallsAreDue'
  <2> SUFFICES ASSUME NEW d \in calls, d # c PROVE Due(d)'
    BY <1>1 DEF CallsAreDue
  <2>1. Due(d) /\ d \in Call /\ d.event \in Events \ {e}
    BY DEF IInv, CallsAreDue, Typed, Call, CallsAreIntended
  <2>2. d.run # None => d.run \in Runs \ {s} /\ run'[d.run] = run[d.run]
    BY <1>5, <1>6, <2>1 DEF Due, Call
  <2>3. d.kind # "create" => d.copy \in Copies \ {k} /\ copies'[d.copy] = copies[d.copy]
    BY <1>2, <2>1, MappingConstants DEF Due
  <2> QED BY <1>1, <1>11, <2>1, <2>2, <2>3 DEF Due, Confirmed
<1>19. AnswersAreTrue'
  <2> SUFFICES ASSUME NEW q \in Runs, MayRecord(run[q])' PROVE Answer(run[q])'
    BY DEF AnswersAreTrue, Answer
  <2>1. CASE run'[q] = run[q]
    <3>1. MayRecord(run[q]) /\ Answer(run[q]) /\ run[q].event \in Events \ {e}
      BY <1>1, <1>13, <2>1 DEF MayRecord, Unchanged, IInv, AnswersAreTrue
    <3> QED BY <1>1, <1>11, <1>16, <2>1, <3>1 DEF Answer
  <2>2. CASE run'[q] # run[q]
    <3>1. /\ q = s /\ run'[q].event = e /\ run'[q].list[e] = c.hash
          /\ run'[q].row.copy = k /\ run'[q].row.etag = copy.etag
      BY <1>5, <1>6, <2>2
    <3>2. rows[e].state # "current"
      BY <1>0, PendingStates DEF IInv, CallsAreIntended, Call
    <3>3. Live(e)' = IF copy.live THEN {k} ELSE {}
      BY <1>2 DEF Live
    <3>4. c.hash # Cancelled => Shows(k, e, c.hash, copy.etag)'
      BY <1>1, <1>2 DEF Shows, Confirmed, Copy
    <3> QED BY <1>1, <1>12, <3>1, <3>2, <3>3, <3>4 DEF Answer
  <2> QED BY <2>1, <2>2
<1>20. CallsAreIntended'
  BY <1>1 DEF IInv, CallsAreIntended
<1>21. LiveCopiesAreKnown'
  <2>1. rows[e].state = "pending_create" \/ rows[e].copy = k
    BY <1>0, PendingStates DEF IInv, CallsAreIntended
  <2> QED BY <1>1, <1>2, <2>1 DEF IInv, LiveCopiesAreKnown
<1> QED BY <1>7, <1>8, <1>9, <1>10, <1>14, <1>15, <1>17, <1>18, <1>19, <1>20, <1>21 DEF IInv

(* A create is executed while nothing of its event exists.                 *)
LEMMA ExecuteCreateInv ==
    ASSUME IInv, NEW c \in calls, ExecuteCreate(c)
    PROVE  IInv'
<1>1. PICK k \in Copies, visible \in BOOLEAN :
            /\ copies[k] = NoCopy
            /\ Executes(c, k, [event |-> c.event, hash |-> c.hash, live |-> TRUE,
                               visible |-> visible, edited |-> FALSE, etag |-> 1])
  BY DEF ExecuteCreate
<1>2. PICK copy : copy = [event |-> c.event, hash |-> c.hash, live |-> TRUE,
                          visible |-> visible, edited |-> FALSE, etag |-> 1]
  OBVIOUS
<1>3. c.kind = "create" /\ c \in Call /\ Due(c)
  BY DEF ExecuteCreate, IInv, Typed, CallsAreDue
<1>4. c.hash # Cancelled /\ Live(c.event) = {} /\ c.hash # None
  BY <1>3, MappingConstants DEF Due, Call, States
<1>5. copy \in Copy
  BY <1>2, <1>3, <1>4 DEF Call, Copy
<1>6. copies[k].event = None
  BY <1>1 DEF NoCopy
<1>7. Executes(c, k, copy)
  BY <1>1, <1>2
<1> QED BY <1>2, <1>3, <1>4, <1>5, <1>6, <1>7, CallFrame

(* What an update or deletion makes of a copy.                             *)
LEMMA ChangedCopy ==
    ASSUME IInv, NEW c \in calls, ExecuteChange(c)
    PROVE  \E copy \in Copy :
            /\ Executes(c, c.copy, copy) /\ c.copy \in Copies /\ copies[c.copy].live
            /\ copies[c.copy].event = c.event /\ copy.event = c.event /\ copy.hash # None
            /\ copy.live <=> c.hash # Cancelled
            /\ copy.live => copy.hash = c.hash /\ copy.etag >= 1 /\ ~copy.edited
            /\ copy.edited => copies[c.copy].edited /\ copy.hash = copies[c.copy].hash
            /\ cached => ~copies[c.copy].edited
<1> DEFINE k == c.copy
           hash == IF c.kind = "update" THEN c.hash ELSE copies[k].hash
           etag == IF cached THEN copies[k].etag + 1 ELSE copies[k].etag
<1>1. /\ c.kind \in {"update", "delete"} /\ copies[k].live
      /\ c.etag # 0 => c.etag = copies[k].etag
      /\ Executes(c, k, [copies[k] EXCEPT !.hash = IF c.kind = "update" THEN c.hash ELSE @,
                                          !.live = c.kind = "update", !.edited = @ /\ c.kind = "delete",
                                          !.etag = IF cached THEN @ + 1 ELSE @])
  BY DEF ExecuteChange
<1>2. c \in Call /\ Due(c)
  BY DEF IInv, Typed, CallsAreDue
<1>3. /\ k \in Copies /\ copies[k].event = c.event /\ Confirmed(k, c.etag)
      /\ c.kind = "delete" <=> c.hash = Cancelled
  BY <1>1, <1>2 DEF Due
<1>4. copies[k] \in Copy /\ copies[k].hash # None /\ copies[k].etag >= 1
  BY <1>1, <1>3 DEF IInv, Typed, CopiesAreSingle
<1>5. PICK copy : copy = [copies[k] EXCEPT !.hash = hash, !.live = c.kind = "update",
                                           !.edited = @ /\ c.kind = "delete", !.etag = etag]
  OBVIOUS
<1>6. /\ hash \in Contents \cup {Foreign} /\ etag \in Nat /\ etag >= 1
      /\ c.kind = "update" => hash = c.hash
      /\ c.kind = "delete" => hash = copies[k].hash
  BY <1>1, <1>2, <1>3, <1>4 DEF Copy, Call
<1>7. Executes(c, k, copy)
  BY <1>1, <1>5
<1>8. cached => ~copies[k].edited
  BY <1>1, <1>2, <1>3, <1>4 DEF Confirmed, Call, Copy
<1> HIDE DEF hash, etag
<1>9. /\ copy \in Copy /\ copy.event = copies[k].event /\ copy.hash = hash /\ copy.live = (c.kind = "update")
      /\ copy.edited = (copies[k].edited /\ c.kind = "delete") /\ copy.etag = etag
  BY <1>4, <1>5, <1>6 DEF Copy
<1>10. hash # None
  BY <1>6, MappingConstants DEF States
<1> QED BY <1>1, <1>3, <1>6, <1>7, <1>8, <1>9, <1>10

(* An update or deletion meets the copy its row names, which is its        *)
(* event's only one.                                                       *)
LEMMA ExecuteChangeInv ==
    ASSUME IInv, NEW c \in calls, ExecuteChange(c)
    PROVE  IInv'
<1>1. PICK copy \in Copy :
            /\ Executes(c, c.copy, copy) /\ c.copy \in Copies /\ copies[c.copy].live
            /\ copies[c.copy].event = c.event /\ copy.event = c.event /\ copy.hash # None
            /\ copy.live <=> c.hash # Cancelled
            /\ copy.live => copy.hash = c.hash /\ copy.etag >= 1 /\ ~copy.edited
            /\ copy.edited => copies[c.copy].edited /\ copy.hash = copies[c.copy].hash
            /\ cached => ~copies[c.copy].edited
  BY ChangedCopy
<1>2. Live(c.event) \subseteq {c.copy}
  BY <1>1 DEF IInv, CopiesAreSingle, Live
<1>3. cached /\ copy.edited => copy.hash = Foreign
  BY <1>1
<1> QED BY <1>1, <1>2, <1>3, CallFrame

-----------------------------------------------------------------------------
(* Theorems.                                                               *)

(* Every step of the runs, the provider, the source and the target's user  *)
(* preserves the invariant.                                                *)
LEMMA NextInv == IInv /\ [Next]_vars => IInv'
<1> SUFFICES ASSUME IInv, [Next]_vars PROVE IInv'
  OBVIOUS
<1>1. ASSUME NEW e \in Events, SourceChange(e) PROVE IInv'
  BY <1>1, SourceChangeInv
<1>2. ASSUME NEW k \in Copies, UserEdit(k) \/ BecomesVisible(k) PROVE IInv'
  BY <1>2, OutsideInv
<1>3. ASSUME NEW r \in Runs, RunStep(r) PROVE IInv'
  BY <1>3, RunOnlyInv, ChangeCopyInv, CreateIntentInv, CreateCopyInv, RepairCopyInv, CompleteInv, FailInv
     DEF RunStep
<1>4. ASSUME NEW c \in calls, ExecuteCreate(c) \/ ExecuteChange(c) PROVE IInv'
  BY <1>4, ExecuteCreateInv, ExecuteChangeInv
<1>5. CASE UNCHANGED vars
  BY <1>5 DEF vars, IInv, Typed, RowsAreNumbered, RowsAreRemembered, Remembers, Past, Unchanged,
     ListsArePublished, Lists, WorkIsKnown, Works, OwnIntentIsAlone, Alone, MaySend, MayRecord, CallsOf, Live,
     CopiesAreSingle, CurrentRowsShow, Shows, Confirmed, CallsAreDue, Due, AnswersAreTrue, Answer,
     CallsAreIntended, LiveCopiesAreKnown
<1> QED BY <1>1, <1>2, <1>3, <1>4, <1>5 DEF Next

(* Every reachable state satisfies it.                                     *)
LEMMA Invariant == Spec => []IInv
BY InitInv, NextInv, PTL DEF Spec

(* For every call on the wire, however late, the event's row is in the     *)
(* matching pending state, names the call's copy, and there is no second   *)
(* call for the event.                                                     *)
THEOREM IntentBeforeCall == Spec => []CallsAreIntended
<1>1. IInv => CallsAreIntended
  BY DEF IInv
<1> QED BY <1>1, Invariant, PTL

(* No copy is left in the target that its event's row does not lead to.    *)
THEOREM NoCopyIsLost == Spec => []LiveCopiesAreKnown
<1>1. IInv => LiveCopiesAreKnown
  BY DEF IInv
<1> QED BY <1>1, Invariant, PTL

(* A current row is true: its copy shows the recorded content at the       *)
(* recorded version, or what the target's user made of it.                 *)
THEOREM CurrentIsTrue == Spec => []CurrentMappingsAreTrue
<1>1. IInv => CurrentMappingsAreTrue
  BY DEF IInv, CurrentRowsShow, Shows, CurrentMappingsAreTrue
<1> QED BY <1>1, Invariant, PTL

(* A cached copy the target's user has edited stays edited, and only the   *)
(* user changes or removes it: a call still on the wire asks for a version *)
(* that is gone.                                                           *)
LEMMA EditsStay ==
    IInv /\ [Next]_vars =>
        [\A k \in Copies : cached /\ copies[k].edited =>
            copies'[k].edited /\ (copies'[k] # copies[k] => edits' # edits \/ copies'[k].live)]_vars
<1> SUFFICES ASSUME IInv, Next, NEW k \in Copies, cached, copies[k].edited, copies'[k] # copies[k]
             PROVE  copies'[k].edited /\ (edits' # edits \/ copies'[k].live)
  OBVIOUS
<1>0. copies \in [Copies -> Copy] /\ copies[k] \in Copy /\ edits \in Nat
  BY DEF IInv, Typed
<1>1. ASSUME NEW e \in Events, SourceChange(e) PROVE FALSE
  BY <1>1 DEF SourceChange, target
<1>2. ASSUME NEW l \in Copies, UserEdit(l) PROVE copies'[k].edited /\ edits' # edits
  <2>1. k = l
    BY <1>0, <1>2 DEF UserEdit
  <2>2. copies'[k].edited
    BY <1>0, <1>2, <2>1 DEF UserEdit, Copy
  <2>3. edits' = edits + 1
    BY <1>2, Zenon DEF UserEdit
  <2> QED BY <1>0, <2>2, <2>3
<1>3. ASSUME NEW l \in Copies, BecomesVisible(l) PROVE copies'[k].edited /\ copies'[k].live
  BY <1>0, <1>3 DEF BecomesVisible, Copy
<1>4. ASSUME NEW r \in Runs, RunStep(r) PROVE FALSE
  <2>1. UNCHANGED copies
    BY <1>4 DEF RunStep, ListSource, ListMappings, Skip, ChangeCopy, CreateIntent, RecoverCreate, CreateCopy,
       AdoptCopy, RepairCopy, Complete, FinishRun, Fail, BeginMutation, target
  <2> QED BY <2>1
<1>5. ASSUME NEW c \in calls, ExecuteCreate(c) PROVE FALSE
  BY <1>0, <1>5 DEF ExecuteCreate, Executes, NoCopy
<1>6. ASSUME NEW c \in calls, ExecuteChange(c) PROVE FALSE
  <2>1. PICK copy \in Copy : Executes(c, c.copy, copy) /\ c.copy \in Copies /\ ~copies[c.copy].edited
    BY <1>6, ChangedCopy
  <2> QED BY <1>0, <2>1 DEF Executes
<1> QED BY <1>1, <1>2, <1>3, <1>4, <1>5, <1>6 DEF Next

(* What the target's user did to a cached copy survives every run and      *)
(* every late call.                                                        *)
THEOREM EditsSurvive == Spec => UserEditsSurvive
BY Invariant, EditsStay, PTL DEF Spec, UserEditsSurvive

-----------------------------------------------------------------------------
(* The engine implements Mirror.                                           *)

Shown(e) == {<<k, copies[k].hash>> : k \in Live(e)}
Mirrored == [e \in Events |-> Shown(e)]

(* A change of one event's copies is one step of its mirror.               *)
LEMMA MirrorMoves ==
    ASSUME NEW e \in Events, \A f \in Events \ {e} : Shown(f)' = Shown(f)
    PROVE  Mirrored' = [Mirrored EXCEPT ![e] = Shown(e)']
BY DEF Mirrored

(* Of the copies of other events nothing changes.                          *)
LEMMA OthersShown ==
    ASSUME IInv, NEW e \in Events, NEW k \in Copies, copies' = [copies EXCEPT ![k] = copies'[k]],
           copies[k].event \in {e, None}, copies'[k].event = e
    PROVE  \A f \in Events \ {e} : Shown(f)' = Shown(f)
<1> TAKE f \in Events \ {e}
<1>1. \A l \in Copies \ {k} : copies'[l] = copies[l]
  BY DEF IInv, Typed
<1>2. Live(f)' = Live(f) /\ k \notin Live(f)
  BY <1>1, MappingConstants DEF Live
<1>3. \A l \in Live(f) : l \in Copies \ {k}
  BY <1>2 DEF Live
<1> QED BY <1>1, <1>2, <1>3 DEF Shown

(* A live copy is all its event shows.                                     *)
LEMMA OneShown ==
    ASSUME IInv, NEW k \in Copies, copies[k].live
    PROVE  /\ copies[k].event \in Events /\ copies[k].hash \in Contents \cup {Foreign}
           /\ Live(copies[k].event) = {k} /\ Shown(copies[k].event) = {<<k, copies[k].hash>>}
<1>1. copies[k] \in Copy /\ copies[k].event # None /\ copies[k].hash # None
  BY DEF IInv, Typed, CopiesAreSingle
<1>2. Live(copies[k].event) = {k}
  BY DEF IInv, CopiesAreSingle, Live
<1> QED BY <1>1, <1>2 DEF Copy, Shown

(* The provider executes a create.                                         *)
LEMMA CreateIsMirrored ==
    ASSUME IInv, NEW c \in calls, ExecuteCreate(c)
    PROVE  M!Create(c.event) /\ c.event \in Events
<1> DEFINE e == c.event
<1>1. c \in Call /\ e \in Events /\ Due(c) /\ c.kind = "create" /\ c.hash \in published[e]
  BY DEF IInv, Typed, Call, CallsAreDue, ExecuteCreate, ListsArePublished
<1>2. PICK k \in Copies : /\ copies[k] = NoCopy /\ copies' = [copies EXCEPT ![k] = copies'[k]]
                          /\ copies'[k].event = e /\ copies'[k].hash = c.hash /\ copies'[k].live
                          /\ UNCHANGED <<published, edits>>
  <2>1. PICK k \in Copies, visible \in BOOLEAN :
            /\ copies[k] = NoCopy
            /\ Executes(c, k, [event |-> e, hash |-> c.hash, live |-> TRUE,
                               visible |-> visible, edited |-> FALSE, etag |-> 1])
    BY DEF ExecuteCreate
  <2>2. /\ copies' = [copies EXCEPT ![k] = [event |-> e, hash |-> c.hash, live |-> TRUE, visible |-> visible,
                                            edited |-> FALSE, etag |-> 1]]
        /\ UNCHANGED <<published, edits>>
    BY <2>1 DEF Executes
  <2> QED BY <2>1, <2>2 DEF IInv, Typed
<1>3. Live(e) = {} /\ c.hash # Cancelled
  BY <1>1 DEF Due
<1>4. Mirrored[e] = {}
  BY <1>1, <1>3 DEF Mirrored, Shown
<1>5. \A l \in Copies \ {k} : copies'[l] = copies[l]
  BY <1>2 DEF IInv, Typed
<1>6. Live(e)' = {k}
  BY <1>2, <1>3, <1>5 DEF Live
<1>7. Shown(e)' = {<<k, c.hash>>}
  BY <1>2, <1>6 DEF Shown
<1>8. copies[k].event = None
  BY <1>2 DEF NoCopy
<1>9. Mirrored' = [Mirrored EXCEPT ![e] = {<<k, c.hash>>}]
  BY <1>1, <1>2, <1>7, <1>8, OthersShown, MirrorMoves
<1> QED BY <1>1, <1>2, <1>3, <1>4, <1>9 DEF M!Create, M!Shows, Mirrored, Shown

(* The provider executes an update or a deletion.                          *)
LEMMA ChangeIsMirrored ==
    ASSUME IInv, NEW c \in calls, ExecuteChange(c)
    PROVE  c.event \in Events /\ (M!Update(c.event) \/ M!Delete(c.event))
<1> DEFINE e == c.event
           k == c.copy
<1>1. c \in Call /\ e \in Events /\ c.hash \in published[e]
  BY DEF IInv, Typed, Call, ListsArePublished
<1>2. PICK copy \in Copy :
            /\ Executes(c, k, copy) /\ k \in Copies /\ copies[k].live
            /\ copies[k].event = e /\ copy.event = e
            /\ copy.live <=> c.hash # Cancelled
            /\ copy.live => copy.hash = c.hash
  BY ChangedCopy
<1>3. copies'[k] = copy /\ copies' = [copies EXCEPT ![k] = copies'[k]] /\ UNCHANGED <<published, edits>>
  BY <1>2 DEF Executes, IInv, Typed
<1>4. /\ Shown(e) = {<<k, copies[k].hash>>} /\ copies[k].hash \in Contents \cup {Foreign} /\ Live(e) = {k}
  BY <1>2, OneShown
<1>5. \A l \in Copies \ {k} : copies'[l] = copies[l]
  BY <1>3 DEF IInv, Typed
<1>6. Live(e)' = IF copy.live THEN {k} ELSE {}
  BY <1>2, <1>3, <1>4, <1>5 DEF Live
<1>7. Shown(e)' = IF copy.live THEN {<<k, c.hash>>} ELSE {}
  BY <1>2, <1>3, <1>6 DEF Shown
<1>8. Mirrored' = [Mirrored EXCEPT ![e] = Shown(e)']
  BY <1>1, <1>2, <1>3, OthersShown, MirrorMoves
<1>9. CASE copy.live
  <2>1. PICK f, m, n : f = e /\ m = copies[k].hash /\ n = c.hash
    OBVIOUS
  <2>2. k \in Copies /\ m \in Contents \cup {Foreign} /\ n \in published[f] \ {Cancelled} /\ f \in Events
    BY <1>1, <1>2, <1>4, <1>9, <2>1
  <2>3. Mirrored[f] = {<<k, m>>}
    BY <1>1, <1>4, <2>1 DEF Mirrored
  <2>4. M!Shows(f, {<<k, n>>})
    BY <1>1, <1>3, <1>7, <1>8, <1>9, <2>1 DEF M!Shows, Mirrored, Shown
  <2>5. M!Update(f)
    BY <2>2, <2>3, <2>4 DEF M!Update, Mirrored, Shown
  <2> QED BY <2>1, <2>2, <2>5
<1>10. CASE ~copy.live
  BY <1>1, <1>2, <1>3, <1>7, <1>8, <1>10 DEF M!Delete, M!Shows, Mirrored, Shown
<1> QED BY <1>9, <1>10, Zenon

(* The target's user edits or removes a copy.                              *)
LEMMA EditIsMirrored ==
    ASSUME IInv, NEW k \in Copies, UserEdit(k)
    PROVE  \E e \in Events : M!UserChange(e)
<1> DEFINE e == copies[k].event
<1>1. /\ copies[k].live /\ edits' = edits + 1 /\ published' = published
      /\ copies' = [copies EXCEPT ![k] = copies'[k]] /\ copies'[k].event = e /\ copies'[k].hash = Foreign
  <2>1. copies[k].live /\ edits' = edits + 1 /\ published' = published
    BY Zenon DEF UserEdit
  <2>2. copies \in [Copies -> Copy] /\ copies[k] \in Copy
    BY DEF IInv, Typed
  <2> QED BY <2>1, <2>2 DEF UserEdit, Copy
<1>2. /\ e \in Events /\ copies[k].hash \in Contents \cup {Foreign}
      /\ Live(e) = {k} /\ Shown(e) = {<<k, copies[k].hash>>}
  BY <1>1, OneShown
<1> SUFFICES ASSUME NEW f \in Events, f = e PROVE M!UserChange(f)
  BY <1>2
<1>3. \A l \in Copies \ {k} : copies'[l] = copies[l]
  BY <1>1 DEF IInv, Typed
<1>4. Live(f)' \in {{}, {k}}
  BY <1>2, <1>3 DEF Live
<1>5. Shown(f)' \in {{}, {<<k, Foreign>>}}
  BY <1>1, <1>4 DEF Shown
<1>6. Mirrored' = [Mirrored EXCEPT ![f] = Shown(f)']
  BY <1>1, OthersShown, MirrorMoves
<1> QED BY <1>1, <1>2, <1>5, <1>6 DEF M!UserChange, Mirrored, Shown

(* Every step of the engine, the provider, the source and the user is one  *)
(* of Mirror's, or one Mirror does not see.                                *)
LEMMA MirrorStep ==
    IInv /\ [Next]_vars => [M!Next]_<<published, Mirrored, edits>>
<1> SUFFICES ASSUME IInv, [Next]_vars
             PROVE  M!Next \/ UNCHANGED <<published, Mirrored, edits>>
  BY DEF M!Next
<1>1. ASSUME NEW e \in Events, SourceChange(e) PROVE M!Publish
  <2>1. PICK n \in Contents \cup {Cancelled} : published' = [published EXCEPT ![e] = @ \cup {n}]
    BY <1>1 DEF SourceChange
  <2>2. UNCHANGED <<copies, edits>>
    BY <1>1 DEF SourceChange, target
  <2> QED BY <2>1, <2>2 DEF M!Publish, Live
<1>2. ASSUME NEW k \in Copies, UserEdit(k) PROVE \E e \in Events : M!UserChange(e)
  BY <1>2, EditIsMirrored
<1>3. ASSUME NEW k \in Copies, BecomesVisible(k) PROVE UNCHANGED <<published, Mirrored, edits>>
  <2>1. UNCHANGED <<published, edits>>
    BY <1>3 DEF BecomesVisible
  <2>2. \A l \in Copies : /\ copies'[l].event = copies[l].event /\ copies'[l].live = copies[l].live
                          /\ copies'[l].hash = copies[l].hash
    BY <1>3 DEF BecomesVisible, IInv, Typed, Copy
  <2>3. \A e \in Events : Live(e)' = Live(e)
    BY <2>2 DEF Live
  <2>4. \A e \in Events : Shown(e)' = Shown(e)
    BY <2>2, <2>3 DEF Shown, Live
  <2> QED BY <2>1, <2>4 DEF Mirrored
<1>4. ASSUME NEW r \in Runs, RunStep(r) PROVE UNCHANGED <<published, Mirrored, edits>>
  <2>1. UNCHANGED <<published, copies, edits>>
    BY <1>4 DEF RunStep, ListSource, ListMappings, Skip, ChangeCopy, CreateIntent, RecoverCreate, CreateCopy,
       AdoptCopy, RepairCopy, Complete, FinishRun, Fail, BeginMutation, target
  <2> QED BY <2>1 DEF Mirrored, Shown, Live
<1>5. ASSUME NEW c \in calls, ExecuteCreate(c) PROVE \E e \in Events : M!Create(e)
  BY <1>5, CreateIsMirrored
<1>6. ASSUME NEW c \in calls, ExecuteChange(c) PROVE \E e \in Events : M!Update(e) \/ M!Delete(e)
  BY <1>6, ChangeIsMirrored
<1>7. CASE UNCHANGED vars
  BY <1>7 DEF vars, Mirrored, Shown, Live
<1> QED BY <1>1, <1>2, <1>3, <1>4, <1>5, <1>6, <1>7 DEF Next, M!Next

(* The engine implements Mirror: an event never has two copies, a copy     *)
(* never shows what the source did not publish, and none is removed        *)
(* without a cancellation.                                                 *)
THEOREM MirrorImplemented == Spec => ImplementsMirror
<1>1. Init => M!Init
  BY DEF Init, M!Init, Live, NoCopy
<1>2. IInv /\ [Next]_vars => [M!Next]_<<published, [e \in Events |-> {<<k, copies[k].hash>> : k \in Live(e)}], edits>>
  BY MirrorStep DEF Mirrored, Shown
<1> QED BY <1>1, <1>2, Invariant, PTL DEF Spec, ImplementsMirror, M!Spec

-----------------------------------------------------------------------------
(* Types and bounds.                                                       *)
Bounds ==
    /\ edits <= MaxEdits
    /\ \A e \in Events : inserted[e] <= MaxRows /\ rows[e].ver <= MaxVersion

(* Insertions, swaps and removals stay within the bounds. *)
LEMMA RowBounds ==
    ASSUME Typed, Bounds, NEW e \in Events, NEW m \in Row, NEW old \in Row, edits' = edits,
           \/ Inserts(e, m) /\ m.ver = 1
           \/ Swaps(e, old, m) /\ m.ver = old.ver + 1
           \/ Removes(e, old)
    PROVE  Bounds'
<1> USE DEF Bounds, Typed
<1>1. NoRow.ver = 0
  BY DEF NoRow
<1>2. CASE Inserts(e, m) /\ m.ver = 1
  BY <1>2, MappingConstants DEF Inserts
<1>3. CASE Swaps(e, old, m) /\ m.ver = old.ver + 1
  <2>1. old.ver \in Nat
    BY DEF Row
  <2> QED BY <1>3, <2>1, MappingConstants DEF Swaps
<1>4. CASE Removes(e, old)
  BY <1>1, <1>4, MappingConstants DEF Removes
<1> QED BY <1>2, <1>3, <1>4

(* An intent is the next version of the row it replaces. *)
LEMMA IntentBounds ==
    ASSUME Typed, Bounds, NEW e \in Events, NEW r \in Runs, NEW m \in Row,
           NEW kind \in {"create", "update", "delete"}, NEW k \in Copies \cup {None}, NEW n,
           BeginMutation(r, e, m, kind, k, n)
    PROVE  Bounds'
<1>1. PICK intent : intent = [m EXCEPT !.state = Pending[kind], !.copy = k, !.ver = @ + 1]
  OBVIOUS
<1>2. intent \in Row /\ intent.ver = m.ver + 1
  <2>1. PICK state \in RowStates : state = Pending[kind]
    BY PendingStates DEF RowStates
  <2>2. PICK ver \in Nat : ver = m.ver + 1
    BY DEF Row
  <2>3. intent = [m EXCEPT !.state = state, !.copy = k, !.ver = ver]
    BY <1>1, <2>1, <2>2
  <2> QED BY <2>2, <2>3 DEF Row
<1>3. Swaps(e, m, intent) /\ edits' = edits
  BY <1>1 DEF BeginMutation, target
<1> QED BY <1>2, <1>3, RowBounds

(* Rows, copies, calls and runs keep their types, and a current row names  *)
(* a copy and a content.                                                   *)
THEOREM TypeCorrect == Spec => []TypeOK
<1>1. Init => Bounds
  BY MappingConstants DEF Init, Bounds, NoRow
<1>2. IInv /\ Bounds /\ [Next]_vars => Bounds'
  <2> SUFFICES ASSUME IInv, Bounds, [Next]_vars PROVE Bounds'
    OBVIOUS
  <2> USE DEF IInv
  <2>1. CASE UNCHANGED <<rows, inserted, edits>>
    BY <2>1 DEF Bounds
  <2>2. ASSUME NEW k \in Copies, UserEdit(k)
        PROVE  Bounds'
    BY <2>2, MappingConstants DEF UserEdit, Bounds, Typed, mappings
  <2>3. ASSUME NEW r \in Runs, NEW e \in Events, ChangeCopy(r, e)
        PROVE  Bounds'
    <3>1. Known(r, e) \in Row /\ Known(r, e).copy \in Copies \cup {None}
      BY DEF Known, Typed, Locals, Row
    <3>2. PICK kind \in {"create", "update", "delete"} :
            BeginMutation(r, e, Known(r, e), kind, Known(r, e).copy, State(r, e))
      BY <2>3 DEF ChangeCopy
    <3> QED BY <3>1, <3>2, IntentBounds
  <2>4. ASSUME NEW r \in Runs, NEW e \in Events, CreateIntent(r, e)
        PROVE  Bounds'
    <3>1. PICK intent : intent = [NoRow EXCEPT !.state = "pending_create",
                                               !.inc = inserted[e] + 1, !.ver = 1]
      OBVIOUS
    <3>2. intent \in Row /\ intent.ver = 1
      <4>1. inserted[e] + 1 \in Nat
        BY DEF Typed
      <4> QED BY <3>1, <4>1, NoRowTyped DEF Row, RowStates
    <3>3. Inserts(e, intent) /\ edits' = edits
      BY <2>4, <3>1 DEF CreateIntent, target
    <3> QED BY <3>2, <3>3, RowBounds
  <2>5. ASSUME NEW r \in Runs, RepairCopy(r)
        PROVE  Bounds'
    <3>1. run[r].event \in Events /\ run[r].row \in Row
      BY <2>5 DEF RepairCopy, WorkIsKnown, Works, Busy, Typed, Locals
    <3>2. PICK kind \in {"create", "update", "delete"}, k \in Copies :
            BeginMutation(r, run[r].event, run[r].row, kind, k, State(r, run[r].event))
      BY <2>5 DEF RepairCopy, Marked
    <3> QED BY <3>1, <3>2, IntentBounds
  <2>6. ASSUME NEW r \in Runs, Complete(r)
        PROVE  Bounds'
    <3>1. run[r].event \in Events /\ run[r].row \in Row /\ edits' = edits
      BY <2>6 DEF Complete, HasAnswer, WorkIsKnown, Works, Busy, Typed, Locals, target
    <3>2. CASE State(r, run[r].event) = Cancelled
      <4>1. Removes(run[r].event, run[r].row)
        BY <2>6, <3>2 DEF Complete
      <4> QED BY <3>1, <4>1, RowBounds
    <3>3. CASE State(r, run[r].event) # Cancelled
      <4>1. PICK new : new = [run[r].row EXCEPT !.state = "current", !.hash = State(r, run[r].event),
                                                !.ver = @ + 1]
        OBVIOUS
      <4>2. State(r, run[r].event) \in Contents
        BY <2>6, <3>1, <3>3 DEF Complete, HasAnswer, WorkIsKnown, Works, Busy, Typed, Locals, State
      <4>3. new \in Row /\ new.ver = run[r].row.ver + 1
        <5>1. PICK hash \in Contents : hash = State(r, run[r].event)
          BY <4>2
        <5>2. PICK ver \in Nat : ver = run[r].row.ver + 1
          BY <3>1 DEF Row
        <5>3. new = [run[r].row EXCEPT !.state = "current", !.hash = hash, !.ver = ver]
          BY <4>1, <5>1, <5>2
        <5> QED BY <3>1, <5>2, <5>3 DEF Row, RowStates
      <4>4. Swaps(run[r].event, run[r].row, new)
        BY <2>6, <3>3, <4>1 DEF Complete
      <4> QED BY <3>1, <4>3, <4>4, RowBounds
    <3> QED BY <3>2, <3>3
  <2>7. ASSUME NEW r \in Runs, RunStep(r)
        PROVE  \/ UNCHANGED <<rows, inserted, edits>>
               \/ \E e \in Events : ChangeCopy(r, e) \/ CreateIntent(r, e)
               \/ RepairCopy(r) \/ Complete(r)
    <3>1. \/ ListSource(r) \/ ListMappings(r) \/ FinishRun(r) \/ Fail(r)
          \/ CreateCopy(r) \/ AdoptCopy(r) \/ \E e \in Events : Skip(r, e) \/ RecoverCreate(r, e)
          \/ \E e \in Events : ChangeCopy(r, e) \/ CreateIntent(r, e)
          \/ RepairCopy(r) \/ Complete(r)
      BY <2>7 DEF RunStep
    <3>2. CASE ListSource(r) \/ ListMappings(r) \/ FinishRun(r) \/ Fail(r)
      BY <3>2 DEF ListSource, ListMappings, FinishRun, Fail, mappings, target
    <3>3. CASE CreateCopy(r) \/ AdoptCopy(r)
      BY <3>3 DEF CreateCopy, AdoptCopy, mappings, target
    <3>4. ASSUME NEW e \in Events, Skip(r, e) \/ RecoverCreate(r, e)
          PROVE  UNCHANGED <<rows, inserted, edits>>
      BY <3>4 DEF Skip, RecoverCreate, mappings, target
    <3> QED BY <3>1, <3>2, <3>3, <3>4
  <2>8. CASE UNCHANGED vars \/ \E e \in Events : SourceChange(e)
    BY <2>1, <2>8 DEF vars, SourceChange, target, mappings
  <2>9. ASSUME NEW k \in Copies, BecomesVisible(k)
        PROVE  Bounds'
    BY <2>1, <2>9 DEF BecomesVisible, mappings
  <2>10. ASSUME NEW c \in calls, ExecuteCreate(c) \/ ExecuteChange(c)
         PROVE  Bounds'
    BY <2>1, <2>10 DEF ExecuteCreate, ExecuteChange, Executes, mappings
  <2>11. ASSUME NEW r \in Runs, RunStep(r)
         PROVE  Bounds'
    BY <2>1, <2>3, <2>4, <2>5, <2>6, <2>7, <2>11
  <2> QED BY <2>2, <2>8, <2>9, <2>10, <2>11 DEF Next
<1>3. IInv /\ Bounds => TypeOK
  <2> SUFFICES ASSUME IInv, Bounds PROVE TypeOK
    OBVIOUS
  <2> USE DEF IInv
  <2>1. edits \in 0..MaxEdits /\ \A e \in Events : inserted[e] \in 0..MaxRows
    BY MappingConstants DEF Bounds, Typed
  <2>2. ASSUME NEW e \in Events
        PROVE  /\ rows[e].state \in RowStates
               /\ rows[e].inc \in 0..inserted[e] /\ rows[e].ver \in 0..MaxVersion
               /\ rows[e].copy \in Copies \cup {None} /\ rows[e].hash \in Contents \cup {None}
               /\ rows[e].state = "current" => rows[e].copy # None /\ rows[e].hash # None
    <3>1. rows[e] \in Row /\ inserted[e] \in Nat
      BY DEF Typed
    <3>2. rows[e].inc <= inserted[e]
      <4>1. NoRow.inc = 0
        BY DEF NoRow
      <4> QED BY <3>1, <4>1 DEF RowsAreNumbered, Row
    <3>3. rows[e].state = "current" => rows[e].copy # None /\ rows[e].hash # None
      BY MappingConstants DEF CurrentRowsShow, Shows
    <3> QED BY <3>1, <3>2, <3>3, MappingConstants DEF Bounds, Row
  <2>3. \A k \in Copies : copies[k].event \in Events \cup {None} /\ copies[k].hash \in States \cup {None}
    BY DEF Typed, Copy, States
  <2>4. \A c \in calls : c.kind \in {"create", "update", "delete"} /\ c.run \in Runs \cup {None}
    BY DEF Typed, Call
  <2>5. \A r \in Runs :
            /\ run[r].pc \in {"idle", "listed", "working", "lookup", "waiting", "answered"}
            /\ run[r].event \in Events \cup {None}
    BY DEF Typed, Locals, Busy
  <2> QED BY <2>1, <2>2, <2>3, <2>4, <2>5 DEF Typed, TypeOK, RowStates
<1> QED BY <1>1, <1>2, <1>3, Invariant, PTL DEF Spec
=============================================================================
