------------------------- MODULE FeedAdapters_proofs -------------------------
(***************************************************************************)
(* Proofs about one synchronized calendar at its provider, for any objects *)
(* and any number of versions and clicks: what a cursor covers is in the   *)
(* cache, corrections are authorized, and an unsettled one is reserved.    *)
(***************************************************************************)
EXTENDS FeedAdapters, TLAPS

-----------------------------------------------------------------------------
(* The inductive invariant.                                                *)

(* Nothing is dated later than the provider's clock, and what a run lists  *)
(* from or up to is no older than the cursor it started with.              *)
ClockIsAhead ==
    /\ \A o \in Objects : content[o].ver <= version
    /\ cursor <= version /\ run.token <= version /\ run.upTo <= version
    /\ run.pc = "due" => run.token = cursor
    /\ run.pc = "list" => cursor <= run.token
    /\ run.pc = "read" => cursor <= run.upTo

(* Only a REPORT is truncated, and only an Apple replacement has an        *)
(* inventory; no reservation is held without the row.                      *)
RunsAreOrdered ==
    /\ run.more => Incremental /\ kind = "apple"
    /\ run.pc = "inventory" => Replacement
    /\ run.pc = "due" => run.seen = {} /\ ~run.allowed
    /\ run.pc = "apply" => run.outcome \in {"error", "still", "deleted", "replace", "absent"}
    /\ run.pc \in {"granted", "get", "patch", "refetch", "apply"} => run.obj \in Objects

(* The representation a pending correction names was the malformed one.    *)
CorrectsEmpty(o, etag) == content[o].ver = etag => content[o].body = "empty"
CorrectionsAreOfEmpty ==
    /\ \A p \in late : p[2] <= version /\ CorrectsEmpty(p[1], p[2])
    /\ run.pc = "patch" => run.read.ver <= version /\ CorrectsEmpty(run.obj, run.read.ver)

(* Every grant is a click, and so is what a run holding one may correct.   *)
GrantsAreClicks ==
    /\ patched \subseteq clicks /\ late \subseteq clicks
    /\ \A o \in Objects : quarantine[o].grant # 0 => <<o, quarantine[o].grant>> \in clicks
    /\ run.pc = "granted" => run.etag # 0
    /\ run.pc = "get" /\ run.allowed => <<run.obj, run.etag>> \in clicks
    /\ run.pc = "patch" => <<run.obj, run.read.ver>> \in clicks

(* While a patch is unsettled, the reservation is nobody's to return.      *)
ReservationsAreKept ==
    /\ late # {} \/ run.held => reserved
    /\ run.held /\ late # {} => run.pc = "apply" /\ run.outcome = "error"
    /\ run.allowed => run.held
    /\ run.pc = "patch" => run.held

(* The cache is right about o, and about all that changed no later than t. *)
Right(o) ==
    ~quarantine[o].active =>
        content[o].body \notin Malformed /\ view[o] = IF content[o].body = "in" THEN content[o].ver ELSE 0
Covers(t) == \A o \in Objects : content[o].ver <= t => Right(o)

CursorIsCovered == cursor # 0 => Covers(cursor)
TokenIsCovered == run.pc = "list" /\ Incremental => Covers(run.token)

(* What a repair has read is what the provider holds, or will be listed.   *)
RepairIsFresh ==
    run.pc = "apply" /\ (Replacement \/ content[run.obj].ver <= cursor) =>
        /\ run.outcome = "replace" => content[run.obj].body = "in" /\ content[run.obj].ver = run.read.ver
        /\ run.outcome = "absent" => content[run.obj].body = "out"
        /\ run.outcome = "deleted" => content[run.obj].body = "absent"

(* What a replacement has seen is shown as the provider holds it, unless   *)
(* it changed after the listing.                                           *)
Seen(o) == content[o].body = "in" /\ view[o] = content[o].ver
SeenIsShown ==
    /\ Replacement /\ run.pc \in {"list", "inventory"} => \A o \in run.seen : Seen(o)
    /\ Replacement /\ run.pc = "read" => \A o \in run.seen : content[o].ver <= run.upTo => Seen(o)

(* What changed no later than the new cursor is still to be read, or in    *)
(* the page as it is, or dealt with.                                       *)
DealtWith(o) ==
    IF Incremental THEN Right(o)
    ELSE quarantine[o].active \/ (content[o].body \notin Malformed /\ (content[o].body = "in" => o \in run.seen))
Paged(o) ==
    \/ run.page[o].body = "unread"
    \/ run.page[o].body = content[o].body /\ run.page[o].ver = content[o].ver
    \/ run.page[o].body = "unlisted" /\ DealtWith(o)
PagesAreTrue == run.pc = "read" => \A o \in Objects : content[o].ver <= run.upTo => Paged(o)

IInv ==
    /\ TypeOK /\ ClockIsAhead /\ RunsAreOrdered
    /\ CorrectionsAreOfEmpty /\ GrantsAreClicks /\ ReservationsAreKept
    /\ CursorIsCovered /\ TokenIsCovered /\ RepairIsFresh /\ SeenIsShown /\ PagesAreTrue

-----------------------------------------------------------------------------
(* Facts about the types.                                                  *)

Body == [ver : Times, body : Bodies]
Row == [active : BOOLEAN, etag : Times, grant : Times]
Item == [ver : Times, etag : Times, body : Bodies \cup {"unlisted", "unread"}]
RunType ==
    [pc : {"idle", "due", "granted", "get", "patch", "refetch", "apply", "list", "inventory", "read"},
     obj : Objects \cup {None}, etag : Times, held : BOOLEAN, allowed : BOOLEAN, read : Body,
     outcome : {None, "error", "still", "deleted", "replace", "absent"},
     token : Times, upTo : Times, more : BOOLEAN, seen : SUBSET Objects, degraded : BOOLEAN,
     page : [Objects -> Item]]

(* What the type invariant says, in these sets.                            *)
LEMMA RecordTypes ==
    TypeOK <=>
        /\ kind \in Kinds /\ version \in Times
        /\ content \in [Objects -> Body]
        /\ late \cup patched \cup clicks \subseteq Objects \X Times
        /\ cursor \in Times /\ view \in [Objects -> Times] /\ reserved \in BOOLEAN
        /\ quarantine \in [Objects -> Row] /\ run \in RunType
BY DEF TypeOK, Body, Row, Item, RunType

(* Times are numbers; the empty string is one of them.                     *)
LEMMA TimeTypes ==
    /\ Times \subseteq Nat /\ 0 \in Times /\ MaxVersion \in Nat
    /\ \A t \in Nat : t <= MaxVersion => t \in Times
BY FeedConstants DEF Times

(* The bodies a provider may hold.                                         *)
LEMMA BodyTypes ==
    /\ {"absent", "in", "out", "bad"} \subseteq Bodies /\ "unlisted" \notin Bodies /\ "unread" \notin Bodies
    /\ \A b \in Bodies : b \in {"absent", "in", "out"} \cup Malformed
    /\ {"absent", "in", "out"} \cap Malformed = {} /\ "empty" \in Malformed
BY DEF Bodies, Malformed

(* The values rows and runs start from.                                    *)
LEMMA StartTypes ==
    /\ Absent \in Body /\ Settled \in Row /\ Unlisted \in Item /\ IdleRun \in RunType
    /\ IdleRun.pc = "idle" /\ ~IdleRun.held /\ ~IdleRun.allowed /\ ~IdleRun.more
    /\ IdleRun.token = 0 /\ IdleRun.upTo = 0 /\ IdleRun.seen = {} /\ IdleRun.obj = None
    /\ ~Settled.active /\ Settled.grant = 0
<1>1. Absent \in Body /\ Settled \in Row /\ Unlisted \in Item
  BY TimeTypes, BodyTypes DEF Absent, Settled, Unlisted, Body, Row, Item
<1>2. [o \in Objects |-> Unlisted] \in [Objects -> Item]
  BY <1>1
<1>3. IdleRun \in RunType
  BY <1>1, <1>2, TimeTypes DEF IdleRun, RunType
<1> QED BY <1>1, <1>3 DEF IdleRun, Settled

(* The types of the next state.                                            *)
LEMMA TypeFrame ==
    ASSUME TypeOK, UNCHANGED kind, version' \in Times, content' \in [Objects -> Body],
           late' \cup patched' \cup clicks' \subseteq Objects \X Times,
           cursor' \in Times, view' \in [Objects -> Times], reserved' \in BOOLEAN,
           quarantine' \in [Objects -> Row], run' \in RunType
    PROVE  TypeOK'
BY DEF TypeOK, Body, Row, Item, RunType, Bodies

(* The initial state.                                                      *)
LEMMA InitInv == Init => IInv
<1> SUFFICES ASSUME Init PROVE IInv
  OBVIOUS
<1>1. TypeOK
  BY RecordTypes, TimeTypes, StartTypes DEF Init
<1>2. ClockIsAhead /\ RunsAreOrdered
  BY StartTypes DEF Init, ClockIsAhead, RunsAreOrdered, Absent
<1>3. CorrectionsAreOfEmpty /\ GrantsAreClicks /\ ReservationsAreKept
  BY StartTypes DEF Init, CorrectionsAreOfEmpty, GrantsAreClicks, ReservationsAreKept, Settled
<1>4. CursorIsCovered /\ TokenIsCovered /\ RepairIsFresh /\ SeenIsShown /\ PagesAreTrue
  BY StartTypes DEF Init, CursorIsCovered, TokenIsCovered, RepairIsFresh, SeenIsShown, PagesAreTrue
<1> QED BY <1>1, <1>2, <1>3, <1>4 DEF IInv

-----------------------------------------------------------------------------
(* Steps of the provider and of the operator.                              *)

(* An object of the provider changes: only a pending correction of what it *)
(* was, or a repair about to be applied, would know.                       *)
LEMMA WriteInv ==
    ASSUME IInv, NEW o \in Objects, NEW body \in Bodies, Writes(o, body),
           UNCHANGED <<kind, cursor, view, quarantine, clicks, reserved>>,
           patched' \subseteq clicks, late' \subseteq late,
           \/ /\ UNCHANGED run
              /\ Replacement =>
                    /\ run.pc = "apply" /\ o = run.obj => run.outcome \notin {"replace", "absent", "deleted"}
                    /\ run.pc \in {"list", "inventory"} => o \notin run.seen
           \/ run.pc = "patch" /\ run' = [run EXCEPT !.pc = "refetch"]
    PROVE  IInv'
<1>1. /\ version \in Nat /\ version' = version + 1 /\ version' \in Times
      /\ content \in [Objects -> Body] /\ run \in RunType /\ cursor \in Nat
      /\ run.token \in Nat /\ run.upTo \in Nat /\ late \subseteq Objects \X Times /\ clicks \subseteq Objects \X Times
      /\ \A x \in Objects : content[x].ver \in Nat
  <2>1. TypeOK
    BY DEF IInv
  <2>2. version \in Nat /\ version' = version + 1 /\ version < MaxVersion
    BY <2>1, RecordTypes, TimeTypes DEF Writes
  <2>3. version' \in Times
    BY <2>2, TimeTypes
  <2>4. run \in RunType /\ content \in [Objects -> Body] /\ late \subseteq Objects \X Times /\ clicks \subseteq Objects \X Times
    BY <2>1, RecordTypes
  <2> QED BY <2>1, <2>2, <2>3, <2>4, RecordTypes, TimeTypes DEF RunType, Body
<1>2. /\ content'[o] = [ver |-> version + 1, body |-> body] /\ content'[o].ver = version + 1
      /\ \A x \in Objects \ {o} : content'[x] = content[x]
      /\ content' \in [Objects -> Body]
  BY <1>1 DEF Writes, Body
<1>3. /\ run' \in RunType /\ run'.token = run.token /\ run'.upTo = run.upTo /\ run'.obj = run.obj /\ run'.more = run.more
      /\ run'.held = run.held /\ run'.allowed = run.allowed /\ run'.read = run.read /\ run'.etag = run.etag
      /\ run'.page = run.page /\ run'.outcome = run.outcome /\ run'.seen = run.seen
      /\ run'.pc = run.pc \/ (run.pc = "patch" /\ run'.pc = "refetch")
  BY <1>1 DEF RunType
<1>4. TypeOK'
  BY <1>1, <1>2, <1>3, TypeFrame, RecordTypes DEF IInv
<1>5. ClockIsAhead'
  BY <1>1, <1>2, <1>3 DEF IInv, ClockIsAhead
<1>6. RunsAreOrdered' /\ GrantsAreClicks' /\ ReservationsAreKept'
  BY <1>1, <1>3 DEF IInv, RunsAreOrdered, GrantsAreClicks, ReservationsAreKept, Incremental, Replacement
<1>7. CorrectionsAreOfEmpty'
  <2>1. ASSUME NEW x \in Objects, NEW t \in Nat, t <= version, CorrectsEmpty(x, t)
        PROVE  t <= version' /\ CorrectsEmpty(x, t)'
    BY <1>1, <1>2, <2>1 DEF CorrectsEmpty
  <2>2. \A p \in late' : p \in late /\ p[1] \in Objects /\ p[2] \in Nat
    BY <1>1, TimeTypes
  <2>3. \A p \in late' : p[2] <= version' /\ CorrectsEmpty(p[1], p[2])'
    BY <2>1, <2>2 DEF IInv, CorrectionsAreOfEmpty
  <2>4. ASSUME run'.pc = "patch" PROVE run'.read.ver <= version' /\ CorrectsEmpty(run.obj, run.read.ver)'
    <3>1. run.pc = "patch" /\ run.read.ver \in Nat /\ run.obj \in Objects
      BY <1>1, <1>3, <2>4, TimeTypes DEF IInv, RunsAreOrdered, RunType, Body
    <3>2. run.read.ver <= version' /\ (content'[run.obj].ver = run.read.ver => content'[run.obj].body = "empty")
      BY <2>1, <3>1 DEF IInv, CorrectionsAreOfEmpty, CorrectsEmpty
    <3> QED BY <1>3, <3>2 DEF CorrectsEmpty
  <2> QED BY <2>3, <2>4 DEF CorrectionsAreOfEmpty
<1>8. CursorIsCovered' /\ TokenIsCovered'
  BY <1>1, <1>2, <1>3 DEF IInv, ClockIsAhead, CursorIsCovered, TokenIsCovered, Covers, Right, Incremental
<1>9. RepairIsFresh'
  BY <1>1, <1>2, <1>3 DEF IInv, ClockIsAhead, RunsAreOrdered, RepairIsFresh, Incremental, Replacement
<1>10. SeenIsShown'
  BY <1>1, <1>2, <1>3 DEF IInv, ClockIsAhead, SeenIsShown, Seen, Incremental, Replacement, RunType
<1>11. PagesAreTrue'
  BY <1>1, <1>2, <1>3 DEF IInv, ClockIsAhead, PagesAreTrue, Paged, DealtWith, Right, Incremental
<1> QED BY <1>4, <1>5, <1>6, <1>7, <1>8, <1>9, <1>10, <1>11 DEF IInv

(* The provider changes an object on its own.                              *)
LEMMA ProviderInv == IInv /\ (\E o \in Objects : ProviderChange(o)) => IInv'
<1> SUFFICES ASSUME IInv, NEW o \in Objects, ProviderChange(o) PROVE IInv'
  OBVIOUS
<1>1. /\ UNCHANGED <<kind, cursor, view, quarantine, clicks, reserved, run>> /\ patched' \subseteq clicks /\ late' \subseteq late
      /\ Replacement => (run.pc = "apply" => o # run.obj) /\ (run.pc \in {"list", "inventory"} => o \notin run.seen)
  BY DEF ProviderChange, RepairedUnlisted, stored, IInv, GrantsAreClicks
<1>2. PICK body \in Bodies : Writes(o, body)
  BY DEF ProviderChange
<1> QED BY <1>1, <1>2, WriteInv

(* A patch without an answer is executed late, refused or lost.            *)
LEMMA LatePatchInv == IInv /\ (\E p \in late : LatePatch(p)) => IInv'
<1> SUFFICES ASSUME IInv, NEW p \in late, LatePatch(p) PROVE IInv'
  OBVIOUS
<1>1. /\ late' = late \ {p} /\ UNCHANGED <<kind, cursor, view, quarantine, clicks, reserved, run>>
      /\ p \in clicks /\ p[1] \in Objects /\ p = <<p[1], p[2]>> /\ patched \subseteq clicks
      /\ TypeOK
  <2>1. TypeOK /\ p \in clicks /\ patched \subseteq clicks
    BY DEF IInv, GrantsAreClicks
  <2>2. p \in Objects \X Times
    BY <2>1, RecordTypes
  <2> QED BY <2>1, <2>2 DEF LatePatch, stored
<1>2. CASE Accepts(p[1], p[2]) /\ Corrects(p[1])
  <2>1. PICK body \in {"in", "out"} : Writes(p[1], body)
    BY <1>2 DEF Corrects
  <2>2. content[p[1]].ver = p[2] /\ content[p[1]].body = "empty"
    BY <1>2 DEF Accepts, IInv, CorrectionsAreOfEmpty, CorrectsEmpty
  <2>3. patched' \subseteq clicks
    BY <1>1, <1>2, <2>2 DEF Corrects
  <2>4. Replacement =>
          /\ run.pc = "apply" /\ p[1] = run.obj => run.outcome \notin {"replace", "absent", "deleted"}
          /\ run.pc \in {"list", "inventory"} => p[1] \notin run.seen
    BY <2>2 DEF IInv, SeenIsShown, Seen, RepairIsFresh
  <2>5. body \in Bodies /\ late' \subseteq late
    BY <1>1, BodyTypes
  <2> QED BY <1>1, <2>1, <2>3, <2>4, <2>5, WriteInv
<1>3. CASE UNCHANGED <<version, content, patched>>
  <2>1. TypeOK'
    BY <1>1, <1>3, TypeFrame, RecordTypes
  <2>2. ClockIsAhead' /\ RunsAreOrdered' /\ CorrectionsAreOfEmpty'
    BY <1>1, <1>3 DEF IInv, ClockIsAhead, RunsAreOrdered, CorrectionsAreOfEmpty, CorrectsEmpty, Incremental, Replacement
  <2>3. GrantsAreClicks' /\ ReservationsAreKept'
    BY <1>1, <1>3 DEF IInv, GrantsAreClicks, ReservationsAreKept
  <2>4. CursorIsCovered' /\ TokenIsCovered' /\ RepairIsFresh' /\ SeenIsShown' /\ PagesAreTrue'
    BY <1>1, <1>3 DEF IInv, CursorIsCovered, TokenIsCovered, Covers, Right, RepairIsFresh, SeenIsShown, Seen,
                      PagesAreTrue, Paged, DealtWith, Incremental, Replacement
  <2> QED BY <2>1, <2>2, <2>3, <2>4 DEF IInv
<1> QED BY <1>2, <1>3 DEF LatePatch

(* The operator clicks: the grant is one of the clicks from then on.       *)
LEMMA ClickInv == IInv /\ (\E o \in Objects : Click(o)) => IInv'
<1> SUFFICES ASSUME IInv, NEW o \in Objects, Click(o) PROVE IInv'
  OBVIOUS
<1>1. /\ quarantine' = [quarantine EXCEPT ![o].grant = quarantine[o].etag]
      /\ clicks' = clicks \cup {<<o, quarantine[o].etag>>}
      /\ UNCHANGED <<kind, version, content, late, patched, cursor, view, reserved, run>>
  BY DEF Click, provider
<1>2. quarantine \in [Objects -> Row] /\ quarantine[o].etag \in Times /\ TypeOK
  BY RecordTypes DEF IInv, Row
<1>3. /\ quarantine' \in [Objects -> Row]
      /\ quarantine'[o].active = quarantine[o].active /\ quarantine'[o].grant = quarantine[o].etag
      /\ \A x \in Objects \ {o} : quarantine'[x] = quarantine[x]
  BY <1>1, <1>2 DEF Row
<1>4. TypeOK'
  <2>1. late' \cup patched' \cup clicks' \subseteq Objects \X Times
    BY <1>1, <1>2, RecordTypes
  <2> QED BY <1>1, <1>2, <1>3, <2>1, RecordTypes, TypeFrame
<1>5. ClockIsAhead' /\ RunsAreOrdered' /\ CorrectionsAreOfEmpty' /\ ReservationsAreKept'
  BY <1>1 DEF IInv, ClockIsAhead, RunsAreOrdered, CorrectionsAreOfEmpty, CorrectsEmpty, ReservationsAreKept, Incremental, Replacement
<1>6. GrantsAreClicks'
  BY <1>1, <1>3 DEF IInv, GrantsAreClicks
<1>7. \A x \in Objects : quarantine'[x].active = quarantine[x].active
  BY <1>3
<1>8. CursorIsCovered' /\ TokenIsCovered' /\ RepairIsFresh' /\ SeenIsShown' /\ PagesAreTrue'
  BY <1>1, <1>7 DEF IInv, CursorIsCovered, TokenIsCovered, Covers, Right, RepairIsFresh, SeenIsShown, Seen,
                    PagesAreTrue, Paged, DealtWith, Incremental, Replacement, Malformed
<1> QED BY <1>4, <1>5, <1>6, <1>8 DEF IInv

-----------------------------------------------------------------------------
(* Steps of a run.                                                         *)

(* A step that only moves the run: what it must say of the new locals.     *)
LEMMA RunFrame ==
    ASSUME IInv, UNCHANGED <<kind, provider, stored>>, run' \in RunType,
           run'.token <= version, run'.upTo <= version,
           run'.pc = "due" => run'.token = cursor, run'.pc = "list" => cursor <= run'.token,
           run'.pc = "read" => cursor <= run'.upTo,
           RunsAreOrdered', run'.pc = "patch" => run'.read.ver <= version /\ CorrectsEmpty(run'.obj, run'.read.ver),
           run'.pc = "granted" => run'.etag # 0,
           run'.pc = "get" /\ run'.allowed => <<run'.obj, run'.etag>> \in clicks,
           run'.pc = "patch" => <<run'.obj, run'.read.ver>> \in clicks,
           run'.held => run.held, run'.allowed => run'.held, run'.pc = "patch" => run'.held,
           late # {} /\ run'.held => run'.pc = "apply" /\ run'.outcome = "error",
           TokenIsCovered', RepairIsFresh', SeenIsShown', PagesAreTrue'
    PROVE  IInv'
<1>1. TypeOK' /\ CursorIsCovered'
  <2>1. TypeOK'
    BY TypeFrame, RecordTypes DEF IInv, provider, stored
  <2> QED BY <2>1 DEF IInv, CursorIsCovered, Covers, Right, Malformed, provider, stored
<1>2. ClockIsAhead' /\ CorrectionsAreOfEmpty'
  BY DEF IInv, ClockIsAhead, CorrectionsAreOfEmpty, CorrectsEmpty, provider, stored
<1>3. GrantsAreClicks' /\ ReservationsAreKept'
  BY DEF IInv, GrantsAreClicks, ReservationsAreKept, provider, stored
<1> QED BY <1>1, <1>2, <1>3 DEF IInv

(* A run that ends, returning its reservation only where none is pending.  *)
LEMMA EndInv ==
    ASSUME IInv, UNCHANGED <<kind, provider, cursor, view, quarantine, clicks>>, run' = IdleRun,
           reserved' \in BOOLEAN, late # {} => reserved'
    PROVE  IInv'
<1>1. TypeOK'
  BY TypeFrame, RecordTypes, StartTypes DEF IInv, provider
<1>2. cursor \in Nat /\ version \in Nat
  BY RecordTypes, TimeTypes DEF IInv
<1>3. ClockIsAhead' /\ RunsAreOrdered' /\ CorrectionsAreOfEmpty'
  BY <1>2, StartTypes DEF IInv, ClockIsAhead, RunsAreOrdered, CorrectionsAreOfEmpty, CorrectsEmpty, provider
<1>4. GrantsAreClicks' /\ ReservationsAreKept'
  BY StartTypes DEF IInv, GrantsAreClicks, ReservationsAreKept, provider
<1>5. CursorIsCovered' /\ TokenIsCovered' /\ RepairIsFresh' /\ SeenIsShown' /\ PagesAreTrue'
  BY StartTypes DEF IInv, CursorIsCovered, TokenIsCovered, RepairIsFresh, SeenIsShown, PagesAreTrue, Covers, Right, provider
<1> QED BY <1>1, <1>3, <1>4, <1>5 DEF IInv

(* A repair that has an outcome: it is true of what the provider holds.    *)
LEMMA EndsInv ==
    ASSUME IInv, run.pc \in {"get", "refetch", "patch"}, NEW c \in Body,
           NEW outcome \in {"error", "still", "deleted", "replace", "absent"}, Ends(outcome, c),
           UNCHANGED <<kind, provider, stored>>,
           outcome = "replace" => content[run.obj].body = "in" /\ content[run.obj].ver = c.ver,
           outcome = "absent" => content[run.obj].body = "out",
           outcome = "deleted" => content[run.obj].body = "absent"
    PROVE  IInv'
<1>1. run \in RunType /\ run.obj \in Objects
  BY RecordTypes DEF IInv, RunsAreOrdered
<1>2. /\ run' \in RunType /\ run'.pc = "apply" /\ run'.obj = run.obj /\ run'.outcome = outcome /\ run'.read = c
      /\ run'.token = run.token /\ run'.upTo = run.upTo /\ run'.more = run.more
      /\ run'.held = run.held /\ run'.allowed = run.allowed
  BY <1>1 DEF RunType, Ends
<1>3. run.token <= version /\ run.upTo <= version /\ (run.allowed => run.held) /\ (late # {} => ~run.held)
  BY DEF IInv, ClockIsAhead, ReservationsAreKept
<1>4. RunsAreOrdered' /\ SeenIsShown' /\ PagesAreTrue' /\ TokenIsCovered'
  BY <1>1, <1>2 DEF IInv, RunsAreOrdered, SeenIsShown, PagesAreTrue, TokenIsCovered, Incremental, stored
<1>5. RepairIsFresh'
  BY <1>2 DEF RepairIsFresh, provider
<1> QED BY <1>2, <1>3, <1>4, <1>5, RunFrame

(* Steps before the feed is read.                                          *)
LEMMA RepairRunInv ==
    ASSUME IInv, \/ ClaimDueCalendarSync \/ NothingDue \/ ConsumeFails \/ Fail \/ RepairGet \/ RepairRefetch
                 \/ \E o \in Objects : DueForRepair(o)
    PROVE  IInv'
<1>1. TypeOK /\ run \in RunType /\ quarantine \in [Objects -> Row] /\ content \in [Objects -> Body]
  BY RecordTypes DEF IInv
<1>2. cursor \in Nat /\ version \in Nat /\ run.token \in Nat /\ run.upTo \in Nat
  BY <1>1, RecordTypes, TimeTypes DEF RunType
<1>3. CASE ConsumeFails \/ Fail
  <2>1. /\ run' = IdleRun /\ UNCHANGED <<kind, provider, cursor, view, quarantine, clicks>> /\ reserved' \in BOOLEAN
        /\ late # {} => reserved'
    BY <1>1, <1>3, RecordTypes DEF ConsumeFails, Fail, stored, IInv, ReservationsAreKept
  <2> QED BY <2>1, EndInv
<1>4. CASE ClaimDueCalendarSync
  <2>1. run' = [IdleRun EXCEPT !.pc = "due", !.token = cursor] /\ UNCHANGED <<kind, provider, stored>>
    BY <1>4 DEF ClaimDueCalendarSync
  <2>2. /\ run' \in RunType /\ run'.pc = "due" /\ run'.token = cursor /\ run'.upTo = 0 /\ run'.seen = {} /\ ~run'.held /\ ~run'.allowed /\ ~run'.more
    BY <1>1, <2>1, RecordTypes, StartTypes DEF RunType
  <2>3. RunsAreOrdered' /\ TokenIsCovered' /\ RepairIsFresh' /\ SeenIsShown' /\ PagesAreTrue'
    BY <2>2 DEF RunsAreOrdered, TokenIsCovered, RepairIsFresh, SeenIsShown, PagesAreTrue
  <2>4. cursor <= version
    BY DEF IInv, ClockIsAhead
  <2> QED BY <1>2, <2>1, <2>2, <2>3, <2>4, RunFrame
<1>5. CASE NothingDue
  <2>1. run' = [run EXCEPT !.pc = "list"] /\ run.pc = "due" /\ UNCHANGED <<kind, provider, stored>>
    BY <1>5 DEF NothingDue
  <2>2. /\ run' \in RunType /\ run'.pc = "list" /\ run'.token = run.token /\ run'.upTo = run.upTo /\ run'.more = run.more
        /\ run'.held = run.held /\ run'.allowed = run.allowed /\ run'.seen = run.seen
    BY <1>1, <2>1 DEF RunType
  <2>3. run.token = cursor /\ run.upTo <= version /\ cursor <= version /\ ~run.allowed /\ run.seen = {}
    BY <2>1 DEF IInv, ClockIsAhead, RunsAreOrdered
  <2>4. RunsAreOrdered' /\ RepairIsFresh' /\ SeenIsShown' /\ PagesAreTrue'
    BY <2>1, <2>2, <2>3 DEF IInv, RunsAreOrdered, RepairIsFresh, SeenIsShown, PagesAreTrue, Incremental, provider, stored
  <2>5. TokenIsCovered'
    BY <2>1, <2>2, <2>3 DEF IInv, CursorIsCovered, TokenIsCovered, Covers, Right, Incremental, Malformed, provider, stored
  <2>6. late # {} => ~run.held
    BY <2>1 DEF IInv, ReservationsAreKept
  <2> QED BY <1>2, <2>1, <2>2, <2>3, <2>4, <2>5, <2>6, RunFrame
<1>6. ASSUME NEW o \in Objects, DueForRepair(o) PROVE IInv'
  <2> DEFINE pc == IF quarantine[o].grant # 0 /\ quarantine[o].grant = quarantine[o].etag THEN "granted" ELSE "get"
  <2>1. /\ run' = [run EXCEPT !.obj = o, !.etag = quarantine[o].etag, !.pc = pc]
        /\ run.pc = "due" /\ UNCHANGED <<kind, provider, stored>>
    BY <1>6 DEF DueForRepair
  <2>2. quarantine[o].etag \in Times
    BY <1>1 DEF Row
  <2>3. /\ run' \in RunType /\ run'.pc = pc /\ run'.obj = o /\ run'.etag = quarantine[o].etag
        /\ run'.token = run.token /\ run'.upTo = run.upTo /\ run'.more = run.more
        /\ run'.held = run.held /\ run'.allowed = run.allowed /\ run'.seen = run.seen
    BY <1>1, <2>1, <2>2 DEF RunType
  <2>4. run.token <= version /\ run.upTo <= version /\ ~run.allowed /\ (late # {} => ~run.held)
    BY <2>1 DEF IInv, ClockIsAhead, RunsAreOrdered, ReservationsAreKept
  <2>5. RunsAreOrdered' /\ RepairIsFresh' /\ SeenIsShown' /\ PagesAreTrue' /\ TokenIsCovered'
    BY <2>1, <2>3 DEF IInv, RunsAreOrdered, RepairIsFresh, SeenIsShown, PagesAreTrue, TokenIsCovered, Incremental, stored
  <2> QED BY <2>1, <2>3, <2>4, <2>5, RunFrame
<1>8. ASSUME NEW o \in Objects, NEW outcome \in Outcomes(content[o])
      PROVE  /\ outcome \in {"error", "still", "deleted", "replace", "absent"}
             /\ outcome = "replace" => content[o].body = "in"
             /\ outcome = "absent" => content[o].body = "out"
             /\ outcome = "deleted" => content[o].body = "absent"
  <2>1. content[o].body \in Bodies
    BY <1>1 DEF Body
  <2>2. \/ content[o].body = "absent" \/ content[o].body = "in" \/ content[o].body = "out"
        \/ content[o].body = "bad" \/ content[o].body = "empty"
    BY <2>1 DEF Bodies
  <2> QED BY <1>8, <2>2 DEF Outcomes, Malformed
<1>9. CASE RepairRefetch
  <2>1. run.obj \in Objects /\ content[run.obj] \in Body
    BY <1>1, <1>9 DEF RepairRefetch, IInv, RunsAreOrdered
  <2>2. PICK outcome \in Outcomes(content[run.obj]) : Ends(outcome, content[run.obj])
    BY <1>9 DEF RepairRefetch
  <2>3. run.pc = "refetch" /\ UNCHANGED <<kind, provider, stored>>
    BY <1>9 DEF RepairRefetch
  <2> QED BY <1>8, <2>1, <2>2, <2>3, EndsInv
<1>10. CASE RepairGet
  <2> DEFINE c == content[run.obj]
  <2>1. run.pc = "get" /\ run.obj \in Objects /\ c \in Body /\ UNCHANGED <<kind, provider, stored>>
    BY <1>1, <1>10 DEF RepairGet, IInv, RunsAreOrdered
  <2>2. CASE c.body = "empty" /\ run.allowed /\ run.etag = c.ver /\ run' = [run EXCEPT !.pc = "patch", !.read = c]
    <3>1. /\ run' \in RunType /\ run'.pc = "patch" /\ run'.obj = run.obj /\ run'.read = c
          /\ run'.token = run.token /\ run'.upTo = run.upTo /\ run'.more = run.more
          /\ run'.held = run.held /\ run'.allowed = run.allowed
      BY <1>1, <2>1, <2>2 DEF RunType
    <3>2. /\ run.token <= version /\ run.upTo <= version /\ run.held /\ (late # {} => ~run.held)
          /\ c.ver <= version /\ <<run.obj, c.ver>> \in clicks
      BY <2>1, <2>2 DEF IInv, ClockIsAhead, ReservationsAreKept, GrantsAreClicks
    <3>3. RunsAreOrdered' /\ RepairIsFresh' /\ SeenIsShown' /\ PagesAreTrue' /\ TokenIsCovered'
      BY <2>1, <3>1 DEF IInv, RunsAreOrdered, RepairIsFresh, SeenIsShown, PagesAreTrue, TokenIsCovered, Incremental, stored
    <3>4. CorrectsEmpty(run'.obj, run'.read.ver)
      BY <2>2, <3>1 DEF CorrectsEmpty
    <3> QED BY <2>1, <3>1, <3>2, <3>3, <3>4, RunFrame
  <2>3. ASSUME NEW outcome \in Outcomes(c), Ends(outcome, c) PROVE IInv'
    BY <1>8, <2>1, <2>3, EndsInv
  <2> QED BY <1>10, <2>2, <2>3 DEF RepairGet
<1> QED BY <1>3, <1>4, <1>5, <1>6, <1>9, <1>10

(* The reservation is taken before the grant is, and the grant before the  *)
(* correction is allowed.                                                  *)
LEMMA ReserveInv == IInv /\ (Reserve \/ Consume) => IInv'
<1> SUFFICES ASSUME IInv, Reserve \/ Consume PROVE IInv'
  OBVIOUS
<1>1. TypeOK /\ run \in RunType /\ quarantine \in [Objects -> Row]
  BY RecordTypes DEF IInv
<1>2. run.pc = "granted" /\ run.obj \in Objects
  BY DEF Reserve, Consume, IInv, RunsAreOrdered
<1>3. CASE Reserve
  <2>1. /\ late = {} /\ reserved' /\ UNCHANGED <<kind, version, content, late, patched, cursor, view, quarantine, clicks>>
        /\ run' = [run EXCEPT !.held = TRUE]
    BY <1>3 DEF Reserve, provider, IInv, ReservationsAreKept
  <2>2. /\ run' \in RunType /\ run'.pc = "granted" /\ run'.obj = run.obj /\ run'.etag = run.etag /\ run'.token = run.token
        /\ run'.upTo = run.upTo /\ run'.more = run.more /\ run'.held /\ run'.allowed = run.allowed
    BY <1>1, <1>2, <2>1 DEF RunType
  <2>3. TypeOK'
    <3>1. reserved' \in BOOLEAN
      BY <1>3 DEF Reserve
    <3> QED BY <1>1, <2>1, <2>2, <3>1, RecordTypes, TypeFrame
  <2>4. ClockIsAhead' /\ RunsAreOrdered' /\ CorrectionsAreOfEmpty'
    BY <1>2, <2>1, <2>2 DEF IInv, ClockIsAhead, RunsAreOrdered, CorrectionsAreOfEmpty, CorrectsEmpty, Incremental, Replacement
  <2>5. GrantsAreClicks' /\ ReservationsAreKept'
    BY <1>2, <2>1, <2>2 DEF IInv, GrantsAreClicks, ReservationsAreKept
  <2>6. CursorIsCovered' /\ TokenIsCovered' /\ RepairIsFresh' /\ SeenIsShown' /\ PagesAreTrue'
    BY <2>1, <2>2 DEF IInv, CursorIsCovered, TokenIsCovered, RepairIsFresh, SeenIsShown, PagesAreTrue, Covers, Right
  <2> QED BY <2>3, <2>4, <2>5, <2>6 DEF IInv
<1>4. CASE Consume
  <2>1. /\ UNCHANGED <<kind, version, content, late, patched, cursor, view, clicks, reserved>>
        /\ run.held /\ quarantine[run.obj].grant = run.etag
        /\ quarantine' = [quarantine EXCEPT ![run.obj].grant = 0]
        /\ run' = [run EXCEPT !.pc = "get", !.allowed = TRUE]
    BY <1>4 DEF Consume, provider
  <2>2. /\ run' \in RunType /\ run'.pc = "get" /\ run'.obj = run.obj /\ run'.etag = run.etag /\ run'.token = run.token
        /\ run'.upTo = run.upTo /\ run'.more = run.more /\ run'.held = run.held /\ run'.allowed
    BY <1>1, <1>2, <2>1 DEF RunType
  <2>3. /\ quarantine' \in [Objects -> Row] /\ quarantine'[run.obj].grant = 0
        /\ quarantine'[run.obj].active = quarantine[run.obj].active
        /\ \A x \in Objects \ {run.obj} : quarantine'[x] = quarantine[x]
    BY <1>1, <1>2, <2>1, TimeTypes DEF Row
  <2>4. TypeOK'
    BY <1>1, <2>1, <2>2, <2>3, RecordTypes, TypeFrame
  <2>5. ClockIsAhead' /\ RunsAreOrdered' /\ CorrectionsAreOfEmpty'
    BY <1>2, <2>1, <2>2 DEF IInv, ClockIsAhead, RunsAreOrdered, CorrectionsAreOfEmpty, CorrectsEmpty, Incremental, Replacement
  <2>6. <<run.obj, run.etag>> \in clicks
    BY <1>2, <2>1 DEF IInv, GrantsAreClicks
  <2>7. GrantsAreClicks' /\ ReservationsAreKept'
    BY <1>2, <2>1, <2>2, <2>3, <2>6 DEF IInv, GrantsAreClicks, ReservationsAreKept
  <2>8. \A x \in Objects : quarantine'[x].active = quarantine[x].active
    BY <2>3
  <2>9. CursorIsCovered' /\ TokenIsCovered' /\ RepairIsFresh' /\ SeenIsShown' /\ PagesAreTrue'
    BY <2>1, <2>2, <2>8 DEF IInv, CursorIsCovered, TokenIsCovered, RepairIsFresh, SeenIsShown, PagesAreTrue, Covers, Right,
                            Malformed
  <2> QED BY <2>4, <2>5, <2>7, <2>9 DEF IInv
<1> QED BY <1>3, <1>4

(* The correction itself: executed, refused, or without an answer.         *)
LEMMA PatchInv == IInv /\ RepairPatch => IInv'
<1> SUFFICES ASSUME IInv, RepairPatch PROVE IInv'
  OBVIOUS
<1> DEFINE o == run.obj
<1>1. /\ TypeOK /\ run \in RunType /\ content \in [Objects -> Body] /\ o \in Objects /\ run.read \in Body
      /\ run.pc = "patch" /\ <<o, run.read.ver>> \in clicks /\ run.held /\ reserved /\ patched \subseteq clicks /\ late = {}
      /\ UNCHANGED <<kind, cursor, view, quarantine, clicks, reserved>>
  <2>1. TypeOK /\ run \in RunType /\ content \in [Objects -> Body]
    BY RecordTypes DEF IInv
  <2> QED BY <2>1 DEF RunType, RepairPatch, IInv, RunsAreOrdered, GrantsAreClicks, ReservationsAreKept, stored
<1>2. CASE Accepts(o, run.read.ver) /\ Corrects(o) /\ late' = late /\ run' = [run EXCEPT !.pc = "refetch"]
  <2>1. PICK body \in {"in", "out"} : Writes(o, body)
    BY <1>2 DEF Corrects
  <2>2. patched' \subseteq clicks
    BY <1>1, <1>2 DEF Corrects, Accepts
  <2> QED BY <1>1, <1>2, <2>1, <2>2, BodyTypes, WriteInv
<1>3. CASE /\ UNCHANGED provider
           /\ IF content[o].body = "absent" THEN Ends("deleted", run.read) ELSE Ends("error", run.read)
  <2>1. UNCHANGED <<kind, provider, stored>>
    BY <1>1, <1>3 DEF stored
  <2> QED BY <1>1, <1>3, <2>1, EndsInv
<1>4. CASE /\ late' = late \cup {<<o, run.read.ver>>} /\ UNCHANGED <<version, content, patched>>
           /\ Ends("error", run.read)
  <2>1. /\ run' \in RunType /\ run'.pc = "apply" /\ run'.obj = run.obj /\ run'.outcome = "error"
        /\ run'.token = run.token /\ run'.upTo = run.upTo /\ run'.more = run.more
        /\ run'.held = run.held /\ run'.allowed = run.allowed
    BY <1>1, <1>4 DEF RunType, Ends
  <2>2. late' = {<<o, run.read.ver>>} /\ run.read.ver \in Times
    BY <1>1, <1>4 DEF Body
  <2>3. TypeOK'
    <3>1. late' \cup patched' \cup clicks' \subseteq Objects \X Times
      BY <1>1, <1>4, <2>2, RecordTypes
    <3> QED BY <1>1, <1>4, <2>1, <3>1, RecordTypes, TypeFrame
  <2>4. ClockIsAhead' /\ RunsAreOrdered'
    BY <1>1, <1>4, <2>1 DEF IInv, ClockIsAhead, RunsAreOrdered, Incremental, Replacement
  <2>5. CorrectionsAreOfEmpty'
    BY <1>1, <1>4, <2>1, <2>2 DEF IInv, CorrectionsAreOfEmpty, CorrectsEmpty
  <2>6. GrantsAreClicks' /\ ReservationsAreKept'
    BY <1>1, <1>4, <2>1, <2>2 DEF IInv, GrantsAreClicks, ReservationsAreKept
  <2>7. CursorIsCovered' /\ TokenIsCovered' /\ RepairIsFresh' /\ SeenIsShown' /\ PagesAreTrue'
    BY <1>1, <1>4, <2>1 DEF IInv, CursorIsCovered, TokenIsCovered, RepairIsFresh, SeenIsShown, PagesAreTrue, Covers, Right
  <2> QED BY <2>3, <2>4, <2>5, <2>6, <2>7 DEF IInv
<1> QED BY <1>2, <1>3, <1>4 DEF RepairPatch

(* What is known of a row a warning leaves.                                *)
LEMMA WarnedRow ==
    ASSUME NEW q \in Row, NEW etag \in Times
    PROVE  /\ Warned(q, etag) \in Row /\ Warned(q, etag).active
           /\ Warned(q, etag).grant \in {0, q.grant}
BY TimeTypes DEF Warned, Row

(* The outcome of a repair is stored, and the reservation returned unless  *)
(* it ended in an error.                                                   *)
LEMMA ApplyRepairInv == IInv /\ ApplyRepair => IInv'
<1> SUFFICES ASSUME IInv, ApplyRepair PROVE IInv'
  OBVIOUS
<1>0. PICK o \in Objects : o = run.obj
  BY DEF ApplyRepair, IInv, RunsAreOrdered
<1>1. /\ TypeOK /\ run \in RunType /\ content \in [Objects -> Body] /\ quarantine \in [Objects -> Row]
      /\ view \in [Objects -> Times] /\ run.read.ver \in Times /\ run.etag \in Times /\ run.pc = "apply"
      /\ cursor \in Nat /\ version \in Nat /\ cursor <= version /\ cursor \in Times
  <2>1. TypeOK /\ run \in RunType
    BY RecordTypes DEF IInv
  <2>2. run.read.ver \in Times /\ run.etag \in Times
    BY <2>1 DEF RunType, Body
  <2> QED BY <1>0, <2>1, <2>2, RecordTypes, TimeTypes DEF ApplyRepair, IInv, RunsAreOrdered, ClockIsAhead
<1>2. /\ UNCHANGED <<kind, version, content, late, patched, cursor, clicks>>
      /\ reserved' = (reserved /\ ~Released)
      /\ run' = [IdleRun EXCEPT !.pc = "list", !.token = cursor, !.seen = IF run.outcome = "replace" THEN {o} ELSE {}]
  BY <1>0 DEF ApplyRepair, provider
<1>3. /\ run' \in RunType /\ run'.pc = "list" /\ run'.token = cursor /\ run'.upTo = 0 /\ ~run'.more
      /\ ~run'.held /\ ~run'.allowed /\ run'.seen = IF run.outcome = "replace" THEN {o} ELSE {}
  BY <1>1, <1>2, StartTypes, ZenonT(40) DEF RunType
<1>4. /\ view' = [view EXCEPT ![o] = view'[o]] /\ view'[o] \in Times
      /\ quarantine' = [quarantine EXCEPT ![o] = quarantine'[o]] /\ quarantine'[o] \in Row
      /\ quarantine'[o].grant \in {0, quarantine[o].grant}
      /\ ~quarantine'[o].active =>
            \/ run.outcome = "replace" /\ view'[o] = run.read.ver
            \/ run.outcome \in {"absent", "deleted"} /\ view'[o] = 0
      /\ run.outcome = "replace" => view'[o] = run.read.ver
  <2>1. CASE run.outcome = "replace"
    <3>1. view' = [view EXCEPT ![o] = run.read.ver] /\ quarantine' = [quarantine EXCEPT ![o] = Settled]
      BY <1>0, <2>1 DEF ApplyRepair
    <3> QED BY <1>1, <2>1, <3>1, StartTypes
  <2>2. CASE run.outcome \in {"absent", "deleted"}
    <3>1. view' = [view EXCEPT ![o] = 0] /\ quarantine' = [quarantine EXCEPT ![o] = Settled]
      BY <1>0, <2>2 DEF ApplyRepair
    <3> QED BY <1>1, <2>2, <3>1, StartTypes, TimeTypes
  <2>3. CASE run.outcome \in {"still", "error"}
    <3>1. PICK etag \in Times : quarantine' = [quarantine EXCEPT ![o] = Warned(quarantine[o], etag)] /\ UNCHANGED view
      BY <1>0, <1>1, <2>3 DEF ApplyRepair
    <3>2. quarantine[o] \in Row
      BY <1>1
    <3>3. quarantine'[o] = Warned(quarantine[o], etag)
      BY <1>1, <3>1
    <3>4. quarantine' = [quarantine EXCEPT ![o] = quarantine'[o]]
      BY <3>1, <3>3
    <3> QED BY <1>1, <2>3, <3>1, <3>2, <3>3, <3>4, WarnedRow
  <2>4. run.outcome \in {"error", "still", "deleted", "replace", "absent"}
    BY <1>1 DEF RunType, IInv, RunsAreOrdered
  <2> QED BY <2>1, <2>2, <2>3, <2>4
<1>5. /\ \A x \in Objects \ {o} : view'[x] = view[x] /\ quarantine'[x] = quarantine[x]
      /\ view' \in [Objects -> Times] /\ quarantine' \in [Objects -> Row]
  BY <1>1, <1>4
<1>6. TypeOK'
  BY <1>1, <1>2, <1>3, <1>5, RecordTypes, TypeFrame
<1>7. ClockIsAhead' /\ RunsAreOrdered' /\ CorrectionsAreOfEmpty'
  BY <1>1, <1>2, <1>3 DEF IInv, ClockIsAhead, RunsAreOrdered, CorrectionsAreOfEmpty, CorrectsEmpty, Incremental, Replacement
<1>8. GrantsAreClicks' /\ ReservationsAreKept'
  BY <1>2, <1>3, <1>4, <1>5 DEF IInv, GrantsAreClicks, ReservationsAreKept, Released
<1>9. \A x \in Objects : content[x].ver <= cursor /\ cursor # 0 => Right(x)'
  <2>1. ASSUME content[o].ver <= cursor, ~quarantine'[o].active PROVE Right(o)'
    BY <1>0, <1>1, <1>2, <1>4, <2>1, BodyTypes DEF IInv, RepairIsFresh, Right, Malformed
  <2>2. ASSUME NEW x \in Objects \ {o}, Right(x) PROVE Right(x)'
    BY <1>2, <1>5, <2>2 DEF Right, Malformed
  <2>3. ~quarantine'[o].active \/ Right(o)'
    BY DEF Right
  <2> QED BY <2>1, <2>2, <2>3 DEF IInv, CursorIsCovered, Covers
<1>10. CursorIsCovered' /\ TokenIsCovered'
  BY <1>2, <1>3, <1>9 DEF CursorIsCovered, TokenIsCovered, Covers, Incremental
<1>11. SeenIsShown'
  BY <1>0, <1>1, <1>2, <1>3, <1>4 DEF IInv, RepairIsFresh, SeenIsShown, Seen, Replacement, Incremental
<1>12. RepairIsFresh' /\ PagesAreTrue'
  BY <1>3 DEF RepairIsFresh, PagesAreTrue
<1> QED BY <1>6, <1>7, <1>8, <1>10, <1>11, <1>12 DEF IInv

-----------------------------------------------------------------------------
(* Steps of the feed.                                                      *)

(* A listing: what it leaves out is right already, or is gone.             *)
LEMMA ListsInv ==
    ASSUME IInv, run.pc \in {"list", "inventory"}, UNCHANGED <<kind, provider, stored>>,
           NEW objects \in SUBSET Objects, NEW upTo \in Times, NEW more \in BOOLEAN, Lists(objects, upTo, more),
           upTo <= version, cursor <= upTo, more => Incremental /\ kind = "apple",
           \A o \in Objects \ objects :
               content[o].ver <= upTo => IF Incremental THEN Right(o) ELSE content[o].body = "absent"
    PROVE  IInv'
<1>1. TypeOK /\ run \in RunType /\ content \in [Objects -> Body]
  BY RecordTypes DEF IInv
<1> DEFINE page == [o \in Objects |-> IF o \in objects
                        THEN [ver |-> content[o].ver, etag |-> content[o].ver,
                              body |-> IF content[o].body = "absent" THEN "absent" ELSE "unread"]
                        ELSE Unlisted]
<1>2. /\ page \in [Objects -> Item]
      /\ \A o \in Objects : page[o] \in Item
      /\ \A o \in Objects \ objects : page[o].body = "unlisted"
      /\ \A o \in objects : /\ page[o].ver = content[o].ver
                            /\ page[o].body = IF content[o].body = "absent" THEN "absent" ELSE "unread"
  <2>1. ASSUME NEW o \in Objects PROVE page[o] \in Item
    BY <1>1, StartTypes, BodyTypes DEF Item, Body
  <2> QED BY <2>1 DEF Unlisted
<1>3. run' = [run EXCEPT !.pc = "read", !.upTo = upTo, !.more = more, !.page = page]
  BY DEF Lists
<1> HIDE DEF page
<1>4. /\ run' \in RunType /\ run'.pc = "read" /\ run'.upTo = upTo /\ run'.more = more /\ run'.page = page
      /\ run'.token = run.token /\ run'.seen = run.seen /\ run'.held = run.held /\ run'.allowed = run.allowed
  BY <1>1, <1>2, <1>3 DEF RunType
<1>5. run.token <= version /\ (run.allowed => run.held) /\ (late # {} => ~run.held)
  BY DEF IInv, ClockIsAhead, ReservationsAreKept
<1>6. RunsAreOrdered' /\ TokenIsCovered' /\ RepairIsFresh'
  BY <1>4 DEF RunsAreOrdered, TokenIsCovered, RepairIsFresh, Incremental, stored
<1>7. SeenIsShown'
  BY <1>4 DEF IInv, SeenIsShown, Seen, Replacement, Incremental, provider, stored
<1>8. PagesAreTrue'
  <2>1. ASSUME NEW o \in Objects, content[o].ver <= upTo PROVE Paged(o)'
    <3>1. CASE o \in objects
      BY <1>2, <1>4, <3>1 DEF Paged, provider
    <3>2. CASE o \notin objects
      <4>1. page[o].body = "unlisted"
        BY <1>2, <3>2
      <4>2. DealtWith(o)'
        BY <2>1, <3>2, BodyTypes DEF DealtWith, Right, Incremental, Malformed, provider, stored
      <4> QED BY <1>4, <4>1, <4>2 DEF Paged
    <3> QED BY <3>1, <3>2
  <2> QED BY <1>4, <2>1 DEF PagesAreTrue, provider
<1> QED BY <1>4, <1>5, <1>6, <1>7, <1>8, RunFrame

(* The feeds of the three adapters.                                        *)
LEMMA ListingInv == IInv /\ (ListEvents \/ ListCalendarViewDelta \/ SyncCollection \/ ListInventory) => IInv'
<1> SUFFICES ASSUME IInv, ListEvents \/ ListCalendarViewDelta \/ SyncCollection \/ ListInventory PROVE IInv'
  OBVIOUS
<1>1. /\ TypeOK /\ run \in RunType /\ content \in [Objects -> Body] /\ cursor \in Nat /\ version \in Times /\ version \in Nat
      /\ run.token \in Nat /\ run.upTo \in Times /\ run.upTo \in Nat /\ cursor <= version
      /\ \A o \in Objects : content[o].ver \in Times /\ content[o].ver \in Nat /\ content[o].ver <= version
  <2>1. TypeOK /\ run \in RunType /\ content \in [Objects -> Body]
    BY RecordTypes DEF IInv
  <2> QED BY <2>1, RecordTypes, TimeTypes DEF IInv, ClockIsAhead, RunType, Body
<1>2. ASSUME run.pc = "list", Incremental, NEW upTo \in Nat, NEW o \in Objects \ Changed(run.token, upTo), content[o].ver <= upTo
      PROVE  Right(o)
  BY <1>1, <1>2 DEF Changed, IInv, TokenIsCovered, Covers
<1>3. \A o \in Objects \ Existing : content[o].body = "absent"
  BY DEF Existing
<1>4. ASSUME run.pc = "list", Starts(IF Incremental THEN Changed(run.token, version) ELSE Existing) PROVE IInv'
  <2>0. PICK objects \in SUBSET Objects : objects = IF Incremental THEN Changed(run.token, version) ELSE Existing
    BY DEF Changed, Existing
  <2>1. PICK upTo \in Times : upTo = version
    BY <1>1
  <2>2. Lists(objects, upTo, FALSE) /\ UNCHANGED <<kind, provider, stored>> /\ run.pc \in {"list", "inventory"}
    BY <1>4, <2>0, <2>1 DEF Starts
  <2>3. ASSUME NEW o \in Objects \ objects, content[o].ver <= upTo
        PROVE  IF Incremental THEN Right(o) ELSE content[o].body = "absent"
    BY <1>1, <1>2, <1>3, <1>4, <2>0, <2>1, <2>3
  <2>4. upTo <= version /\ cursor <= upTo
    BY <1>1, <2>1
  <2> QED BY <2>2, <2>3, <2>4, ListsInv
<1>5. CASE ListEvents \/ ListCalendarViewDelta
  BY <1>4, <1>5 DEF ListEvents, ListCalendarViewDelta
<1>6. CASE SyncCollection /\ Incremental
  <2>1. PICK upTo \in {version} \cup {content[o].ver : o \in Changed(run.token, version)} :
            Lists(Changed(run.token, upTo), upTo, upTo < version)
    BY <1>6 DEF SyncCollection, Replacement
  <2>2. run.pc = "list" /\ kind = "apple" /\ UNCHANGED <<kind, provider, stored>>
    BY <1>6 DEF SyncCollection
  <2>3. cursor <= run.token
    BY <2>2 DEF IInv, ClockIsAhead
  <2>4. upTo \in Times /\ upTo \in Nat /\ upTo <= version /\ cursor <= upTo
    BY <1>1, <2>1, <2>3 DEF Changed
  <2>5. Changed(run.token, upTo) \in SUBSET Objects /\ (upTo < version) \in BOOLEAN
    BY DEF Changed
  <2>6. \A o \in Objects \ Changed(run.token, upTo) : content[o].ver <= upTo => Right(o)
    BY <1>2, <1>6, <2>2, <2>4
  <2> QED BY <1>6, <2>1, <2>2, <2>4, <2>5, <2>6, ListsInv
<1>7. CASE SyncCollection /\ Replacement
  <2>1. PICK token \in {0, version} : run' = [run EXCEPT !.pc = "inventory", !.upTo = token]
    BY <1>7 DEF SyncCollection, Replacement
  <2>2. run.pc = "list" /\ UNCHANGED <<kind, provider, stored>>
    BY <1>7 DEF SyncCollection
  <2>3. token \in Times /\ token <= version
    BY <1>1, TimeTypes
  <2>4. /\ run' \in RunType /\ run'.pc = "inventory" /\ run'.upTo = token /\ run'.more = run.more
        /\ run'.token = run.token /\ run'.seen = run.seen /\ run'.held = run.held /\ run'.allowed = run.allowed
    BY <1>1, <2>1, <2>3 DEF RunType
  <2>5. run.token <= version /\ (run.allowed => run.held) /\ (late # {} => ~run.held)
    BY <2>2 DEF IInv, ClockIsAhead, ReservationsAreKept
  <2>6. RunsAreOrdered' /\ TokenIsCovered' /\ RepairIsFresh' /\ SeenIsShown' /\ PagesAreTrue'
    BY <1>7, <2>2, <2>4 DEF IInv, RunsAreOrdered, TokenIsCovered, RepairIsFresh, SeenIsShown, Seen, PagesAreTrue,
                            Incremental, Replacement, provider, stored
  <2> QED BY <2>2, <2>3, <2>4, <2>5, <2>6, RunFrame
<1>8. CASE ListInventory
  <2>1. run.pc = "inventory" /\ Lists(Existing, run.upTo, FALSE) /\ UNCHANGED <<kind, provider, stored>>
    BY <1>8 DEF ListInventory
  <2>2. ~Incremental /\ cursor <= run.upTo /\ run.upTo <= version
    BY <1>1, <2>1 DEF IInv, RunsAreOrdered, ClockIsAhead, Replacement, Incremental
  <2>3. Existing \in SUBSET Objects
    BY DEF Existing
  <2> QED BY <1>1, <1>3, <2>1, <2>2, <2>3, ListsInv
<1> QED BY <1>5, <1>6, <1>7, <1>8 DEF Replacement

(* An item is what it is when it is read.                                  *)
LEMMA ReadsInv ==
    ASSUME IInv, NEW o \in Objects, ReadGoogleItem(o) \/ ReadGraphItem(o) \/ FetchObject(o)
    PROVE  IInv'
<1>1. TypeOK /\ run \in RunType /\ content \in [Objects -> Body]
  BY RecordTypes DEF IInv
<1>2. PICK etag \in Times : Reads(o, etag)
  <2>1. content[o].ver \in Times /\ run.page[o].etag \in Times
    BY <1>1 DEF Body, RunType, Item
  <2> QED BY <2>1, TimeTypes DEF ReadGoogleItem, ReadGraphItem, FetchObject
<1>3. run.pc = "read" /\ UNCHANGED <<kind, provider, stored>>
  BY <1>2 DEF Reads
<1> DEFINE item == [ver |-> content[o].ver, body |-> content[o].body, etag |-> etag]
<1>4. item \in Item /\ item.ver = content[o].ver /\ item.body = content[o].body
  BY <1>1 DEF Body, Item
<1>5. run' = [run EXCEPT !.page[o] = item]
  BY <1>2 DEF Reads
<1> HIDE DEF item
<1>6. /\ run' \in RunType /\ run'.pc = "read" /\ run'.upTo = run.upTo /\ run'.more = run.more /\ run'.token = run.token
      /\ run'.seen = run.seen /\ run'.held = run.held /\ run'.allowed = run.allowed
      /\ run'.page = [run.page EXCEPT ![o] = item]
  BY <1>1, <1>3, <1>4, <1>5 DEF RunType
<1>7. run'.page[o] = item /\ \A x \in Objects \ {o} : run'.page[x] = run.page[x]
  BY <1>1, <1>6 DEF RunType
<1>8. /\ run.token <= version /\ run.upTo <= version /\ cursor <= run.upTo /\ (run.allowed => run.held) /\ (late # {} => ~run.held)
  BY <1>3 DEF IInv, ClockIsAhead, ReservationsAreKept
<1>9. RunsAreOrdered' /\ TokenIsCovered' /\ RepairIsFresh' /\ SeenIsShown'
  BY <1>3, <1>6 DEF IInv, RunsAreOrdered, TokenIsCovered, RepairIsFresh, SeenIsShown, Seen, Incremental, Replacement,
                    provider, stored
<1>10. PagesAreTrue'
  <2>1. Paged(o)'
    BY <1>3, <1>4, <1>7 DEF Paged, provider
  <2>2. ASSUME NEW x \in Objects \ {o}, Paged(x) PROVE Paged(x)'
    BY <1>3, <1>6, <1>7, <2>2 DEF Paged, DealtWith, Right, Incremental, Malformed, provider, stored
  <2> QED BY <1>3, <1>6, <2>1, <2>2 DEF IInv, PagesAreTrue, provider
<1> QED BY <1>3, <1>6, <1>8, <1>9, <1>10, RunFrame

(* A page of what has been read: the rows it leaves, and the cursor of the *)
(* last page.                                                              *)
LEMMA ApplyPageInv == IInv /\ ApplyEventSyncPage => IInv'
<1> SUFFICES ASSUME IInv, ApplyEventSyncPage PROVE IInv'
  OBVIOUS
<1> DEFINE warnings == With(Malformed)
           last == Unread = {} /\ ~run.more
           degraded == run.degraded \/ warnings # {}
           seen == run.seen \cup Shown
           rows == [o \in Objects |->
                       IF o \in Shown \cup Removed THEN Settled
                       ELSE IF o \in warnings THEN Warned(quarantine[o], run.page[o].etag)
                       ELSE quarantine[o]]
           kept == [o \in Objects |->
                       IF o \in Shown THEN run.page[o].ver ELSE IF o \in Removed THEN 0 ELSE view[o]]
           quarantined == {o \in Objects : rows[o].active}
           swept == [o \in Objects |-> IF o \in seen \cup quarantined THEN kept[o] ELSE 0]
           page == [o \in Objects |-> IF o \in Unread THEN run.page[o] ELSE Unlisted]
<1>1. /\ TypeOK /\ run \in RunType /\ content \in [Objects -> Body] /\ quarantine \in [Objects -> Row]
      /\ view \in [Objects -> Times] /\ cursor \in Times /\ cursor \in Nat /\ version \in Nat
      /\ run.token \in Nat /\ run.upTo \in Times /\ run.upTo \in Nat /\ run.page \in [Objects -> Item]
      /\ run.seen \subseteq Objects
      /\ \A o \in Objects : content[o].ver \in Times /\ content[o].ver \in Nat /\ content[o].body \in Bodies
  <2>1. TypeOK /\ run \in RunType /\ content \in [Objects -> Body]
    BY RecordTypes DEF IInv
  <2> QED BY <2>1, RecordTypes, TimeTypes DEF RunType, Body
<1>2. /\ UNCHANGED <<kind, version, content, late, patched, clicks, reserved>> /\ run.pc = "read"
      /\ kind = "apple" => Unread = {}
      /\ quarantine' = rows
      /\ view' = IF last /\ Replacement THEN swept ELSE kept
      /\ cursor' = IF last /\ ~degraded /\ quarantined = {} THEN run.upTo ELSE cursor
      /\ run' = IF last THEN IdleRun
                ELSE [run EXCEPT !.seen = seen, !.degraded = degraded,
                          !.pc = IF run.more THEN "list" ELSE "read", !.token = run.upTo, !.page = page]
  BY DEF ApplyEventSyncPage, provider, Covered
<1>3. /\ run.upTo <= version /\ cursor <= run.upTo /\ cursor <= version /\ (run.allowed => run.held) /\ (late # {} => ~run.held)
      /\ run.more => Incremental /\ kind = "apple"
  BY <1>2 DEF IInv, ClockIsAhead, ReservationsAreKept, RunsAreOrdered
<1>4. /\ \A o \in Unread : o \notin Shown /\ o \notin Removed /\ o \notin warnings
      /\ \A o \in Objects : o \in Unread <=> run.page[o].body = "unread"
      /\ \A o \in Objects : o \in warnings <=> run.page[o].body \in Malformed
      /\ \A o \in Objects : o \in Shown <=> run.page[o].body = "in"
      /\ \A o \in Removed : o \in Objects /\ run.page[o].body \in {"absent", "out"}
      /\ Incremental => \A o \in Objects : run.page[o].body \in {"absent", "out"} => o \in Removed
      /\ Shown \subseteq Objects /\ warnings \subseteq Objects
  BY BodyTypes DEF Unread, With, Shown, Removed, Replacement, Incremental, Malformed
<1>5. ASSUME NEW o \in Objects
      PROVE  /\ rows[o] \in Row /\ rows[o].grant \in {0, quarantine[o].grant} /\ kept[o] \in Times
             /\ o \in Unread => rows[o] = quarantine[o] /\ kept[o] = view[o]
             /\ o \in warnings => rows[o].active
             /\ o \notin Shown \cup Removed \cup warnings => rows[o] = quarantine[o] /\ kept[o] = view[o]
             /\ o \in Shown => kept[o] = run.page[o].ver
             /\ o \in Removed => kept[o] = 0
  <2>1. quarantine[o] \in Row /\ run.page[o].etag \in Times /\ run.page[o].ver \in Times /\ view[o] \in Times
    BY <1>1 DEF Item
  <2>2. Warned(quarantine[o], run.page[o].etag) \in Row /\ Warned(quarantine[o], run.page[o].etag).active
        /\ Warned(quarantine[o], run.page[o].etag).grant \in {0, quarantine[o].grant}
    BY <2>1, WarnedRow
  <2>3. /\ o \in Shown => o \notin Removed /\ o \notin warnings
        /\ o \in Removed => o \notin Shown /\ o \notin warnings
    BY <1>4, BodyTypes
  <2> QED BY <1>4, <2>1, <2>2, <2>3, StartTypes, TimeTypes
<1>6. /\ rows \in [Objects -> Row] /\ kept \in [Objects -> Times] /\ swept \in [Objects -> Times]
      /\ page \in [Objects -> Item] /\ seen \subseteq Objects /\ degraded \in BOOLEAN
      /\ \A o \in Objects : page[o].body = IF o \in Unread THEN "unread" ELSE "unlisted"
      /\ \A o \in Objects : o \in quarantined <=> rows[o].active
      /\ \A o \in Objects : swept[o] = IF o \in seen \cup quarantined THEN kept[o] ELSE 0
  <2>1. rows \in [Objects -> Row] /\ kept \in [Objects -> Times]
    BY <1>5
  <2>2. swept \in [Objects -> Times]
    BY <2>1, TimeTypes
  <2>3. page \in [Objects -> Item]
    BY <1>1, StartTypes
  <2>4. degraded \in BOOLEAN
    BY <1>1 DEF RunType
  <2>5. \A o \in Objects : page[o].body = IF o \in Unread THEN "unread" ELSE "unlisted"
    BY <1>4 DEF Unlisted
  <2> QED BY <1>1, <1>4, <2>1, <2>2, <2>3, <2>4, <2>5
<1>7. \A o \in Objects : o \in seen <=> o \in run.seen \/ o \in Shown
  OBVIOUS
<1> HIDE DEF warnings, degraded, seen, rows, kept, quarantined, swept, page
(* What the page does to an object that has not changed since the listing. *)
<1> DEFINE Settles(o) == ~rows[o].active =>
               content[o].body \notin Malformed /\ kept[o] = IF content[o].body = "in" THEN content[o].ver ELSE 0
<1>8. ASSUME NEW o \in Objects, content[o].ver <= run.upTo, o \notin Unread, Incremental PROVE Settles(o)
  <2>1. Paged(o) /\ run.page[o].body # "unread"
    BY <1>2, <1>4, <1>8 DEF IInv, PagesAreTrue
  <2>2. CASE run.page[o].body = content[o].body /\ run.page[o].ver = content[o].ver
    BY <1>1, <1>4, <1>5, <1>8, <2>2, BodyTypes
  <2>3. CASE run.page[o].body = "unlisted" /\ DealtWith(o)
    <3>1. o \notin Shown \cup Removed \cup warnings
      BY <1>4, <2>3, BodyTypes DEF Malformed
    <3> QED BY <1>5, <1>8, <2>3, <3>1 DEF DealtWith, Right
  <2> QED BY <2>1, <2>2, <2>3 DEF Paged
<1>9. ASSUME NEW o \in Objects, content[o].ver <= run.upTo, o \notin Unread, Replacement
      PROVE  rows[o].active \/ (content[o].body \notin Malformed /\ (content[o].body = "in" => o \in seen))
  <2>1. Paged(o) /\ run.page[o].body # "unread"
    BY <1>2, <1>4, <1>9 DEF IInv, PagesAreTrue
  <2>2. CASE run.page[o].body = content[o].body /\ run.page[o].ver = content[o].ver
    BY <1>1, <1>4, <1>5, <1>7, <1>9, <2>2, BodyTypes
  <2>3. CASE run.page[o].body = "unlisted" /\ DealtWith(o)
    <3>1. o \notin Shown \cup Removed \cup warnings
      BY <1>4, <2>3, BodyTypes DEF Malformed
    <3> QED BY <1>5, <1>7, <1>9, <2>3, <3>1 DEF DealtWith, Replacement
  <2> QED BY <2>1, <2>2, <2>3 DEF Paged
<1>10. ASSUME NEW o \in seen, content[o].ver <= run.upTo, Replacement
       PROVE  content[o].body = "in" /\ kept[o] = content[o].ver
  <2>1. o \in Objects /\ Paged(o)
    BY <1>2, <1>6, <1>10 DEF IInv, PagesAreTrue
  <2>2. CASE o \in Shown
    BY <1>4, <1>5, <2>1, <2>2 DEF Paged
  <2>3. CASE o \notin Shown
    <3>1. content[o].body = "in" /\ view[o] = content[o].ver
      BY <1>2, <1>7, <1>10, <2>1, <2>3 DEF IInv, SeenIsShown, Seen
    <3>2. o \notin Removed /\ (o \in warnings => content[o].body \in Malformed)
      BY <1>4, <2>1, <3>1, BodyTypes DEF Paged, Malformed
    <3> QED BY <1>5, <2>1, <2>3, <3>1, <3>2, BodyTypes
  <2> QED BY <2>2, <2>3
<1>11. CASE last
  <2>1. run' = IdleRun /\ Unread = {}
    BY <1>2, <1>11
  <2>2. cursor' \in {cursor, run.upTo} /\ view' \in [Objects -> Times]
    BY <1>2, <1>6
  <2>3. TypeOK'
    <3>1. cursor' \in Times
      BY <1>1, <2>2
    <3>2. quarantine' \in [Objects -> Row]
      BY <1>2, <1>6
    <3> QED BY <1>1, <1>2, <2>1, <2>2, <3>1, <3>2, StartTypes, RecordTypes, TypeFrame
  <2>4. ClockIsAhead' /\ RunsAreOrdered' /\ CorrectionsAreOfEmpty'
    <3>1. cursor' <= version'
      BY <1>2, <1>3, <2>2
    <3>2. ClockIsAhead'
      BY <1>1, <1>2, <2>1, <3>1, StartTypes DEF IInv, ClockIsAhead
    <3>3. RunsAreOrdered'
      BY <2>1, StartTypes DEF RunsAreOrdered
    <3>4. CorrectionsAreOfEmpty'
      BY <1>2, <2>1, StartTypes DEF IInv, CorrectionsAreOfEmpty, CorrectsEmpty
    <3> QED BY <3>2, <3>3, <3>4
  <2>5. GrantsAreClicks' /\ ReservationsAreKept'
    BY <1>2, <1>5, <2>1, StartTypes DEF IInv, GrantsAreClicks, ReservationsAreKept
  <2>6. TokenIsCovered' /\ RepairIsFresh' /\ SeenIsShown' /\ PagesAreTrue'
    BY <2>1, StartTypes DEF TokenIsCovered, RepairIsFresh, SeenIsShown, PagesAreTrue
  <2>7. CursorIsCovered'
    <3>1. CASE Incremental
      <4>1. ASSUME NEW o \in Objects, content[o].ver <= cursor' PROVE Right(o)'
        <5>1. content[o].ver <= run.upTo
          BY <1>1, <1>3, <2>2, <4>1
        <5>2. Settles(o)
          BY <1>8, <2>1, <3>1, <5>1
        <5> QED BY <1>2, <3>1, <5>2 DEF Right, Replacement, Malformed
      <4> QED BY <1>2, <4>1 DEF CursorIsCovered, Covers
    <3>2. CASE Replacement /\ cursor' # 0
      <4>1. cursor' = run.upTo /\ quarantined = {} /\ view' = swept
        BY <1>2, <1>11, <3>2 DEF Replacement, Incremental
      <4>2. ASSUME NEW o \in Objects, content[o].ver <= run.upTo PROVE Right(o)'
        <5>1. ~rows[o].active /\ content[o].body \notin Malformed /\ (content[o].body = "in" => o \in seen)
          BY <1>6, <1>9, <2>1, <3>2, <4>1, <4>2
        <5>2. o \in seen => content[o].body = "in" /\ kept[o] = content[o].ver
          BY <1>10, <3>2, <4>2
        <5>3. view'[o] = IF o \in seen THEN kept[o] ELSE 0
          BY <1>6, <4>1
        <5> QED BY <1>2, <5>1, <5>2, <5>3 DEF Right, Malformed
      <4> QED BY <1>2, <4>1, <4>2 DEF CursorIsCovered, Covers
    <3> QED BY <3>1, <3>2 DEF CursorIsCovered, Replacement
  <2> QED BY <2>3, <2>4, <2>5, <2>6, <2>7 DEF IInv
<1>12. CASE ~last
  <2> DEFINE pc == IF run.more THEN "list" ELSE "read"
  <2>1. /\ run' = [run EXCEPT !.seen = seen, !.degraded = degraded, !.pc = pc, !.token = run.upTo, !.page = page]
        /\ view' = kept /\ cursor' = cursor
    BY <1>2, <1>12
  <2>2. /\ run' \in RunType /\ run'.pc = pc /\ run'.token = run.upTo /\ run'.upTo = run.upTo /\ run'.more = run.more
        /\ run'.seen = seen /\ run'.page = page /\ run'.held = run.held /\ run'.allowed = run.allowed
    BY <1>1, <1>6, <2>1 DEF RunType
  <2>3. TypeOK'
    <3>1. quarantine' \in [Objects -> Row] /\ view' \in [Objects -> Times]
      BY <1>2, <1>6, <2>1
    <3> QED BY <1>1, <1>2, <2>1, <2>2, <3>1, RecordTypes, TypeFrame
  <2>4. ClockIsAhead' /\ RunsAreOrdered' /\ CorrectionsAreOfEmpty'
    BY <1>2, <1>3, <2>1, <2>2 DEF IInv, ClockIsAhead, RunsAreOrdered, CorrectionsAreOfEmpty, CorrectsEmpty, Incremental
  <2>5. GrantsAreClicks' /\ ReservationsAreKept'
    BY <1>2, <1>3, <1>5, <2>2 DEF IInv, GrantsAreClicks, ReservationsAreKept
  <2>6. \A o \in Objects \ Unread : content[o].ver <= run.upTo /\ Incremental => Right(o)'
    BY <1>2, <1>8, <2>1 DEF Right, Malformed
  <2>7. \A o \in Unread : Right(o) => Right(o)'
    <3>1. \A o \in Unread : o \in Objects
      BY DEF Unread
    <3> QED BY <1>2, <1>5, <2>1, <3>1 DEF Right, Malformed
  <2>8. CursorIsCovered'
    <3>1. ASSUME Incremental, NEW o \in Objects, content[o].ver <= cursor PROVE Right(o)'
      <4>1. Right(o) /\ content[o].ver <= run.upTo
        BY <1>1, <1>3, <3>1 DEF IInv, CursorIsCovered, Covers, Incremental
      <4> QED BY <2>6, <2>7, <3>1, <4>1
    <3> QED BY <1>2, <2>1, <3>1 DEF CursorIsCovered, Covers, Incremental
  <2>9. TokenIsCovered'
    <3>1. ASSUME run.more PROVE Covers(run.upTo)'
      <4>1. Unread = {} /\ Incremental
        BY <1>2, <1>3, <3>1
      <4> QED BY <1>2, <2>2, <2>6, <4>1 DEF Covers
    <3> QED BY <2>2, <3>1 DEF TokenIsCovered, Covers
  <2>10. SeenIsShown'
    BY <1>2, <1>3, <1>10, <2>1, <2>2 DEF SeenIsShown, Seen, Replacement, Incremental
  <2>11. PagesAreTrue'
    <3>1. ASSUME NEW o \in Objects, content[o].ver <= run.upTo, o \notin Unread PROVE DealtWith(o)'
      <4>1. CASE Incremental
        BY <2>1, <2>6, <3>1, <4>1 DEF DealtWith, Incremental
      <4>2. CASE Replacement
        BY <1>2, <1>9, <2>1, <2>2, <3>1, <4>2 DEF DealtWith, Incremental, Replacement, Malformed
      <4> QED BY <4>1, <4>2 DEF Replacement
    <3>2. ASSUME NEW o \in Objects, content[o].ver <= run.upTo PROVE Paged(o)'
      BY <1>6, <2>2, <3>1, <3>2 DEF Paged
    <3> QED BY <1>2, <2>2, <3>2 DEF PagesAreTrue
  <2>12. RepairIsFresh'
    BY <2>2 DEF RepairIsFresh
  <2> QED BY <2>3, <2>4, <2>5, <2>8, <2>9, <2>10, <2>11, <2>12 DEF IInv
<1> QED BY <1>11, <1>12

(* The token expired: the next listing replaces what the cache holds.      *)
LEMMA ResetInv == IInv /\ ResetCalendarSync => IInv'
<1> SUFFICES ASSUME IInv, ResetCalendarSync PROVE IInv'
  OBVIOUS
<1>1. /\ cursor' = 0 /\ run' = [IdleRun EXCEPT !.pc = "list"]
      /\ UNCHANGED <<kind, version, content, late, patched, view, quarantine, clicks, reserved>>
  BY DEF ResetCalendarSync, provider
<1>2. /\ run' \in RunType /\ run'.pc = "list" /\ run'.token = 0 /\ run'.upTo = 0 /\ ~run'.more /\ run'.seen = {}
      /\ ~run'.held /\ ~run'.allowed
  BY <1>1, StartTypes DEF RunType
<1>3. TypeOK /\ version \in Nat
  BY RecordTypes, TimeTypes DEF IInv
<1>4. TypeOK'
  BY <1>1, <1>2, <1>3, TimeTypes, RecordTypes, TypeFrame
<1>5. ClockIsAhead' /\ RunsAreOrdered' /\ CorrectionsAreOfEmpty'
  BY <1>1, <1>2, <1>3 DEF IInv, ClockIsAhead, RunsAreOrdered, CorrectionsAreOfEmpty, CorrectsEmpty
<1>6. GrantsAreClicks' /\ ReservationsAreKept'
  BY <1>1, <1>2 DEF IInv, GrantsAreClicks, ReservationsAreKept
<1>7. CursorIsCovered' /\ TokenIsCovered' /\ RepairIsFresh' /\ SeenIsShown' /\ PagesAreTrue'
  BY <1>1, <1>2 DEF CursorIsCovered, TokenIsCovered, RepairIsFresh, SeenIsShown, PagesAreTrue, Incremental
<1> QED BY <1>4, <1>5, <1>6, <1>7 DEF IInv

(* A stuttering step changes nothing.                                      *)
LEMMA StutterInv == IInv /\ UNCHANGED vars => IInv'
<1> SUFFICES ASSUME IInv, UNCHANGED vars PROVE IInv'
  OBVIOUS
<1>1. /\ UNCHANGED <<kind, provider, stored, run>> /\ run \in RunType
  BY RecordTypes DEF IInv, vars
<1> QED BY <1>1, RunFrame DEF IInv, ClockIsAhead, RunsAreOrdered, CorrectionsAreOfEmpty, CorrectsEmpty, GrantsAreClicks,
          ReservationsAreKept, TokenIsCovered, Covers, Right, RepairIsFresh, SeenIsShown, Seen, PagesAreTrue, Paged,
          DealtWith, Incremental, Replacement, Malformed, provider, stored

(* Every step keeps the invariant.                                         *)
LEMMA NextInv == IInv /\ [Next]_vars => IInv'
<1> SUFFICES ASSUME IInv, [Next]_vars PROVE IInv'
  OBVIOUS
<1>1. CASE Repair
  BY <1>1, RepairRunInv, ReserveInv, PatchInv, ApplyRepairInv DEF Repair
<1>2. CASE Feed
  BY <1>2, ListingInv, ReadsInv, ApplyPageInv, ResetInv DEF Feed
<1>3. CASE ClaimDueCalendarSync \/ Fail
  BY <1>3, RepairRunInv
<1> QED BY <1>1, <1>2, <1>3, ProviderInv, ClickInv, LatePatchInv, StutterInv DEF Next

(* Every reachable state satisfies it.                                     *)
LEMMA Invariant == Spec => []IInv
BY InitInv, NextInv, PTL DEF Spec

-----------------------------------------------------------------------------
(* The calendar, its copy and the run of its feed keep their types.        *)
THEOREM TypeCorrect == Spec => []TypeOK
<1>1. IInv => TypeOK
  BY DEF IInv
<1> QED BY <1>1, Invariant, PTL

(* Every change the cursor covers is in the cache, whatever changed during *)
(* the listing, wherever a page ended, a REPORT was truncated, an object   *)
(* was repaired or the cursor reset (SyncEvents of the three adapters,     *)
(* applyEventSyncPageTx).                                                  *)
THEOREM CursorTellsTheTruth == Spec => []CursorCoversPages
<1>1. IInv => CursorCoversPages
  BY DEF IInv, CursorIsCovered, Covers, Right, CursorCoversPages
<1> QED BY <1>1, Invariant, PTL

(* The program changes an event at its provider only in a representation   *)
(* the operator clicked on, however late the patch is executed             *)
(* (RepairEventSyncObject).                                                *)
THEOREM OnlyClicksCorrect == Spec => []CorrectionsAreAuthorized
<1>1. IInv => CorrectionsAreAuthorized
  BY DEF IInv, GrantsAreClicks, CorrectionsAreAuthorized
<1> QED BY <1>1, Invariant, PTL

(* While a patch may still be executed its calendar is reserved            *)
(* (repairObject, BeginWriteDispatch).                                     *)
THEOREM UnsettledStaysReserved == Spec => []UnsettledPatchIsReserved
<1>1. IInv => UnsettledPatchIsReserved
  BY DEF IInv, ReservationsAreKept, UnsettledPatchIsReserved
<1> QED BY <1>1, Invariant, PTL
=============================================================================
