---------------------- MODULE SourceProjection_proofs ----------------------
(***************************************************************************)
(* Proofs about SourceProjection, for every set of instances, runs and     *)
(* operations and every bound on the history, the generations and the      *)
(* pending mutations.                                                      *)
(***************************************************************************)
EXTENDS SourceProjection, FiniteSetTheorems, TLAPS

-----------------------------------------------------------------------------
(* The inductive invariant.                                                *)

Positions == 1..Now

SessionRow == [pc : {"idle", "claimed", "reset", "planned", "paging", "page"},
               gen : Nat, cursor : Nat, epoch : Nat, base : Nat,
               capture : BOOLEAN, upTo : Nat, todo : SUBSET Instances,
               page : SUBSET Instances, degraded : BOOLEAN]

SourceRow == [gen : Nat, cursor : Nat, owner : Workers \cup {None},
              status : {"pending", "syncing", "ready", "degraded", "failed"},
              lease : {"none", "live", "expired"}]

Typed ==
    /\ history \in Seq([Instances -> Place]) /\ Now \in Nat \ {0}
    /\ op \in [Ops -> {"new", "open", "done"}] /\ landed \in [Ops -> 0..Now]
    /\ source \in SourceRow /\ source.cursor \in 0..Now
    /\ quarantined \in BOOLEAN
    /\ guard \in [epoch : Nat, revision : Nat]
    /\ snapshots \subseteq Snapshot /\ attempts \subseteq Attempt
    /\ session \in [Workers -> SessionRow]

(* An instance that differs between two positions changed in between: what *)
(* an incremental listing is able to tell.                                 *)
ChangesAreListed ==
    \A c, p \in Positions : c <= p =>
        \A i \in Instances : history[c][i] # history[p][i] => i \in Listed(c, p)

(* The positions of a run: it reads from a cursor of the past up to a      *)
(* position that it has fixed.                                             *)
RunsAreInThePast ==
    \A w \in Workers :
        /\ session[w].cursor \in 0..Now /\ session[w].upTo \in 0..Now
        /\ session[w].upTo # 0 => session[w].cursor <= session[w].upTo
        /\ session[w].page \subseteq session[w].todo
        /\ session[w].pc = "page" => session[w].upTo # 0
        /\ session[w].capture => session[w].pc \in {"paging", "page"}

(* A generation belongs to one run and, from its plan on, to its attempt.  *)
GenerationsAreOwn ==
    /\ \A w \in Workers : session[w].pc # "idle" => session[w].gen <= source.gen
    /\ \A v, w \in Workers :
            session[v].pc # "idle" /\ session[w].pc # "idle" /\ session[v].gen = session[w].gen
                => v = w
    /\ \A a \in attempts : a.gen <= source.gen
    /\ \A w \in Workers : session[w].pc \in {"claimed", "reset", "planned"} =>
            session[w].upTo = 0 /\ MyAttempt(w) = {}

(* At most one attempt and one snapshot are kept. *)
OneIsKept ==
    /\ \A a, b \in attempts : a = b
    /\ \A s, t \in snapshots : s = t
    /\ \A s \in snapshots : s.revision = guard.revision
    /\ guard.revision # 0 => snapshots # {}

(* What a capturing run has staged and what is left to fetch is what its   *)
(* listing reports.                                                        *)
StagedIsListed ==
    \A w \in Workers : session[w].capture => \A a \in MyAttempt(w) :
        /\ a.cursor = session[w].cursor
        /\ session[w].upTo = 0 => a.pages = <<>>
        /\ session[w].upTo # 0 => Changed(a, session[w].todo) = Listed(a.cursor, session[w].upTo)

(* What was read in the current epoch was read after this program's own    *)
(* mutations landed.                                                       *)
EpochsAreFenced ==
    /\ \A a \in attempts : a.epoch <= guard.epoch
    /\ \A s \in snapshots : s.epoch <= guard.epoch
    /\ \A w \in Workers : session[w].epoch <= guard.epoch
    /\ \A a \in attempts : a.epoch = guard.epoch =>
        /\ Intents = {}
        /\ \A w \in Workers :
            session[w].pc # "idle" /\ session[w].gen = a.gen /\ session[w].upTo # 0
                => \A o \in Ops : landed[o] <= session[w].upTo
    /\ \A s \in snapshots : s.epoch = guard.epoch =>
        Intents = {} /\ \A o \in Ops : landed[o] <= s.cursor

(* A verified snapshot is the calendar at a position of the past. *)
SnapshotsAreTrue ==
    \A s \in snapshots : s.cursor \in Positions /\ s.events = Inside(s.cursor)

IInv ==
    /\ Typed
    /\ ChangesAreListed
    /\ RunsAreInThePast
    /\ GenerationsAreOwn
    /\ OneIsKept
    /\ StagedIsListed
    /\ EpochsAreFenced
    /\ SnapshotsAreTrue

-----------------------------------------------------------------------------
(* Initial state.                                                          *)

(* The calendar has one position, and nothing was read or published.       *)
LEMMA InitInv == Init => IInv
<1> SUFFICES ASSUME Init PROVE IInv
  OBVIOUS
<1> USE DEF Init
<1>1. /\ history \in Seq([Instances -> Place]) /\ Now = 1
      /\ history[1] = [i \in Instances |-> "in"]
  <2>1. [i \in Instances |-> "in"] \in [Instances -> Place]
    BY DEF Place
  <2> QED BY <2>1 DEF Now
<1>2. IdleSession \in SessionRow /\ source \in SourceRow
  BY DEF IdleSession, SessionRow, SourceRow
<1>3. Typed
  <2>1. op \in [Ops -> {"new", "open", "done"}] /\ landed \in [Ops -> 0..Now]
    BY <1>1
  <2>2. session \in [Workers -> SessionRow]
    BY <1>2
  <2>3. source.cursor \in 0..Now /\ guard \in [epoch : Nat, revision : Nat]
    BY <1>1
  <2>4. /\ quarantined \in BOOLEAN
        /\ snapshots \subseteq Snapshot /\ attempts \subseteq Attempt
    OBVIOUS
  <2> QED BY <1>1, <1>2, <2>1, <2>2, <2>3, <2>4 DEF Typed
<1>4. Positions = {1}
  BY <1>1 DEF Positions
<1>5. ChangesAreListed /\ SnapshotsAreTrue
  BY <1>4 DEF ChangesAreListed, SnapshotsAreTrue
<1>6. RunsAreInThePast /\ GenerationsAreOwn /\ StagedIsListed
  BY <1>1 DEF RunsAreInThePast, GenerationsAreOwn, StagedIsListed, IdleSession
<1>7. OneIsKept /\ EpochsAreFenced
  BY DEF OneIsKept, EpochsAreFenced, IdleSession
<1> QED BY <1>3, <1>5, <1>6, <1>7 DEF IInv

-----------------------------------------------------------------------------
(* The history.                                                            *)

(* A change adds a position and leaves the earlier ones, and what listings *)
(* up to them report, as they were.                                        *)
LEMMA HistoryGrows ==
    ASSUME Typed, NEW i \in Instances, NEW place \in Place, ChangedTo(i, place)
    PROVE  /\ history' \in Seq([Instances -> Place]) /\ Now' = Now + 1
           /\ \A p \in Positions : history'[p] = history[p]
           /\ \A p \in Positions : Inside(p)' = Inside(p)
           /\ \A c \in 0..Now, p \in Positions : Listed(c, p)' = Listed(c, p)
<1> USE DEF Typed
<1>1. [history[Now] EXCEPT ![i] = place] \in [Instances -> Place]
  <2>1. history[Now] \in [Instances -> Place]
    BY DEF Now
  <2> QED BY <2>1
<1>2. PICK new \in [Instances -> Place] : history' = Append(history, new)
  BY <1>1 DEF ChangedTo
<1>3. history' \in Seq([Instances -> Place]) /\ Now' = Now + 1
  BY <1>2 DEF Now
<1>4. \A p \in Positions : history'[p] = history[p]
  BY <1>2 DEF Positions, Now
<1>5. \A p \in Positions : Inside(p)' = Inside(p)
  BY <1>4 DEF Inside
<1>6. ASSUME NEW c \in 0..Now, NEW p \in Positions
      PROVE  Listed(c, p)' = Listed(c, p)
  <2>1. CASE c = 0
    BY <1>5, <2>1 DEF Listed
  <2>2. CASE c # 0
    <3>1. \A q \in (c + 1)..p : q \in Positions /\ q - 1 \in Positions
      BY <2>2 DEF Positions
    <3>2. \A q \in (c + 1)..p : history'[q] = history[q] /\ history'[q - 1] = history[q - 1]
      BY <1>4, <3>1
    <3> QED BY <2>2, <3>2 DEF Listed
  <2> QED BY <2>1, <2>2
<1> QED BY <1>3, <1>4, <1>5, <1>6

(* What changed over a longer stretch changed in its last step or before.  *)
LEMMA ListingGrows ==
    ASSUME IInv, NEW i \in Instances, NEW place \in Place, ChangedTo(i, place)
    PROVE  ChangesAreListed'
<1> USE DEF IInv
<1>1. /\ history' \in Seq([Instances -> Place]) /\ Now' = Now + 1
      /\ \A p \in Positions : history'[p] = history[p]
      /\ \A c \in 0..Now, p \in Positions : Listed(c, p)' = Listed(c, p)
      /\ Now \in Nat
  BY HistoryGrows DEF Typed
<1> SUFFICES ASSUME NEW c \in 1..(Now + 1), NEW p \in 1..(Now + 1), c <= p,
                    NEW j \in Instances, history'[c][j] # history'[p][j]
             PROVE  j \in Listed(c, p)'
  BY <1>1 DEF ChangesAreListed, Positions
<1>2. CASE p \in Positions
  <2>1. c \in Positions /\ c \in 0..Now
    BY <1>1, <1>2 DEF Positions
  <2>2. history[c][j] # history[p][j]
    BY <1>1, <1>2, <2>1
  <2> QED BY <1>1, <1>2, <2>1, <2>2 DEF ChangesAreListed
<1>3. CASE p \notin Positions
  <2>1. p = Now + 1 /\ c \in Positions /\ Now \in Positions
    BY <1>1, <1>3 DEF Positions, Typed
  <2>2. Listed(c, p)' = {k \in Instances : \E q \in (c + 1)..p : history'[q][k] # history'[q - 1][k]}
    BY <2>1 DEF Listed, Positions
  <2>3. CASE history'[p][j] # history'[Now][j]
    <3>1. p \in (c + 1)..p /\ p - 1 = Now
      BY <1>1, <2>1 DEF Positions
    <3> QED BY <2>2, <2>3, <3>1
  <2>4. CASE history'[p][j] = history'[Now][j]
    <3>1. history[c][j] # history[Now][j] /\ c <= Now
      BY <1>1, <2>1, <2>4 DEF Positions
    <3>2. j \in Listed(c, Now)
      BY <2>1, <3>1 DEF ChangesAreListed
    <3>3. PICK q \in (c + 1)..Now : history'[q][j] # history'[q - 1][j]
      <4>1. Listed(c, Now) = {k \in Instances : \E q \in (c + 1)..Now : history[q][k] # history[q - 1][k]}
        BY <2>1 DEF Listed, Positions
      <4>2. PICK q \in (c + 1)..Now : history[q][j] # history[q - 1][j]
        BY <3>2, <4>1
      <4>3. q \in Positions /\ q - 1 \in Positions
        BY <1>1, <2>1 DEF Positions
      <4> QED BY <1>1, <4>2, <4>3
    <3>4. q \in (c + 1)..p
      BY <1>1, <2>1 DEF Positions
    <3> QED BY <2>2, <3>3, <3>4
  <2> QED BY <2>3, <2>4
<1> QED BY <1>2, <1>3
-----------------------------------------------------------------------------
(* Steps of the provider.                                                  *)

(* A change of the calendar, by anyone or by an open operation of this     *)
(* program: everything read so far stays what it was, and what was read in *)
(* the current epoch has no open operation beside it.                      *)
LEMMA ProviderStep ==
    ASSUME IInv, NEW i \in Instances, NEW place \in Place, ChangedTo(i, place),
           UNCHANGED <<op, source, quarantined, guard, snapshots, attempts, session>>,
           \/ landed' = landed
           \/ \E o \in Fences \cup SourceRuns :
                op[o] = "open" /\ landed' = [landed EXCEPT ![o] = Now + 1]
    PROVE  IInv'
<1> USE DEF IInv
<1>1. /\ history' \in Seq([Instances -> Place]) /\ Now' = Now + 1
      /\ \A p \in Positions : Inside(p)' = Inside(p)
      /\ \A c \in 0..Now, p \in Positions : Listed(c, p)' = Listed(c, p)
      /\ Now \in Nat \ {0}
  BY HistoryGrows DEF Typed
<1>2. /\ \A n \in 0..Now : n \in 0..Now'
      /\ \A p \in Positions : p \in 1..Now'
      /\ Now + 1 \in 0..Now'
  BY <1>1 DEF Positions
<1>3. Typed'
  <2>1. landed' \in [Ops -> 0..Now']
    BY <1>2 DEF Typed
  <2> QED BY <1>1, <1>2, <2>1 DEF Typed
<1>4. ChangesAreListed'
  BY ListingGrows
<1>5. RunsAreInThePast'
  BY <1>2 DEF RunsAreInThePast
<1>6. GenerationsAreOwn' /\ OneIsKept'
  BY DEF GenerationsAreOwn, OneIsKept, MyAttempt
<1>7. StagedIsListed'
  <2> SUFFICES ASSUME NEW w \in Workers, session[w].capture, NEW a \in MyAttempt(w)
               PROVE  /\ a.cursor = session[w].cursor
                      /\ session[w].upTo = 0 => a.pages = <<>>
                      /\ session[w].upTo # 0 =>
                            Changed(a, session[w].todo) = Listed(a.cursor, session[w].upTo)'
    BY DEF StagedIsListed, MyAttempt, Changed
  <2>1. /\ a.cursor = session[w].cursor
        /\ session[w].upTo = 0 => a.pages = <<>>
        /\ session[w].upTo # 0 =>
              Changed(a, session[w].todo) = Listed(a.cursor, session[w].upTo)
    BY DEF StagedIsListed
  <2>2. /\ session[w].cursor \in 0..Now /\ session[w].upTo \in 0..Now
        /\ session[w].upTo # 0 => session[w].upTo \in Positions
    BY <1>1 DEF RunsAreInThePast, Positions
  <2> QED BY <1>1, <2>1, <2>2
<1>8. EpochsAreFenced'
  <2>1. Intents' = Intents
    BY DEF Intents
  <2>2. Intents = {} => landed' = landed
    BY DEF Intents
  <2> QED BY <2>1, <2>2 DEF EpochsAreFenced
<1>9. SnapshotsAreTrue'
  BY <1>1, <1>2 DEF SnapshotsAreTrue, Positions
<1> QED BY <1>3, <1>4, <1>5, <1>6, <1>7, <1>8, <1>9

-----------------------------------------------------------------------------
(* Steps that leave the runs and what they published alone.                *)

(* The sync row moves on, and a new intent or a resolved one opens a new   *)
(* epoch.                                                                  *)
LEMMA QuietStep ==
    ASSUME IInv, UNCHANGED <<history, landed, snapshots, attempts, session>>,
           op' \in [Ops -> {"new", "open", "done"}], quarantined' \in BOOLEAN,
           source' \in SourceRow, source'.cursor \in 0..Now,
           source.gen <= source'.gen,
           guard' \in [epoch : Nat, revision : Nat], guard'.revision = guard.revision,
           \/ guard'.epoch = guard.epoch /\ Intents' = Intents
           \/ guard'.epoch = guard.epoch + 1
    PROVE  IInv'
<1> USE DEF IInv
<1>1. Now' = Now
  BY DEF Now
<1>2. Typed'
  BY <1>1 DEF Typed
<1>3. ChangesAreListed' /\ SnapshotsAreTrue' /\ StagedIsListed'
  <2>1. /\ Positions' = Positions
        /\ \A p : Inside(p)' = Inside(p)
        /\ \A c, p : Listed(c, p)' = Listed(c, p)
        /\ \A w : MyAttempt(w)' = MyAttempt(w)
    BY <1>1 DEF Positions, Inside, Listed, MyAttempt
  <2>2. ChangesAreListed'
    BY <2>1 DEF ChangesAreListed
  <2>3. SnapshotsAreTrue'
    BY <2>1 DEF SnapshotsAreTrue
  <2>4. StagedIsListed'
    BY <2>1 DEF StagedIsListed, Changed
  <2> QED BY <2>2, <2>3, <2>4
<1>4. RunsAreInThePast' /\ OneIsKept'
  BY <1>1 DEF RunsAreInThePast, OneIsKept
<1>5. GenerationsAreOwn'
  <2>1. /\ source.gen \in Nat /\ source'.gen \in Nat
        /\ \A w \in Workers : session[w].gen \in Nat
        /\ \A a \in attempts : a.gen \in Nat
    BY DEF Typed, SourceRow, SessionRow, Attempt
  <2>2. /\ \A w \in Workers : session[w].pc # "idle" => session[w].gen <= source'.gen
        /\ \A a \in attempts : a.gen <= source'.gen
    BY <2>1 DEF GenerationsAreOwn
  <2> QED BY <2>2 DEF GenerationsAreOwn, MyAttempt
<1>6. EpochsAreFenced'
  <2>1. CASE guard'.epoch = guard.epoch /\ Intents' = Intents
    BY <2>1 DEF EpochsAreFenced
  <2>2. CASE guard'.epoch = guard.epoch + 1
    <3>1. /\ guard.epoch \in Nat
          /\ \A w \in Workers : session[w].epoch \in Nat
          /\ \A a \in attempts : a.epoch \in Nat
          /\ \A s \in snapshots : s.epoch \in Nat
      BY DEF Typed, SessionRow, Attempt, Snapshot
    <3>2. /\ \A w \in Workers : session[w].epoch < guard'.epoch
          /\ \A a \in attempts : a.epoch < guard'.epoch
          /\ \A s \in snapshots : s.epoch < guard'.epoch
      BY <2>2, <3>1 DEF EpochsAreFenced
    <3>3. /\ \A w \in Workers : session[w].epoch <= guard'.epoch
          /\ \A a \in attempts : a.epoch <= guard'.epoch /\ a.epoch # guard'.epoch
          /\ \A s \in snapshots : s.epoch <= guard'.epoch /\ s.epoch # guard'.epoch
      BY <2>2, <3>1, <3>2
    <3> QED BY <3>3 DEF EpochsAreFenced
  <2> QED BY <2>1, <2>2
<1> QED BY <1>2, <1>3, <1>4, <1>5, <1>6

(* The edits of the sync row. *)
LEMMA SourceEdits ==
    ASSUME Typed, NEW status \in {"pending", "syncing", "ready", "degraded", "failed"},
           NEW cursor \in 0..Now
    PROVE  /\ Restarted(source) \in SourceRow /\ Restarted(source).cursor \in 0..Now
           /\ Restarted(source).gen = source.gen + 1
           /\ source.gen \in Nat
           /\ \A row \in {Released([source EXCEPT !.status = status]),
                          Released([source EXCEPT !.cursor = cursor, !.status = status]),
                          [source EXCEPT !.lease = "expired"]} :
                row \in SourceRow /\ row.cursor \in 0..Now /\ row.gen = source.gen
<1>1. source \in SourceRow /\ cursor \in Nat /\ 0 \in 0..Now /\ source.cursor \in 0..Now
  BY DEF Typed
<1>a. ASSUME NEW row \in SourceRow
      PROVE  Released(row) \in SourceRow
  BY None \in Workers \cup {None} DEF Released, SourceRow
<1>b. /\ [source EXCEPT !.status = status] \in SourceRow
      /\ [source EXCEPT !.cursor = cursor, !.status = status] \in SourceRow
      /\ [source EXCEPT !.lease = "expired"] \in SourceRow
  <2>1. [source EXCEPT !.status = status] \in SourceRow
    BY <1>1 DEF SourceRow
  <2>2. [source EXCEPT !.cursor = cursor, !.status = status] \in SourceRow
    BY <1>1 DEF SourceRow
  <2>3. [source EXCEPT !.lease = "expired"] \in SourceRow
    BY <1>1 DEF SourceRow
  <2> QED BY <2>1, <2>2, <2>3
<1>c. [source EXCEPT !.cursor = 0, !.gen = @ + 1, !.status = "pending"] \in SourceRow
  <2>1. source.gen + 1 \in Nat /\ 0 \in Nat
    BY <1>1 DEF SourceRow
  <2> QED BY <1>1, <2>1 DEF SourceRow
<1>2. /\ Released([source EXCEPT !.status = status]) \in SourceRow
      /\ Released([source EXCEPT !.cursor = cursor, !.status = status]) \in SourceRow
      /\ [source EXCEPT !.lease = "expired"] \in SourceRow
      /\ Restarted(source) \in SourceRow
  BY <1>a, <1>b, <1>c DEF Restarted
<1>3. /\ Released([source EXCEPT !.status = status]).cursor = source.cursor
      /\ Released([source EXCEPT !.status = status]).gen = source.gen
      /\ Released([source EXCEPT !.cursor = cursor, !.status = status]).cursor = cursor
      /\ Released([source EXCEPT !.cursor = cursor, !.status = status]).gen = source.gen
      /\ [source EXCEPT !.lease = "expired"].cursor = source.cursor
      /\ [source EXCEPT !.lease = "expired"].gen = source.gen
      /\ Restarted(source).cursor = 0 /\ Restarted(source).gen = source.gen + 1
  BY <1>1 DEF Released, Restarted, SourceRow
<1>4. source.gen \in Nat
  BY <1>1 DEF SourceRow
<1> QED BY <1>1, <1>2, <1>3, <1>4

(* Operations begin, are resolved and released.                            *)
LEMMA FenceStepInv ==
    ASSUME IInv, NEW o \in Ops,
           \/ o \in Fences /\ (BeginProjectionMutation(o) \/ ResolveProjectionMutation(o))
           \/ o \in SourceRuns \cup CopyRuns /\ BeginExclusiveDispatch(o)
           \/ o \in SourceRuns \cup CopyRuns /\ ReleaseExclusiveAfterConfirmedRun(o)
    PROVE  IInv'
<1> USE DEF IInv
<1>1. UNCHANGED <<history, landed, snapshots, attempts, session, quarantined>>
  BY DEF BeginProjectionMutation, ResolveProjectionMutation, BeginExclusiveDispatch,
         ReleaseExclusiveAfterConfirmedRun, provider
<1>2. op' \in [Ops -> {"new", "open", "done"}]
  BY DEF BeginProjectionMutation, ResolveProjectionMutation, BeginExclusiveDispatch,
         ReleaseExclusiveAfterConfirmedRun, Typed
<1>3. source' = source \/ source' = Restarted(source)
  BY DEF BeginProjectionMutation, ResolveProjectionMutation, BeginExclusiveDispatch,
         ReleaseExclusiveAfterConfirmedRun
<1>4. source' \in SourceRow /\ source'.cursor \in 0..Now /\ source.gen <= source'.gen
  <2>1. /\ Restarted(source) \in SourceRow /\ Restarted(source).cursor \in 0..Now
        /\ Restarted(source).gen = source.gen + 1 /\ source.gen \in Nat
    BY SourceEdits DEF Typed
  <2>2. source \in SourceRow /\ source.cursor \in 0..Now
    BY DEF Typed
  <2> QED BY <1>3, <2>1, <2>2
<1>5. /\ Advanced(1) \in [epoch : Nat, revision : Nat]
      /\ Advanced(1).revision = guard.revision /\ Advanced(1).epoch = guard.epoch + 1
  BY DEF Typed, Advanced
<1>6. guard' = Advanced(1) \/ (guard' = guard /\ o \in CopyRuns)
  BY DEF BeginProjectionMutation, ResolveProjectionMutation, BeginExclusiveDispatch,
         ReleaseExclusiveAfterConfirmedRun
<1>7. o \in CopyRuns => Intents' = Intents
  <2>1. \A x \in Fences \cup SourceRuns : o \in CopyRuns => x # o
    BY ProjectionConstants
  <2>2. \A x \in Ops \ {o} : op'[x] = op[x]
    BY DEF BeginProjectionMutation, ResolveProjectionMutation, BeginExclusiveDispatch,
           ReleaseExclusiveAfterConfirmedRun, Typed
  <2> QED BY <2>1, <2>2 DEF Intents, Ops
<1>8. guard \in [epoch : Nat, revision : Nat] /\ quarantined \in BOOLEAN
  BY DEF Typed
<1> QED BY <1>1, <1>2, <1>4, <1>5, <1>6, <1>7, <1>8, QuietStep

(* The sync row's own steps.                                               *)
LEMMA RowStepInv ==
    ASSUME IInv, LeaseExpires \/ ScheduleCalendarSync \/ RepairQuarantine
    PROVE  IInv'
<1> USE DEF IInv
<1>1. UNCHANGED <<history, landed, op, guard, snapshots, attempts, session>>
  BY DEF LeaseExpires, ScheduleCalendarSync, RepairQuarantine, provider
<1>2. Intents' = Intents
  BY <1>1 DEF Intents
<1>3. source' \in SourceRow /\ source'.cursor \in 0..Now /\ source.gen <= source'.gen
  <2>1. /\ Restarted(source) \in SourceRow /\ Restarted(source).cursor \in 0..Now
        /\ Restarted(source).gen = source.gen + 1 /\ source.gen \in Nat
        /\ \A row \in {Released([source EXCEPT !.status = "pending"]),
                       [source EXCEPT !.lease = "expired"]} :
                row \in SourceRow /\ row.cursor \in 0..Now /\ row.gen = source.gen
    BY SourceEdits DEF Typed
  <2>2. \/ source' = source \/ source' = Restarted(source)
        \/ source' \in {Released([source EXCEPT !.status = "pending"]),
                        [source EXCEPT !.lease = "expired"]}
    <3>1. CASE LeaseExpires
      BY <3>1 DEF LeaseExpires
    <3>2. CASE ScheduleCalendarSync
      BY <3>2 DEF ScheduleCalendarSync
    <3>3. CASE RepairQuarantine
      BY <3>3 DEF RepairQuarantine
    <3> QED BY <3>1, <3>2, <3>3
  <2>3. source \in SourceRow /\ source.cursor \in 0..Now
    BY DEF Typed
  <2>4. source' \in SourceRow /\ source'.cursor \in 0..Now
    BY <2>1, <2>2, <2>3
  <2>5. source'.gen \in {source.gen, source.gen + 1}
    BY <2>1, <2>2
  <2> QED BY <2>1, <2>4, <2>5
<1>4. quarantined' \in BOOLEAN
  BY DEF LeaseExpires, ScheduleCalendarSync, RepairQuarantine, Typed
<1>5. op' \in [Ops -> {"new", "open", "done"}] /\ guard' \in [epoch : Nat, revision : Nat]
  BY <1>1 DEF Typed
<1> QED BY <1>1, <1>2, <1>3, <1>4, <1>5, QuietStep

-----------------------------------------------------------------------------
(* Steps of a run.                                                         *)

EarlyStages == {"claimed", "reset", "planned"}

(* What a run may become next to the attempts that are kept: it keeps its  *)
(* generation or takes the next one, and what it reads stays what its      *)
(* attempt records.                                                        *)
RunMayBecome(w, s, kept, nextGen) ==
    /\ s.cursor \in 0..Now /\ s.upTo \in 0..Now
    /\ s.upTo # 0 => s.cursor <= s.upTo
    /\ s.page \subseteq s.todo
    /\ s.pc = "page" => s.upTo # 0
    /\ s.capture => s.pc \in {"paging", "page"}
    /\ s.pc # "idle" =>
        \/ s.gen = source.gen + 1 /\ nextGen = source.gen + 1
        \/ session[w].pc # "idle" /\ s.gen = session[w].gen
    /\ s.pc \in EarlyStages =>
        s.upTo = 0 /\ (s.gen = source.gen + 1 \/ session[w].pc \in EarlyStages)
    /\ s.epoch <= guard.epoch
    /\ \A a \in kept : s.capture /\ a.gen = s.gen =>
        /\ a.cursor = s.cursor
        /\ s.upTo = 0 => a.pages = <<>>
        /\ s.upTo # 0 => Changed(a, s.todo) = Listed(a.cursor, s.upTo)
    /\ \A a \in kept :
        s.pc # "idle" /\ a.gen = s.gen /\ a.epoch = guard.epoch /\ s.upTo # 0
            => \A o \in Ops : landed[o] <= s.upTo

(* A run that moves on alone, with the attempts as they were or with its   *)
(* own attempt in their place.                                             *)
LEMMA RunStep ==
    ASSUME IInv, NEW w \in Workers, NEW s \in SessionRow,
           session' = [session EXCEPT ![w] = s],
           UNCHANGED <<history, op, landed, guard, snapshots>>,
           source' \in SourceRow, source'.cursor \in 0..Now, quarantined' \in BOOLEAN,
           source.gen <= source'.gen,
           \/ attempts' = attempts
           \/ /\ s.pc \notin EarlyStages \cup {"idle"}
              /\ \E x \in Attempt :
                    /\ attempts' = {x} /\ x.gen = s.gen /\ x.epoch <= guard.epoch
                    /\ x.epoch = guard.epoch => Intents = {},
           RunMayBecome(w, s, attempts', source'.gen)
    PROVE  IInv'
<1> USE DEF IInv
<1>1. /\ Now' = Now /\ Positions' = Positions /\ Intents' = Intents
      /\ \A p \in Positions : Inside(p)' = Inside(p)
      /\ \A c, p : Listed(c, p)' = Listed(c, p)
  BY DEF Now, Positions, Intents, Inside, Listed
<1>2. session'[w] = s /\ \A v \in Workers \ {w} : session'[v] = session[v]
  BY DEF Typed
<1>3. attempts' \subseteq Attempt /\ \A a, b \in attempts' : a = b
  BY DEF Typed, OneIsKept
<1>4. /\ source.gen \in Nat /\ source'.gen \in Nat /\ s.gen \in Nat
      /\ \A v \in Workers : session[v].gen \in Nat
      /\ \A a \in attempts' : a.gen \in Nat
      /\ \A a \in attempts : a.gen \in Nat
  BY <1>3 DEF Typed, SourceRow, SessionRow, Attempt
<1>5. Typed'
  BY <1>1, <1>3 DEF Typed
<1>6. ChangesAreListed' /\ SnapshotsAreTrue'
  BY <1>1 DEF ChangesAreListed, SnapshotsAreTrue
<1>7. OneIsKept'
  BY <1>3 DEF OneIsKept
<1>8. RunsAreInThePast'
  BY <1>1, <1>2 DEF RunsAreInThePast, RunMayBecome
<1>9. s.pc # "idle" => s.gen <= source'.gen
  BY <1>4 DEF RunMayBecome, GenerationsAreOwn
<1>10. \A v \in Workers \ {w} : session[v].pc # "idle" /\ s.pc # "idle" => session[v].gen # s.gen
  <2> SUFFICES ASSUME NEW v \in Workers \ {w}, session[v].pc # "idle", s.pc # "idle"
               PROVE  session[v].gen # s.gen
    OBVIOUS
  <2>1. session[v].gen <= source.gen
    BY DEF GenerationsAreOwn
  <2>2. session[w].pc # "idle" => session[v].gen # session[w].gen
    BY DEF GenerationsAreOwn
  <2> QED BY <1>4, <2>1, <2>2 DEF RunMayBecome
<1>11. GenerationsAreOwn'
  <2>1. \A v \in Workers : session'[v].pc # "idle" => session'[v].gen <= source'.gen
    BY <1>2, <1>4, <1>9 DEF GenerationsAreOwn
  <2>2. \A u, v \in Workers :
            session'[u].pc # "idle" /\ session'[v].pc # "idle" /\ session'[u].gen = session'[v].gen
                => u = v
    BY <1>2, <1>10 DEF GenerationsAreOwn
  <2>3. \A a \in attempts' : a.gen <= source'.gen
    BY <1>4, <1>9 DEF GenerationsAreOwn
  <2>4. ASSUME NEW v \in Workers, session'[v].pc \in EarlyStages
        PROVE  session'[v].upTo = 0 /\ \A a \in attempts' : a.gen # session'[v].gen
    <3>1. CASE v = w
      <4>1. attempts' = attempts /\ s.pc \in EarlyStages
        BY <1>2, <2>4, <3>1
      <4>2. \A a \in attempts : a.gen # source.gen + 1
        BY <1>4 DEF GenerationsAreOwn
      <4>3. session[w].pc \in EarlyStages => \A a \in attempts : a.gen # session[w].gen
        BY DEF GenerationsAreOwn, MyAttempt, EarlyStages
      <4>4. s.upTo = 0
        BY <4>1 DEF RunMayBecome
      <4>5. s.gen = source.gen + 1 \/ (session[w].pc \in EarlyStages /\ s.gen = session[w].gen)
        BY <4>1 DEF RunMayBecome, EarlyStages
      <4> QED BY <1>2, <3>1, <4>1, <4>2, <4>3, <4>4, <4>5
    <3>2. CASE v # w
      <4>1. session'[v] = session[v] /\ session[v].pc # "idle"
        BY <1>2, <2>4, <3>2 DEF EarlyStages
      <4>2. session[v].upTo = 0 /\ \A a \in attempts : a.gen # session[v].gen
        BY <2>4, <4>1 DEF GenerationsAreOwn, MyAttempt, EarlyStages
      <4>3. attempts' = attempts \/ (s.pc # "idle" /\ \A a \in attempts' : a.gen = s.gen)
        OBVIOUS
      <4> QED BY <1>10, <3>2, <4>1, <4>2, <4>3
    <3> QED BY <3>1, <3>2
  <2> QED BY <2>1, <2>2, <2>3, <2>4 DEF GenerationsAreOwn, MyAttempt, EarlyStages
<1>12. StagedIsListed'
  <2> SUFFICES ASSUME NEW v \in Workers, session'[v].capture, NEW a \in attempts',
                      a.gen = session'[v].gen
               PROVE  /\ a.cursor = session'[v].cursor
                      /\ session'[v].upTo = 0 => a.pages = <<>>
                      /\ session'[v].upTo # 0 =>
                            Changed(a, session'[v].todo) = Listed(a.cursor, session'[v].upTo)
    BY <1>1 DEF StagedIsListed, MyAttempt, Changed
  <2>1. CASE v = w
    BY <1>2, <2>1 DEF RunMayBecome
  <2>2. CASE v # w
    <3>1. session'[v] = session[v] /\ session[v].pc # "idle"
      BY <1>2, <2>2 DEF RunsAreInThePast
    <3>2. a \in attempts
      BY <1>10, <2>2, <3>1
    <3> QED BY <3>1, <3>2 DEF StagedIsListed, MyAttempt
  <2> QED BY <2>1, <2>2
<1>13. EpochsAreFenced'
  <2>1. \A a \in attempts' : a.epoch <= guard.epoch
    BY DEF EpochsAreFenced
  <2>2. \A v \in Workers : session'[v].epoch <= guard.epoch
    BY <1>2 DEF EpochsAreFenced, RunMayBecome
  <2>3. \A a \in attempts' : a.epoch = guard.epoch => Intents = {}
    BY DEF EpochsAreFenced
  <2>4. ASSUME NEW a \in attempts', a.epoch = guard.epoch, NEW v \in Workers,
               session'[v].pc # "idle", session'[v].gen = a.gen, session'[v].upTo # 0
        PROVE  \A o \in Ops : landed[o] <= session'[v].upTo
    <3>1. CASE v = w
      BY <1>2, <2>4, <3>1 DEF RunMayBecome
    <3>2. CASE v # w
      <4>1. session'[v] = session[v] /\ a \in attempts
        BY <1>2, <1>10, <2>4, <3>2
      <4> QED BY <2>4, <4>1 DEF EpochsAreFenced
    <3> QED BY <3>1, <3>2
  <2>5. \A p \in snapshots : p.epoch <= guard.epoch
    BY DEF EpochsAreFenced
  <2>6. \A p \in snapshots : p.epoch = guard.epoch =>
            Intents = {} /\ \A o \in Ops : landed[o] <= p.cursor
    BY DEF EpochsAreFenced
  <2> QED BY <1>1, <2>1, <2>2, <2>3, <2>4, <2>5, <2>6 DEF EpochsAreFenced
<1> QED BY <1>5, <1>6, <1>7, <1>8, <1>11, <1>12, <1>13

(* A run stops, or its page is the last one and no snapshot is published. *)
LEMMA RunEnds ==
    ASSUME IInv, NEW w \in Workers,
           \/ ApplyFinalPage(w) \/ DeferCalendarSyncForReservation(w)
           \/ FailCalendarSync(w) \/ Abandon(w)
    PROVE  IInv'
<1> USE DEF IInv
<1>1. /\ session' = [session EXCEPT ![w] = IdleSession]
      /\ UNCHANGED <<history, op, landed, guard, snapshots, attempts>>
  BY DEF ApplyFinalPage, DeferCalendarSyncForReservation, FailCalendarSync, Abandon,
         Ends, provider
<1>2. quarantined' \in BOOLEAN
  BY DEF ApplyFinalPage, DeferCalendarSyncForReservation, FailCalendarSync, Abandon, Typed,
         SessionRow
<1>3. \/ source' = source
      \/ \E status \in {"pending", "syncing", "ready", "degraded", "failed"}, cursor \in 0..Now :
            \/ source' = Released([source EXCEPT !.status = status])
            \/ source' = Released([source EXCEPT !.cursor = cursor, !.status = status])
  <2>1. CASE ApplyFinalPage(w)
    <3>1. /\ (IF quarantined \/ session[w].degraded THEN session[w].cursor
                                                   ELSE session[w].upTo) \in 0..Now
          /\ (IF quarantined \/ session[w].degraded THEN "degraded" ELSE "ready")
                \in {"pending", "syncing", "ready", "degraded", "failed"}
      BY DEF RunsAreInThePast
    <3> QED BY <2>1, <3>1 DEF ApplyFinalPage
  <2>2. CASE DeferCalendarSyncForReservation(w)
    <3>1. (CASE quarantined -> "degraded"
             [] ServedFrom("ready") # {} -> "ready"
             [] OTHER -> "pending") \in {"pending", "syncing", "ready", "degraded", "failed"}
      OBVIOUS
    <3>2. 0 \in 0..Now
      BY DEF Typed
    <3> QED BY <2>2, <3>1, <3>2 DEF DeferCalendarSyncForReservation, Ends
  <2>3. CASE FailCalendarSync(w)
    <3>1. 0 \in 0..Now
      BY DEF Typed
    <3> QED BY <2>3, <3>1 DEF FailCalendarSync, Ends
  <2>4. CASE Abandon(w)
    BY <2>4 DEF Abandon
  <2> QED BY <2>1, <2>2, <2>3, <2>4
<1>4. source' \in SourceRow /\ source'.cursor \in 0..Now /\ source'.gen = source.gen
  <2>1. CASE source' = source
    BY <2>1 DEF Typed
  <2>2. ASSUME NEW status \in {"pending", "syncing", "ready", "degraded", "failed"},
               NEW cursor \in 0..Now,
               \/ source' = Released([source EXCEPT !.status = status])
               \/ source' = Released([source EXCEPT !.cursor = cursor, !.status = status])
        PROVE  source' \in SourceRow /\ source'.cursor \in 0..Now /\ source'.gen = source.gen
    <3>1. \A row \in {Released([source EXCEPT !.status = status]),
                      Released([source EXCEPT !.cursor = cursor, !.status = status]),
                      [source EXCEPT !.lease = "expired"]} :
                row \in SourceRow /\ row.cursor \in 0..Now /\ row.gen = source.gen
      BY SourceEdits
    <3> QED BY <2>2, <3>1
  <2> QED BY <1>3, <2>1, <2>2
<1>5. source.gen <= source'.gen
  BY <1>4 DEF SourceRow
<1>6. IdleSession \in SessionRow
  BY DEF IdleSession, SessionRow
<1>7. RunMayBecome(w, IdleSession, attempts', source'.gen)
  BY DEF RunMayBecome, IdleSession, EarlyStages, Typed
<1> QED BY <1>1, <1>2, <1>4, <1>5, <1>6, <1>7, RunStep

(* A claim, and a reset under a claim, start over in a generation of their *)
(* own.                                                                    *)
LEMMA RunStarts ==
    ASSUME IInv, NEW w \in Workers, ClaimDueCalendarSync(w) \/ ResetCalendarSync(w)
    PROVE  IInv'
<1> USE DEF IInv
<1>2. source.gen \in Nat /\ source.gen + 1 \in Nat /\ source \in SourceRow
  BY DEF Typed, SourceRow
<1>3. PICK s \in SessionRow :
        /\ session' = [session EXCEPT ![w] = s]
        /\ s.pc = "claimed" /\ s.gen = source.gen + 1 /\ s.cursor \in 0..Now /\ s.epoch = 0
        /\ s.upTo = 0 /\ s.page = {} /\ s.todo = {} /\ s.capture = FALSE
  <2>1. IdleSession \in SessionRow
    BY DEF IdleSession, SessionRow
  <2>2. /\ IdleSession.cursor = 0 /\ IdleSession.epoch = 0 /\ IdleSession.upTo = 0
        /\ IdleSession.page = {} /\ IdleSession.todo = {} /\ IdleSession.capture = FALSE
    BY DEF IdleSession
  <2>3. source.cursor \in 0..Now /\ source.cursor \in Nat /\ 0 \in 0..Now
    BY <1>2 DEF Typed, SourceRow
  <2>4. CASE ClaimDueCalendarSync(w)
    <3>1. PICK s : s = [IdleSession EXCEPT !.pc = "claimed", !.gen = source.gen + 1,
                                           !.cursor = source.cursor]
      OBVIOUS
    <3>2. s \in SessionRow
      BY <1>2, <2>1, <2>3, <3>1 DEF SessionRow
    <3>3. /\ s.pc = "claimed" /\ s.gen = source.gen + 1 /\ s.cursor = source.cursor
          /\ s.epoch = 0 /\ s.upTo = 0 /\ s.page = {} /\ s.todo = {} /\ s.capture = FALSE
      BY <2>1, <2>2, <3>1 DEF SessionRow
    <3>4. session' = [session EXCEPT ![w] = s]
      BY <2>4, <3>1 DEF ClaimDueCalendarSync
    <3> QED BY <2>3, <3>2, <3>3, <3>4
  <2>5. CASE ResetCalendarSync(w)
    <3>1. PICK s : s = [IdleSession EXCEPT !.pc = "claimed", !.gen = source.gen + 1]
      OBVIOUS
    <3>2. s \in SessionRow
      BY <1>2, <2>1, <3>1 DEF SessionRow
    <3>3. /\ s.pc = "claimed" /\ s.gen = source.gen + 1 /\ s.cursor = 0
          /\ s.epoch = 0 /\ s.upTo = 0 /\ s.page = {} /\ s.todo = {} /\ s.capture = FALSE
      BY <2>1, <2>2, <3>1 DEF SessionRow
    <3>4. session' = [session EXCEPT ![w] = s]
      BY <2>5, <3>1 DEF ResetCalendarSync
    <3> QED BY <2>3, <3>2, <3>3, <3>4
  <2> QED BY <2>4, <2>5
<1>5. source' \in SourceRow /\ source'.cursor \in 0..Now /\ source'.gen = source.gen + 1
  <2>1. CASE ClaimDueCalendarSync(w)
    <3>1. source' \in SourceRow
      BY <1>2, <2>1 DEF ClaimDueCalendarSync, SourceRow
    <3>2. source'.cursor = source.cursor /\ source'.gen = source.gen + 1
      BY <1>2, <2>1 DEF ClaimDueCalendarSync, SourceRow
    <3> QED BY <3>1, <3>2 DEF Typed
  <2>2. CASE ResetCalendarSync(w)
    <3>1. source' \in SourceRow
      BY <1>2, <2>2 DEF ResetCalendarSync, SourceRow
    <3>2. source'.cursor = 0 /\ source'.gen = source.gen + 1
      BY <1>2, <2>2 DEF ResetCalendarSync, SourceRow
    <3> QED BY <3>1, <3>2 DEF Typed
  <2> QED BY <2>1, <2>2
<1>6. UNCHANGED <<history, op, landed, guard, snapshots, attempts, quarantined>>
  BY DEF ClaimDueCalendarSync, ResetCalendarSync, provider
<1>7. RunMayBecome(w, s, attempts', source'.gen)
  BY <1>3, <1>5 DEF RunMayBecome, EarlyStages, Typed
<1>8. source.gen <= source'.gen /\ quarantined' \in BOOLEAN
  BY <1>2, <1>5, <1>6 DEF Typed
<1> QED BY <1>3, <1>5, <1>6, <1>7, <1>8, RunStep

(* The plan of a capture reads the guard.                                  *)
LEMMA PlanStep ==
    ASSUME IInv, NEW w \in Workers, PlanSourceProjectionCapture(w)
    PROVE  IInv'
<1> USE DEF IInv
<1>1. PICK pc \in {"reset", "planned"} :
        session' = [session EXCEPT ![w].pc = pc, ![w].epoch = guard.epoch,
                                   ![w].base = guard.revision]
  BY DEF PlanSourceProjectionCapture
<1>2. session[w] \in SessionRow /\ guard.epoch \in Nat /\ guard.revision \in Nat
  BY DEF Typed
<1>3. PICK s \in SessionRow :
        s = [session[w] EXCEPT !.pc = pc, !.epoch = guard.epoch, !.base = guard.revision]
  BY <1>2 DEF SessionRow
<1>4. /\ s.pc = pc /\ s.gen = session[w].gen /\ s.cursor = session[w].cursor
      /\ s.epoch = guard.epoch /\ s.upTo = session[w].upTo /\ s.page = session[w].page
      /\ s.todo = session[w].todo /\ s.capture = session[w].capture
  BY <1>2, <1>3 DEF SessionRow
<1>5. /\ session' = [session EXCEPT ![w] = s]
      /\ UNCHANGED <<history, op, landed, source, guard, snapshots, attempts, quarantined>>
      /\ session[w].pc = "claimed"
  BY <1>1, <1>2, <1>3 DEF PlanSourceProjectionCapture, provider, Typed, SessionRow
<1>6. /\ session[w].capture = FALSE /\ session[w].upTo = 0
      /\ session[w].cursor \in 0..Now /\ session[w].page \subseteq session[w].todo
  BY <1>2, <1>5 DEF RunsAreInThePast, GenerationsAreOwn, SessionRow
<1>7. RunMayBecome(w, s, attempts', source'.gen)
  <2>1. /\ s.cursor \in 0..Now /\ s.upTo = 0 /\ s.page \subseteq s.todo /\ s.capture = FALSE
        /\ s.gen = session[w].gen /\ s.pc \in {"reset", "planned"}
    BY <1>4, <1>6
  <2>2. s.epoch <= guard.epoch
    BY <1>2, <1>4
  <2>3. 0 \in 0..Now
    BY DEF Typed
  <2> QED BY <1>5, <2>1, <2>2, <2>3 DEF RunMayBecome, EarlyStages
<1>8. /\ source' \in SourceRow /\ source'.cursor \in 0..Now /\ quarantined' \in BOOLEAN
      /\ source.gen <= source'.gen
  BY <1>5 DEF Typed, SourceRow
<1> QED BY <1>5, <1>7, <1>8, RunStep

(* An attempt replaces those of older generations, and there is none of    *)
(* the run's own yet; if it may not start, the run goes on without.        *)
LEMMA StartStep ==
    ASSUME IInv, NEW w \in Workers, StartProjectionPageAttempt(w)
    PROVE  IInv'
<1> USE DEF IInv
<1>1. /\ session[w].pc = "planned" /\ session[w].gen = source.gen
      /\ UNCHANGED <<history, op, landed, source, guard, snapshots, quarantined>>
  BY DEF StartProjectionPageAttempt, Holds, provider
<1>2. session[w] \in SessionRow
  BY DEF Typed
<1>3. PICK starts \in BOOLEAN :
        /\ session' = [session EXCEPT ![w].pc = "paging", ![w].capture = starts]
        /\ ~starts => attempts' = attempts
        /\ starts =>
            /\ GuardUnmoved(session[w].cursor, session[w].epoch, session[w].base)
            /\ attempts' = AttemptsFrom(session[w].gen) \cup
                    {[gen |-> session[w].gen, base |-> session[w].base,
                      cursor |-> session[w].cursor, epoch |-> session[w].epoch,
                      pages |-> <<>>]}
  BY DEF StartProjectionPageAttempt
<1>4. PICK s \in SessionRow : s = [session[w] EXCEPT !.pc = "paging", !.capture = starts]
  BY <1>2 DEF SessionRow
<1>5. /\ s.pc = "paging" /\ s.capture = starts /\ s.gen = session[w].gen
      /\ s.cursor = session[w].cursor /\ s.epoch = session[w].epoch
      /\ s.upTo = session[w].upTo /\ s.page = session[w].page /\ s.todo = session[w].todo
  BY <1>2, <1>4 DEF SessionRow
<1>6. session' = [session EXCEPT ![w] = s]
  BY <1>3, <1>4, <1>2 DEF Typed, SessionRow
<1>7. session[w].upTo = 0 /\ \A a \in attempts : a.gen # session[w].gen
  BY <1>1 DEF GenerationsAreOwn, MyAttempt
<1>8. AttemptsFrom(session[w].gen) = {}
  <2> SUFFICES ASSUME NEW a \in attempts, a.gen >= session[w].gen PROVE FALSE
    BY DEF AttemptsFrom
  <2>1. a.gen \in Nat /\ source.gen \in Nat /\ a.gen <= source.gen
    BY DEF Typed, Attempt, SourceRow, GenerationsAreOwn
  <2> QED BY <1>1, <1>7, <2>1
<1>9. PICK x \in Attempt :
        x = [gen |-> session[w].gen, base |-> session[w].base, cursor |-> session[w].cursor,
             epoch |-> session[w].epoch, pages |-> <<>>]
  <2>1. <<>> \in Seq(SUBSET Instances)
    OBVIOUS
  <2>2. /\ session[w].gen \in Nat /\ session[w].base \in Nat /\ session[w].cursor \in Nat
        /\ session[w].epoch \in Nat
    BY <1>2 DEF SessionRow
  <2> QED BY <2>1, <2>2 DEF Attempt
<1>10. /\ x.gen = s.gen /\ x.cursor = s.cursor /\ x.epoch = session[w].epoch
       /\ x.pages = <<>>
  BY <1>5, <1>9
<1>11. starts => attempts' = {x} /\ x.epoch = guard.epoch /\ Intents = {}
  BY <1>3, <1>8, <1>9, <1>10 DEF GuardUnmoved
<1>12. guard.epoch \in Nat
  BY DEF Typed
<1>13. RunMayBecome(w, s, attempts', source'.gen)
  <2>1. /\ s.cursor \in 0..Now /\ s.upTo \in 0..Now /\ s.page \subseteq s.todo
        /\ s.epoch <= guard.epoch
    BY <1>5 DEF RunsAreInThePast, EpochsAreFenced
  <2>2. \A a \in attempts' : s.capture => a.cursor = s.cursor /\ a.pages = <<>>
    BY <1>5, <1>10, <1>11
  <2> QED BY <1>1, <1>5, <1>7, <2>1, <2>2 DEF RunMayBecome, EarlyStages
<1>14. \/ attempts' = attempts
       \/ \E y \in Attempt :
            /\ attempts' = {y} /\ y.gen = s.gen /\ y.epoch <= guard.epoch
            /\ y.epoch = guard.epoch => Intents = {}
  BY <1>3, <1>10, <1>11, <1>12
<1>15. /\ source' \in SourceRow /\ source'.cursor \in 0..Now /\ quarantined' \in BOOLEAN
       /\ source.gen <= source'.gen
  BY <1>1 DEF Typed, SourceRow
<1>16. s.pc \notin EarlyStages \cup {"idle"}
  BY <1>5 DEF EarlyStages
<1> QED BY <1>1, <1>6, <1>13, <1>14, <1>15, <1>16, RunStep

(* The first page fixes the position, and with it all that is left to      *)
(* fetch; the later ones take from what is left.                           *)
LEMMA FetchStep ==
    ASSUME IInv, NEW w \in Workers, FetchPage(w)
    PROVE  IInv'
<1> USE DEF IInv
<1>1. /\ session[w].pc = "paging"
      /\ UNCHANGED <<history, op, landed, source, guard, snapshots, attempts, quarantined>>
  BY DEF FetchPage, provider
<1>2. session[w] \in SessionRow /\ Now \in Nat \ {0}
  BY DEF Typed
<1>3. PICK upTo, todo :
        /\ upTo = IF session[w].upTo = 0 THEN Now ELSE session[w].upTo
        /\ todo = IF session[w].upTo = 0 THEN Listed(session[w].cursor, Now)
                                        ELSE session[w].todo
  OBVIOUS
<1>4. upTo \in Nat \ {0} /\ upTo <= Now /\ session[w].cursor <= upTo /\ todo \subseteq Instances
  <2>1. session[w].cursor \in 0..Now /\ session[w].upTo \in 0..Now
    BY DEF RunsAreInThePast
  <2>2. session[w].upTo # 0 => session[w].cursor <= session[w].upTo
    BY DEF RunsAreInThePast
  <2>3. todo \subseteq Instances
    BY <1>2, <1>3 DEF Listed, Inside, SessionRow
  <2> QED BY <1>2, <1>3, <2>1, <2>2, <2>3
<1>5. PICK page \in SUBSET todo, degraded \in BOOLEAN, capture \in BOOLEAN :
        /\ session' = [session EXCEPT ![w] =
                [session[w] EXCEPT !.pc = "page", !.upTo = upTo, !.todo = todo, !.page = page,
                                   !.degraded = degraded, !.capture = capture]]
        /\ capture => session[w].capture
  <2>1. Warnings \in BOOLEAN
    BY ProjectionConstants
  <2>2. session[w].degraded \in BOOLEAN /\ session[w].capture \in BOOLEAN
    BY <1>2 DEF SessionRow
  <2>3. PICK page \in SUBSET todo, warned \in {FALSE, Warnings} :
            session' = [session EXCEPT ![w] =
                [session[w] EXCEPT !.pc = "page", !.upTo = upTo, !.todo = todo, !.page = page,
                        !.degraded = session[w].degraded \/ warned,
                        !.capture = session[w].capture /\ ~session[w].degraded /\ ~warned]]
    <3> DEFINE Fetched(u, t, page, warned) ==
                [session EXCEPT ![w] =
                    [session[w] EXCEPT !.pc = "page", !.upTo = u, !.todo = t, !.page = page,
                        !.degraded = session[w].degraded \/ warned,
                        !.capture = session[w].capture /\ ~session[w].degraded /\ ~warned]]
               U == IF session[w].upTo = 0 THEN Now ELSE session[w].upTo
               T == IF session[w].upTo = 0 THEN Listed(session[w].cursor, Now) ELSE session[w].todo
    <3>1. \E page \in SUBSET T, warned \in {FALSE, Warnings} :
            /\ page # {} \/ T = {}
            /\ session' = Fetched(U, T, page, warned)
      BY ZenonT(60) DEF FetchPage
    <3>2. upTo = U /\ todo = T
      BY <1>3
    <3> HIDE DEF Fetched, U, T
    <3>3. \E page \in SUBSET todo, warned \in {FALSE, Warnings} :
            session' = Fetched(upTo, todo, page, warned)
      BY <3>1, <3>2
    <3> QED BY <3>3 DEF Fetched
  <2>4. PICK degraded \in BOOLEAN : degraded = (session[w].degraded \/ warned)
    BY <2>1, <2>2
  <2>5. PICK capture \in BOOLEAN : capture = (session[w].capture /\ ~session[w].degraded /\ ~warned)
    BY <2>1, <2>2
  <2> QED BY <2>3, <2>4, <2>5
<1>6. PICK s \in SessionRow :
        s = [session[w] EXCEPT !.pc = "page", !.upTo = upTo, !.todo = todo, !.page = page,
                               !.degraded = degraded, !.capture = capture]
  BY <1>2, <1>4 DEF SessionRow
<1>7. /\ s.pc = "page" /\ s.upTo = upTo /\ s.todo = todo /\ s.page = page
      /\ s.capture = capture /\ s.gen = session[w].gen /\ s.cursor = session[w].cursor
      /\ s.epoch = session[w].epoch
  BY <1>2, <1>6 DEF SessionRow
<1>8. session' = [session EXCEPT ![w] = s]
  BY <1>5, <1>6
<1>9. ASSUME NEW a \in attempts, s.capture, a.gen = s.gen
      PROVE  a.cursor = s.cursor /\ Changed(a, todo) = Listed(a.cursor, upTo)
  <2>1. /\ a.cursor = session[w].cursor
        /\ session[w].upTo = 0 => a.pages = <<>>
        /\ session[w].upTo # 0 => Changed(a, session[w].todo) = Listed(a.cursor, session[w].upTo)
    BY <1>5, <1>7, <1>9 DEF StagedIsListed, MyAttempt
  <2>2. CASE session[w].upTo = 0
    <3>1. Changed(a, todo) = todo
      BY <2>1, <2>2 DEF Changed
    <3> QED BY <1>3, <1>7, <2>1, <2>2, <3>1
  <2>3. CASE session[w].upTo # 0
    BY <1>3, <1>7, <2>1, <2>3
  <2> QED BY <2>2, <2>3
<1>10. ASSUME NEW a \in attempts, a.gen = s.gen, a.epoch = guard.epoch, NEW o \in Ops
       PROVE  landed[o] <= upTo
  <2>1. CASE session[w].upTo = 0
    BY <1>2, <1>3, <2>1 DEF Typed
  <2>2. CASE session[w].upTo # 0
    BY <1>1, <1>3, <1>7, <1>10, <2>2 DEF EpochsAreFenced
  <2> QED BY <2>1, <2>2
<1>11. RunMayBecome(w, s, attempts', source'.gen)
  <2>1. s.cursor \in 0..Now /\ s.upTo \in 0..Now /\ s.upTo # 0 /\ s.cursor <= s.upTo
    BY <1>2, <1>4, <1>7 DEF RunsAreInThePast
  <2>2. s.epoch <= guard.epoch
    BY <1>7 DEF EpochsAreFenced
  <2>3. /\ attempts' = attempts /\ s.page \subseteq s.todo
        /\ session[w].pc # "idle" /\ s.gen = session[w].gen
    BY <1>1, <1>7
  <2>4. \A a \in attempts' : s.capture /\ a.gen = s.gen =>
            a.cursor = s.cursor /\ Changed(a, s.todo) = Listed(a.cursor, s.upTo)
    BY <1>7, <1>9, <2>3
  <2>5. \A a \in attempts' : a.gen = s.gen /\ a.epoch = guard.epoch =>
            \A o \in Ops : landed[o] <= s.upTo
    BY <1>7, <1>10, <2>3
  <2> QED BY <1>7, <2>1, <2>2, <2>3, <2>4, <2>5 DEF RunMayBecome, EarlyStages
<1>12. /\ source' \in SourceRow /\ source'.cursor \in 0..Now /\ quarantined' \in BOOLEAN
       /\ source.gen <= source'.gen
  BY <1>1 DEF Typed, SourceRow
<1> QED BY <1>1, <1>8, <1>11, <1>12, RunStep

(* A page is staged and applied together, and what is staged with what is  *)
(* left stays what the listing reports.                                    *)
LEMMA PageStep ==
    ASSUME IInv, NEW w \in Workers, ApplyPage(w)
    PROVE  IInv'
<1> USE DEF IInv
<1>1. /\ session[w].pc = "page"
      /\ UNCHANGED <<history, op, landed, source, guard, snapshots>>
  BY DEF ApplyPage, provider
<1>2. session[w] \in SessionRow /\ quarantined \in BOOLEAN /\ guard.epoch \in Nat
  BY DEF Typed
<1>3. PICK staged \in BOOLEAN : staged = (session[w].capture /\ Stageable(w))
  BY <1>2 DEF SessionRow
<1>4. PICK s \in SessionRow :
        s = [session[w] EXCEPT !.pc = "paging", !.page = {},
                               !.todo = @ \ session[w].page, !.capture = staged]
  BY <1>2 DEF SessionRow
<1>5. /\ s.pc = "paging" /\ s.page = {} /\ s.todo = session[w].todo \ session[w].page
      /\ s.capture = staged /\ s.gen = session[w].gen /\ s.cursor = session[w].cursor
      /\ s.epoch = session[w].epoch /\ s.upTo = session[w].upTo
  BY <1>2, <1>4 DEF SessionRow
<1>6. session' = [session EXCEPT ![w] = s]
  BY <1>3, <1>4 DEF ApplyPage
<1>7. quarantined' \in BOOLEAN
  BY <1>2 DEF ApplyPage, SessionRow
<1>8. /\ session[w].upTo # 0 /\ session[w].page \subseteq session[w].todo
      /\ session[w].upTo \in 0..Now /\ session[w].cursor \in 0..Now
      /\ session[w].cursor <= session[w].upTo /\ session[w].epoch <= guard.epoch
  BY <1>1 DEF RunsAreInThePast, EpochsAreFenced
<1>9. /\ source' \in SourceRow /\ source'.cursor \in 0..Now
      /\ source.gen <= source'.gen
  BY <1>1 DEF Typed, SourceRow
<1>10. \A a \in attempts : a.gen = s.gen /\ a.epoch = guard.epoch
            => \A o \in Ops : landed[o] <= s.upTo
  BY <1>1, <1>5, <1>8 DEF EpochsAreFenced
<1>11. CASE ~staged
  <2>1. attempts' = attempts
    BY <1>3, <1>11 DEF ApplyPage
  <2>2. RunMayBecome(w, s, attempts', source'.gen)
    BY <1>1, <1>5, <1>8, <1>10, <1>11, <2>1 DEF RunMayBecome, EarlyStages
  <2> QED BY <1>1, <1>6, <1>7, <1>9, <2>1, <2>2, RunStep
<1>12. CASE staged
  <2>1. PICK a \in MyAttempt(w) : GuardUnmoved(a.cursor, a.epoch, a.base)
    BY <1>3, <1>12 DEF Stageable
  <2>2. /\ a \in Attempt /\ a.gen = s.gen /\ a.epoch = guard.epoch /\ Intents = {}
        /\ attempts = {a}
    BY <1>5, <2>1 DEF GuardUnmoved, MyAttempt, Typed, OneIsKept
  <2>3. PICK x \in Attempt : x = [a EXCEPT !.pages = Append(@, session[w].page)]
    <3>1. a.pages \in Seq(SUBSET Instances) /\ session[w].page \in SUBSET Instances
      BY <1>2, <2>2 DEF Attempt, SessionRow
    <3>2. PICK pages \in Seq(SUBSET Instances) : pages = Append(a.pages, session[w].page)
      <4>1. Append(a.pages, session[w].page) \in Seq(SUBSET Instances)
        BY <3>1
      <4> QED BY <4>1
    <3>3. [a EXCEPT !.pages = pages] \in Attempt
      BY <2>2 DEF Attempt
    <3> QED BY <3>2, <3>3
  <2>4. /\ x.gen = s.gen /\ x.epoch = guard.epoch /\ x.cursor = a.cursor
        /\ x.pages = Append(a.pages, session[w].page)
    BY <2>2, <2>3 DEF Attempt
  <2>5. attempts' = {x}
    <3>1. attempts' = {IF b.gen = session[w].gen
                       THEN [b EXCEPT !.pages = Append(@, session[w].page)] ELSE b : b \in attempts}
      BY <1>3, <1>12 DEF ApplyPage
    <3> QED BY <1>5, <2>2, <2>3, <3>1
  <2>6. a.cursor = s.cursor /\ Changed(a, session[w].todo) = Listed(a.cursor, session[w].upTo)
    BY <1>3, <1>5, <1>8, <1>12, <2>1 DEF StagedIsListed
  <2>7. Changed(x, s.todo) = Changed(a, session[w].todo)
    <3>1. a.pages \in Seq(SUBSET Instances) /\ session[w].page \in SUBSET Instances
      BY <1>2, <2>2 DEF Attempt, SessionRow
    <3>2. /\ DOMAIN x.pages = DOMAIN a.pages \cup {Len(a.pages) + 1}
          /\ \A n \in DOMAIN a.pages : x.pages[n] = a.pages[n]
          /\ x.pages[Len(a.pages) + 1] = session[w].page
      BY <2>4, <3>1
    <3>3. UNION {x.pages[n] : n \in DOMAIN x.pages}
            = session[w].page \cup UNION {a.pages[n] : n \in DOMAIN a.pages}
      BY <3>2
    <3> QED BY <1>5, <1>8, <3>3 DEF Changed
  <2>8. RunMayBecome(w, s, attempts', source'.gen)
    <3>1. \A o \in Ops : landed[o] <= s.upTo
      BY <1>10, <2>2
    <3>2. \A b \in attempts' : b.cursor = s.cursor /\ Changed(b, s.todo) = Listed(b.cursor, s.upTo)
      BY <1>5, <2>4, <2>5, <2>6, <2>7
    <3> QED BY <1>1, <1>5, <1>8, <3>1, <3>2 DEF RunMayBecome, EarlyStages
  <2>9. \E y \in Attempt :
            /\ attempts' = {y} /\ y.gen = s.gen /\ y.epoch <= guard.epoch
            /\ y.epoch = guard.epoch => Intents = {}
    BY <1>2, <2>2, <2>4, <2>5
  <2>10. s.pc \notin EarlyStages \cup {"idle"}
    BY <1>5 DEF EarlyStages
  <2> QED BY <1>1, <1>6, <1>7, <1>9, <2>8, <2>9, <2>10, RunStep
<1> QED BY <1>11, <1>12

-----------------------------------------------------------------------------
(* Publication.                                                            *)

(* Materialize over the base and what the run has staged is the calendar   *)
(* at the position where the listing ended.                                *)
LEMMA MaterializedIsTrue ==
    ASSUME IInv, NEW a \in attempts, NEW p \in Positions, NEW changed,
           a.cursor \in 0..p, BaseUsable(a.cursor, a.epoch, a.base),
           changed = Listed(a.cursor, p)
    PROVE  MaterializedEvents(a, changed, p) = Inside(p)
<1> USE DEF IInv
<1>1. CASE a.cursor = 0
  BY <1>1 DEF MaterializedEvents, BaseEvents, Listed
<1>2. CASE a.cursor # 0
  <2>1. PICK b \in snapshots : b.revision = a.base /\ b.cursor = a.cursor
    BY <1>2 DEF BaseUsable, Matches
  <2>2. BaseEvents(a) = Inside(a.cursor)
    <3>1. {s \in snapshots : s.revision = a.base} = {b}
      BY <2>1 DEF OneIsKept
    <3>2. BaseEvents(a) = b.events
      BY <1>2, <3>1 DEF BaseEvents
    <3> QED BY <2>1, <3>2 DEF SnapshotsAreTrue
  <2>3. a.cursor \in Positions /\ a.cursor <= p
    BY <1>2 DEF Positions, Typed
  <2>4. \A i \in Instances : i \notin changed => history[a.cursor][i] = history[p][i]
    BY <2>3 DEF ChangesAreListed
  <2>5. \A i \in Instances : i \notin changed => (i \in Inside(a.cursor) <=> i \in Inside(p))
    BY <2>4 DEF Inside
  <2>6. Inside(p) \subseteq Instances /\ Inside(a.cursor) \subseteq Instances
    BY DEF Inside
  <2> QED BY <2>2, <2>5, <2>6 DEF MaterializedEvents
<1> QED BY <1>1, <1>2

(* The publication of a run's attempt with these observations. *)
Publishes(w, a, observations, new) ==
    /\ observations = AllObservations(a, Removals(a, Changed(a, session[w].page), session[w].upTo))
    /\ new = [revision |-> a.base + 1, epoch |-> a.epoch, cursor |-> session[w].upTo,
              events |-> MaterializedEvents(a, Changed(a, session[w].page), session[w].upTo),
              observations |-> observations]
    /\ snapshots' = {new} \cup {o \in Retained(a, observations) :
                            o.revision = a.base => ~Retirable(o, attempts \ {a})}
    /\ guard' = [guard EXCEPT !.revision = a.base + 1]
    /\ attempts' = attempts \ {a}

(* A publication with the attempt it consumes and the snapshot it leaves:  *)
(* the base is retired with it.                                            *)
LEMMA Published ==
    ASSUME IInv, NEW w \in Workers, FinalizeSourceProjectionPage(w)
    PROVE  \E a \in MyAttempt(w), new \in Snapshot :
            /\ attempts = {a} /\ attempts' = {} /\ snapshots' = {new}
            /\ GuardUnmoved(a.cursor, a.epoch, a.base)
            /\ guard' = [guard EXCEPT !.revision = a.base + 1]
            /\ new.revision = a.base + 1 /\ new.epoch = a.epoch
            /\ new.cursor = session[w].upTo
            /\ new.events = Inside(session[w].upTo)
            /\ \A b \in snapshots : b.revision = a.base /\ b.observations \subseteq new.observations
            /\ \A o \in new.observations :
                \/ o.cancelled => history[session[w].upTo][o.instance] = "gone"
                \/ \E b \in snapshots : o \in b.observations
<1> USE DEF IInv
<1>1. /\ session[w].pc = "page" /\ session[w].page = session[w].todo /\ session[w].capture
      /\ Publishable(w)
  BY DEF FinalizeSourceProjectionPage
<1>2. session[w] \in SessionRow
  BY DEF Typed
<1>a. PICK a \in MyAttempt(w) : \E observations, new : Publishes(w, a, observations, new)
  BY DEF FinalizeSourceProjectionPage, Publishes
<1>3. PICK observations, new :
        /\ observations = AllObservations(a, Removals(a, Changed(a, session[w].page), session[w].upTo))
        /\ new = [revision |-> a.base + 1, epoch |-> a.epoch, cursor |-> session[w].upTo,
                  events |-> MaterializedEvents(a, Changed(a, session[w].page), session[w].upTo),
                  observations |-> observations]
        /\ snapshots' = {new} \cup {o \in Retained(a, observations) :
                                o.revision = a.base => ~Retirable(o, attempts \ {a})}
        /\ guard' = [guard EXCEPT !.revision = a.base + 1]
        /\ attempts' = attempts \ {a}
  BY <1>a DEF Publishes
<1>4. /\ a \in Attempt /\ a \in attempts /\ a.gen = session[w].gen /\ attempts = {a}
  BY <1>3 DEF MyAttempt, Typed, OneIsKept
<1>5. GuardUnmoved(a.cursor, a.epoch, a.base) /\ BaseUsable(a.cursor, a.epoch, a.base)
  BY <1>1, <1>3, <1>4 DEF Publishable, Stageable, MyAttempt
<1>6. a.base = guard.revision
  BY <1>5 DEF GuardUnmoved
<1>7. \A b \in snapshots : b.revision = a.base
  BY <1>6 DEF OneIsKept
<1>8. attempts' = {} /\ snapshots' = {new}
  <2>1. attempts \ {a} = {}
    BY <1>4
  <2>2. \A b : Retirable(b, {})
    BY DEF Retirable
  <2>3. {o \in Retained(a, observations) :
            o.revision = a.base => ~Retirable(o, attempts \ {a})} = {}
    BY <1>7, <2>1, <2>2 DEF Retained
  <2> QED BY <1>3, <2>1, <2>3
<1>9. /\ session[w].upTo \in Positions /\ session[w].upTo \in Nat
      /\ a.cursor \in 0..session[w].upTo
      /\ Changed(a, session[w].page) = Listed(a.cursor, session[w].upTo)
  <2>1. /\ session[w].upTo \in 0..Now /\ session[w].upTo # 0 /\ Now \in Nat
        /\ session[w].cursor \in 0..Now /\ session[w].cursor <= session[w].upTo
    BY <1>1 DEF RunsAreInThePast, Typed
  <2>2. a.cursor = session[w].cursor
    BY <1>1, <1>3 DEF StagedIsListed
  <2>3. Changed(a, session[w].todo) = Listed(a.cursor, session[w].upTo)
    BY <1>1, <1>3, <2>1 DEF StagedIsListed
  <2> QED BY <1>1, <2>1, <2>2, <2>3 DEF Positions
<1>10. MaterializedEvents(a, Changed(a, session[w].page), session[w].upTo) = Inside(session[w].upTo)
  BY <1>4, <1>5, <1>9, MaterializedIsTrue
<1>11. Changed(a, session[w].page) \subseteq Instances
  BY <1>9 DEF Listed, Inside
<1>12. observations \subseteq Observation
  <2>1. Removals(a, Changed(a, session[w].page), session[w].upTo) \subseteq Observation
    <3>1. ASSUME NEW i \in Instances, NEW cancelled \in BOOLEAN, NEW resolved \in BOOLEAN
          PROVE  [instance |-> i, cancelled |-> cancelled, resolved |-> resolved] \in Observation
      BY DEF Observation
    <3>2. \A i : /\ (history[session[w].upTo][i] = "gone") \in BOOLEAN
                 /\ (i \in BaseEvents(a)) \in BOOLEAN
      OBVIOUS
    <3> QED BY <1>11, <3>1, <3>2 DEF Removals
  <2>2. \A b \in snapshots : b.observations \subseteq Observation
    BY DEF Typed, Snapshot
  <2> QED BY <1>3, <2>1, <2>2 DEF AllObservations
<1>13. /\ new \in Snapshot /\ new.revision = a.base + 1 /\ new.epoch = a.epoch
       /\ new.cursor = session[w].upTo /\ new.events = Inside(session[w].upTo)
       /\ new.observations = observations
  BY <1>3, <1>4, <1>9, <1>10, <1>12 DEF Snapshot, Attempt, Inside
<1>14. \A b \in snapshots : b.observations \subseteq observations
  BY <1>3, <1>7 DEF AllObservations
<1>15. ASSUME NEW o \in observations
       PROVE  \/ o.cancelled => history[session[w].upTo][o.instance] = "gone"
              \/ \E b \in snapshots : o \in b.observations
  <2>1. \/ o \in Removals(a, Changed(a, session[w].page), session[w].upTo)
        \/ \E b \in snapshots : o \in b.observations
    BY <1>3 DEF AllObservations
  <2>2. CASE o \in Removals(a, Changed(a, session[w].page), session[w].upTo)
    <3>1. PICK i : /\ o.instance = i
                   /\ o.cancelled = (history[session[w].upTo][i] = "gone")
      BY <2>2 DEF Removals
    <3> QED BY <3>1
  <2> QED BY <2>1, <2>2
<1>16. \A o \in new.observations :
        \/ o.cancelled => history[session[w].upTo][o.instance] = "gone"
        \/ \E b \in snapshots : o \in b.observations
  BY <1>13, <1>15
<1>17. \A b \in snapshots : b.revision = a.base /\ b.observations \subseteq new.observations
  BY <1>7, <1>13, <1>14
<1> new \in Snapshot
  BY <1>13
<1> WITNESS a \in MyAttempt(w), new \in Snapshot
<1> QED BY <1>3, <1>4, <1>5, <1>8, <1>13, <1>16, <1>17

(* The snapshot is published in the epoch it was read in, and the run is   *)
(* over.                                                                   *)
LEMMA FinalStep ==
    ASSUME IInv, NEW w \in Workers, FinalizeSourceProjectionPage(w)
    PROVE  IInv'
<1> USE DEF IInv
<1>1. PICK a \in MyAttempt(w), new \in Snapshot :
            /\ attempts = {a} /\ attempts' = {} /\ snapshots' = {new}
            /\ GuardUnmoved(a.cursor, a.epoch, a.base)
            /\ guard' = [guard EXCEPT !.revision = a.base + 1]
            /\ new.revision = a.base + 1 /\ new.epoch = a.epoch
            /\ new.cursor = session[w].upTo
            /\ new.events = Inside(session[w].upTo)
  BY Published
<1>2. /\ session[w].pc = "page"
      /\ source' = Released([source EXCEPT !.cursor = session[w].upTo, !.status = "ready"])
      /\ session' = [session EXCEPT ![w] = IdleSession]
      /\ UNCHANGED <<history, op, landed, quarantined>>
  BY DEF FinalizeSourceProjectionPage, provider
<1>3. /\ Now' = Now /\ Positions' = Positions /\ Intents' = Intents
      /\ \A p \in Positions : Inside(p)' = Inside(p)
      /\ \A c, p : Listed(c, p)' = Listed(c, p)
  BY <1>2 DEF Now, Positions, Intents, Inside, Listed
<1>4. session[w].upTo \in Positions /\ session[w].upTo \in 0..Now
  BY <1>2 DEF RunsAreInThePast, Positions, Typed
<1>5. IdleSession \in SessionRow
  BY DEF IdleSession, SessionRow
<1>6. session'[w] = IdleSession /\ \A v \in Workers \ {w} : session'[v] = session[v]
  BY <1>2 DEF Typed
<1>7. guard' \in [epoch : Nat, revision : Nat] /\ guard'.epoch = guard.epoch
      /\ guard'.revision = a.base + 1
  <2>1. a.base + 1 \in Nat /\ guard \in [epoch : Nat, revision : Nat]
    BY <1>1 DEF Typed, Attempt, MyAttempt
  <2> QED BY <1>1, <2>1
<1>8. source' \in SourceRow /\ source'.cursor \in 0..Now /\ source'.gen = source.gen
  BY <1>2, <1>4, SourceEdits DEF Typed
<1>9. Typed'
  <2>1. session' \in [Workers -> SessionRow]
    BY <1>2, <1>5 DEF Typed
  <2> QED BY <1>1, <1>2, <1>3, <1>7, <1>8, <2>1 DEF Typed
<1>10. ChangesAreListed'
  BY <1>2, <1>3 DEF ChangesAreListed
<1>11. RunsAreInThePast'
  <2>1. 0 \in 0..Now
    BY DEF Typed
  <2> QED BY <1>3, <1>6, <2>1 DEF RunsAreInThePast, IdleSession
<1>12. GenerationsAreOwn'
  BY <1>1, <1>6, <1>8 DEF GenerationsAreOwn, MyAttempt, IdleSession
<1>13. OneIsKept' /\ StagedIsListed'
  BY <1>1, <1>7 DEF OneIsKept, StagedIsListed, MyAttempt
<1>14. EpochsAreFenced'
  <2>1. a.epoch = guard.epoch /\ Intents = {} /\ a.gen = session[w].gen /\ guard.epoch \in Nat
    BY <1>1 DEF GuardUnmoved, MyAttempt, Typed
  <2>2. \A o \in Ops : landed[o] <= session[w].upTo
    BY <1>1, <1>2, <1>4, <2>1 DEF EpochsAreFenced, Positions
  <2>3. \A v \in Workers : session'[v].epoch <= guard.epoch
    BY <1>6, <2>1 DEF EpochsAreFenced, IdleSession
  <2> QED BY <1>1, <1>2, <1>3, <1>7, <2>1, <2>2, <2>3 DEF EpochsAreFenced
<1>15. SnapshotsAreTrue'
  BY <1>1, <1>3, <1>4 DEF SnapshotsAreTrue
<1> QED BY <1>9, <1>10, <1>11, <1>12, <1>13, <1>14, <1>15

(* A step that changes nothing. *)
LEMMA StutterStep == IInv /\ UNCHANGED vars => IInv'
<1> SUFFICES ASSUME IInv, UNCHANGED vars PROVE IInv'
  OBVIOUS
<1>1. Now' = Now /\ Positions' = Positions /\ Intents' = Intents
  BY DEF vars, Now, Positions, Intents
<1>2. /\ \A p : Inside(p)' = Inside(p)
      /\ \A c, p : Listed(c, p)' = Listed(c, p)
      /\ \A w : MyAttempt(w)' = MyAttempt(w)
  BY DEF vars, Inside, Listed, MyAttempt
<1> USE DEF IInv
<1>3. Typed'
  BY <1>1 DEF vars, Typed
<1>4. ChangesAreListed' /\ SnapshotsAreTrue'
  BY <1>1, <1>2 DEF vars, ChangesAreListed, SnapshotsAreTrue
<1>5. RunsAreInThePast' /\ GenerationsAreOwn' /\ OneIsKept'
  BY <1>1, <1>2 DEF vars, RunsAreInThePast, GenerationsAreOwn, OneIsKept
<1>6. StagedIsListed'
  BY <1>2 DEF vars, StagedIsListed, Changed
<1>7. EpochsAreFenced'
  BY <1>1 DEF vars, EpochsAreFenced
<1> QED BY <1>3, <1>4, <1>5, <1>6, <1>7

(* Every step keeps the invariant. *)
LEMMA NextInv == IInv /\ [Next]_vars => IInv'
<1> SUFFICES ASSUME IInv, [Next]_vars PROVE IInv'
  OBVIOUS
<1>1. CASE UNCHANGED vars
  BY <1>1, StutterStep
<1>2. CASE ProviderChange
  <2>1. PICK i \in Instances, place \in Place : ChangedTo(i, place)
    BY <1>2 DEF ProviderChange
  <2>2. UNCHANGED <<op, source, quarantined, guard, snapshots, attempts, session, landed>>
    BY <1>2 DEF ProviderChange
  <2> QED BY <2>1, <2>2, ProviderStep
<1>3. ASSUME NEW o \in Ops, FenceStep(o)
      PROVE  IInv'
  <2>1. CASE o \in Fences \cup SourceRuns /\ OwnMutation(o)
    <3>1. PICK i \in Instances, place \in Place : ChangedTo(i, place)
      BY <2>1 DEF OwnMutation
    <3>2. /\ UNCHANGED <<op, source, quarantined, guard, snapshots, attempts, session>>
          /\ op[o] = "open" /\ landed' = [landed EXCEPT ![o] = Now + 1]
      BY <2>1 DEF OwnMutation
    <3> QED BY <2>1, <3>1, <3>2, ProviderStep
  <2>2. CASE o \in Fences /\ (BeginProjectionMutation(o) \/ ResolveProjectionMutation(o))
    BY <2>2, FenceStepInv
  <2>3. CASE o \in SourceRuns \cup CopyRuns /\ BeginExclusiveDispatch(o)
    BY <2>3, FenceStepInv
  <2>4. CASE o \in SourceRuns /\ ReleaseExclusiveAfterConfirmedRun(o)
    BY <2>4, FenceStepInv
  <2> QED BY <1>3, <2>1, <2>2, <2>3, <2>4 DEF FenceStep
<1>4. CASE \E o \in CopyRuns : ReleaseExclusiveAfterConfirmedRun(o)
  BY <1>4, FenceStepInv DEF Ops
<1>5. CASE SyncStep
  <2>1. CASE LeaseExpires \/ ScheduleCalendarSync \/ RepairQuarantine
    BY <2>1, RowStepInv
  <2>2. ASSUME NEW w \in Workers, ClaimDueCalendarSync(w) \/ ResetCalendarSync(w)
        PROVE  IInv'
    BY <2>2, RunStarts
  <2>3. ASSUME NEW w \in Workers, PlanSourceProjectionCapture(w)
        PROVE  IInv'
    BY <2>3, PlanStep
  <2>4. ASSUME NEW w \in Workers, StartProjectionPageAttempt(w)
        PROVE  IInv'
    BY <2>4, StartStep
  <2>5. ASSUME NEW w \in Workers, FetchPage(w)
        PROVE  IInv'
    BY <2>5, FetchStep
  <2>6. ASSUME NEW w \in Workers, ApplyPage(w)
        PROVE  IInv'
    BY <2>6, PageStep
  <2>7. ASSUME NEW w \in Workers, FinalizeSourceProjectionPage(w)
        PROVE  IInv'
    BY <2>7, FinalStep
  <2>8. ASSUME NEW w \in Workers,
               \/ ApplyFinalPage(w) \/ DeferCalendarSyncForReservation(w)
               \/ FailCalendarSync(w) \/ Abandon(w)
        PROVE  IInv'
    BY <2>8, RunEnds
  <2> QED BY <1>5, <2>1, <2>2, <2>3, <2>4, <2>5, <2>6, <2>7, <2>8 DEF SyncStep
<1> QED BY <1>1, <1>2, <1>3, <1>4, <1>5 DEF Next

-----------------------------------------------------------------------------
(* The theorems.                                                           *)

(* The invariant holds in every reachable state. *)
LEMMA Inv == Spec => []IInv
<1> QED BY InitInv, NextInv, PTL DEF Spec

(* A verified snapshot is exactly the calendar at its cursor, whatever     *)
(* failed, restarted or was applied without a capture in between: the base *)
(* is true, the staged pages with what is left are what the listing        *)
(* reports, and a listing misses no change (Materialize).                  *)
THEOREM SnapshotIsTrue == Spec => []SnapshotIsProviderState
<1>1. IInv => SnapshotIsProviderState
  BY DEF IInv, SnapshotsAreTrue, SnapshotIsProviderState
<1> QED BY <1>1, Inv, PTL

(* No snapshot read before a mutation of this program's own is served once *)
(* that mutation is resolved, nor while it is open: each end of it opens a *)
(* new epoch (projection_mutation_guards.epoch).                           *)
THEOREM ServedIsFresh == Spec => []ServedIncludesOwnMutations
<1>1. IInv => ServedIncludesOwnMutations
  <2> SUFFICES ASSUME IInv, NEW s \in Served, NEW o \in Ops
               PROVE  landed[o] <= s.cursor
    BY DEF ServedIncludesOwnMutations
  <2>1. s \in snapshots /\ s.epoch = guard.epoch
    BY DEF Served, ServedFrom, Current
  <2> QED BY <2>1 DEF IInv, EpochsAreFenced
<1> QED BY <1>1, Inv, PTL

(* The guard's revision is there to be read, and no leftover of a crashed  *)
(* or superseded run keeps a capture from starting (AttemptsFrom,          *)
(* Retained).                                                              *)
THEOREM CapacityRemains == Spec => []CapacityIsLeft
<1>1. ASSUME NEW S, \A x, y \in S : x = y
      PROVE  Cardinality(S) \in {0, 1}
  <2>1. CASE S = {}
    BY <2>1, FS_EmptySet
  <2>2. CASE S # {}
    <3>1. PICK x : S = {x}
      BY <1>1, <2>2
    <3> QED BY <3>1, FS_Singleton
  <2> QED BY <2>1, <2>2
<1>2. IInv => CapacityIsLeft
  <2> SUFFICES ASSUME IInv PROVE CapacityIsLeft
    OBVIOUS
  <2>1. guard.revision # 0 => Current # {}
    BY DEF IInv, OneIsKept, Current
  <2>2. Cardinality(attempts) \in {0, 1} /\ Cardinality(snapshots) \in {0, 1}
    BY <1>1 DEF IInv, OneIsKept
  <2>3. /\ MaxAttempts \in Nat /\ MaxAttempts > 1
        /\ MaxRevisions \in Nat /\ MaxRevisions > 1
    BY ProjectionConstants
  <2> QED BY <2>1, <2>2, <2>3 DEF CapacityIsLeft
<1> QED BY <1>2, Inv, PTL

(* Only a finalizer publishes, retires or drops a snapshot. *)
LEMMA OnlyPublications ==
    ASSUME [Next]_vars
    PROVE  snapshots' = snapshots \/ \E w \in Workers : FinalizeSourceProjectionPage(w)
<1>1. CASE UNCHANGED vars
  BY <1>1 DEF vars
<1>2. CASE ProviderChange
  BY <1>2 DEF ProviderChange
<1>3. ASSUME NEW p \in Ops, FenceStep(p) \/ ReleaseExclusiveAfterConfirmedRun(p)
      PROVE  snapshots' = snapshots
  BY <1>3 DEF FenceStep, BeginProjectionMutation, ResolveProjectionMutation,
      BeginExclusiveDispatch, ReleaseExclusiveAfterConfirmedRun, OwnMutation
<1>4. CASE SyncStep
  BY <1>4 DEF SyncStep, LeaseExpires, ScheduleCalendarSync, RepairQuarantine,
        ClaimDueCalendarSync, PlanSourceProjectionCapture, ResetCalendarSync,
        StartProjectionPageAttempt, FetchPage, ApplyPage, ApplyFinalPage,
        DeferCalendarSyncForReservation, FailCalendarSync, Abandon
<1> QED BY <1>1, <1>2, <1>3, <1>4 DEF Next, Ops

(* While a sync run holds the global key no step of anybody publishes. *)
LEMMA FrozenStep ==
    ASSUME IInv, [Next]_vars, NEW o \in SourceRuns \cup CopyRuns, op[o] = "open"
    PROVE  guard'.revision = guard.revision /\ snapshots' = snapshots
<1>1. Advanced(1).revision = guard.revision
  BY DEF IInv, Typed, Advanced
<1>2. CASE UNCHANGED vars
  BY <1>2 DEF vars
<1>3. CASE ProviderChange
  BY <1>3 DEF ProviderChange
<1>4. ASSUME NEW p \in Ops,
             FenceStep(p) \/ (p \in CopyRuns /\ ReleaseExclusiveAfterConfirmedRun(p))
      PROVE  guard'.revision = guard.revision /\ snapshots' = snapshots
  BY <1>1, <1>4 DEF FenceStep, BeginProjectionMutation, ResolveProjectionMutation,
      BeginExclusiveDispatch, ReleaseExclusiveAfterConfirmedRun, OwnMutation
<1>5. CASE SyncStep
  <2>1. Holders # {}
    BY DEF Holders
  <2>2. \A w \in Workers : ~FinalizeSourceProjectionPage(w)
    BY <2>1 DEF FinalizeSourceProjectionPage, PublicationBlocked
  <2> QED BY <1>5, <2>2 DEF SyncStep, LeaseExpires, ScheduleCalendarSync, RepairQuarantine,
          ClaimDueCalendarSync, PlanSourceProjectionCapture, ResetCalendarSync,
          StartProjectionPageAttempt, FetchPage, ApplyPage, ApplyFinalPage,
          DeferCalendarSyncForReservation, FailCalendarSync, Abandon
<1> QED BY <1>2, <1>3, <1>4, <1>5 DEF Next, Ops

(* While a sync run holds the global key the published revision does not   *)
(* move under it (GlobalSyncDispatchKey): the finalizer needs the key.     *)
THEOREM RevisionHolds == Spec => RevisionIsFrozen
<1>1. IInv /\ [Next]_vars =>
        [\A o \in SourceRuns \cup CopyRuns : op[o] = "open" /\ op'[o] = "open" =>
            guard'.revision = guard.revision /\ snapshots' = snapshots]_vars
  BY FrozenStep
<1> QED BY <1>1, Inv, PTL DEF Spec, RevisionIsFrozen

(* The journal of removals only grows, over incremental runs, replacements *)
(* and the retirement of old snapshots: a publication is based on the      *)
(* current revision and carries its observations (AllObservations).        *)
THEOREM RemovalsRemain == Spec => RemovalsAreKept
<1>1. IInv /\ [Next]_vars =>
        [\A s \in snapshots, t \in snapshots' :
            s.revision = guard.revision /\ t.revision = guard'.revision =>
                s.observations \subseteq t.observations]_vars
  <2> SUFFICES ASSUME IInv, [Next]_vars, NEW s \in snapshots, NEW t \in snapshots'
               PROVE  s.observations \subseteq t.observations
    OBVIOUS
  <2>1. CASE snapshots' = snapshots
    BY <2>1 DEF IInv, OneIsKept
  <2>2. ASSUME NEW w \in Workers, FinalizeSourceProjectionPage(w)
        PROVE  s.observations \subseteq t.observations
    <3>1. PICK new : /\ snapshots' = {new}
                     /\ \A b \in snapshots : b.observations \subseteq new.observations
      BY <2>2, Published
    <3> QED BY <3>1
  <2> QED BY <2>1, <2>2, OnlyPublications
<1> QED BY <1>1, Inv, PTL DEF Spec, RemovalsAreKept

-----------------------------------------------------------------------------
(* Types and limits.                                                       *)

(* There is one holder of the global key, and the limits on what is        *)
(* pending, on the history and on the generations are kept.                *)
Bounds ==
    /\ Now <= MaxHistory /\ source.gen <= MaxGen
    /\ IsFiniteSet(Intents) /\ Cardinality(Intents) <= MaxPending
    /\ \A o, p \in Holders : o = p

(* An operation that opens adds itself to what is pending; one that is     *)
(* resolved or released takes itself away.                                 *)
LEMMA LedgerBounds ==
    ASSUME Typed, Bounds, NEW o \in Ops,
           \/ o \in Fences /\ (BeginProjectionMutation(o) \/ ResolveProjectionMutation(o))
           \/ o \in SourceRuns \cup CopyRuns /\ BeginExclusiveDispatch(o)
           \/ o \in SourceRuns \cup CopyRuns /\ ReleaseExclusiveAfterConfirmedRun(o)
    PROVE  /\ IsFiniteSet(Intents)' /\ Cardinality(Intents)' <= MaxPending
           /\ \A p, q \in Holders' : p = q
<1> USE DEF Bounds
<1>1. op \in [Ops -> {"new", "open", "done"}]
  BY DEF Typed
<1>2. CASE op' = [op EXCEPT ![o] = "done"]
  <2>1. Intents' = Intents \ {o}
    BY <1>1, <1>2 DEF Intents, Ops
  <2>2. Holders' \subseteq Holders
    BY <1>1, <1>2 DEF Holders, Ops
  <2>3. IsFiniteSet(Intents \ {o}) /\ Cardinality(Intents \ {o}) <= Cardinality(Intents)
    BY FS_Subset
  <2>4. Cardinality(Intents) \in Nat /\ Cardinality(Intents \ {o}) \in Nat
    BY <2>3, FS_CardinalityType
  <2> QED BY <2>1, <2>2, <2>3, <2>4, ProjectionConstants
<1>3. CASE op' = [op EXCEPT ![o] = "open"] /\ o \in Fences \cup SourceRuns /\ BelowLimit(MaxPending)
  <2>1. Intents' = Intents \cup {o}
    BY <1>1, <1>3 DEF Intents, Ops
  <2>2. /\ IsFiniteSet(Intents \cup {o}) /\ Cardinality(Intents) \in Nat
        /\ Cardinality(Intents \cup {o}) \in {Cardinality(Intents), Cardinality(Intents) + 1}
    BY FS_AddElement, FS_CardinalityType
  <2>3. IsFiniteSet(Intents)' /\ Cardinality(Intents)' <= MaxPending
    BY <1>3, <2>1, <2>2, ProjectionConstants DEF BelowLimit
  <2>4. CASE o \in SourceRuns
    <3>1. Holders = {}
      BY <1>1, <1>3, <2>4, ProjectionConstants DEF BeginExclusiveDispatch,
         ResolveProjectionMutation, ReleaseExclusiveAfterConfirmedRun
    <3>2. Holders' \subseteq {o}
      BY <1>1, <1>3, <3>1 DEF Holders, Ops
    <3> QED BY <2>3, <3>2
  <2>5. CASE o \in Fences
    <3>1. Holders' \subseteq Holders
      BY <1>1, <1>3, <2>5, ProjectionConstants DEF Holders, Ops
    <3> QED BY <2>3, <3>1
  <2> QED BY <1>3, <2>4, <2>5
<1>4. CASE op' = [op EXCEPT ![o] = "open"] /\ o \in CopyRuns /\ Holders = {}
  <2>1. Intents' = Intents
    BY <1>1, <1>4, ProjectionConstants DEF Intents, Ops
  <2>2. Holders' \subseteq {o}
    BY <1>1, <1>4 DEF Holders, Ops
  <2> QED BY <2>1, <2>2
<1> QED BY <1>2, <1>3, <1>4 DEF BeginProjectionMutation, ResolveProjectionMutation,
        BeginExclusiveDispatch, ReleaseExclusiveAfterConfirmedRun

(* The generation is raised below its bound only. *)
LEMMA GenerationBound ==
    ASSUME IInv, Bounds, [Next]_vars
    PROVE  source'.gen <= MaxGen
<1>a. Typed
  BY DEF IInv
<1>0. source.gen \in Nat /\ MaxGen \in Nat /\ source.gen <= MaxGen
  BY <1>a, ProjectionConstants DEF Bounds, Typed, SourceRow
<1>b. ASSUME source'.gen = source.gen \/ (source'.gen = source.gen + 1 /\ source.gen < MaxGen)
      PROVE  source'.gen <= MaxGen
  BY <1>0, <1>b
<1>c. /\ Restarted(source).gen = source.gen + 1
      /\ [source EXCEPT !.lease = "expired"].gen = source.gen
  BY <1>a DEF Typed, SourceRow, Released, Restarted
<1>d. ASSUME NEW status
      PROVE  Released([source EXCEPT !.status = status]).gen = source.gen
  BY <1>a DEF Typed, SourceRow, Released
<1>e. ASSUME NEW status, NEW cursor
      PROVE  Released([source EXCEPT !.cursor = cursor, !.status = status]).gen = source.gen
  BY <1>a DEF Typed, SourceRow, Released
<1>1. CASE UNCHANGED source
  BY <1>0, <1>1
<1>2. ASSUME NEW o \in Ops, FenceStep(o) \/ ReleaseExclusiveAfterConfirmedRun(o)
      PROVE  source'.gen <= MaxGen
  <2>1. \/ UNCHANGED source
        \/ source' = Restarted(source) /\ (Restarted(source).gen <= MaxGen \/ source.gen < MaxGen)
    BY <1>2 DEF FenceStep, BeginProjectionMutation, ResolveProjectionMutation,
      BeginExclusiveDispatch, ReleaseExclusiveAfterConfirmedRun, OwnMutation
  <2>2. CASE source' = Restarted(source) /\ (Restarted(source).gen <= MaxGen \/ source.gen < MaxGen)
    <3>1. source'.gen = source.gen + 1
      BY <1>c, <2>2
    <3>2. source.gen < MaxGen
      BY <1>0, <1>c, <2>2
    <3> QED BY <1>b, <3>1, <3>2
  <2> QED BY <1>1, <2>1, <2>2
<1>3. CASE LeaseExpires \/ ScheduleCalendarSync \/ RepairQuarantine
  <2>1. CASE LeaseExpires
    <3>1. source' = [source EXCEPT !.lease = "expired"]
      BY <2>1 DEF LeaseExpires
    <3>2. source'.gen = source.gen
      BY <1>c, <3>1
    <3> QED BY <1>b, <3>2
  <2>2. CASE ScheduleCalendarSync
    <3>1. /\ source.gen < MaxGen
          /\ \/ source' = Restarted(source)
             \/ source' = Released([source EXCEPT !.status = "pending"])
      BY <2>2 DEF ScheduleCalendarSync
    <3>2. source'.gen = source.gen \/ source'.gen = source.gen + 1
      BY <1>c, <1>d, <3>1
    <3> QED BY <1>b, <3>1, <3>2
  <2>3. CASE RepairQuarantine
    BY <1>1, <2>3 DEF RepairQuarantine
  <2> QED BY <1>3, <2>1, <2>2, <2>3
<1>4. ASSUME NEW w \in Workers, ClaimDueCalendarSync(w) \/ ResetCalendarSync(w)
      PROVE  source'.gen <= MaxGen
  <2>1. source.gen < MaxGen /\ source'.gen = source.gen + 1
    BY <1>a, <1>4 DEF ClaimDueCalendarSync, ResetCalendarSync, Typed, SourceRow
  <2> QED BY <1>b, <2>1
<1>5. ASSUME NEW w \in Workers,
             \/ FinalizeSourceProjectionPage(w) \/ ApplyFinalPage(w)
             \/ DeferCalendarSyncForReservation(w) \/ FailCalendarSync(w)
      PROVE  source'.gen <= MaxGen
  <2>1. \/ \E status : source' = Released([source EXCEPT !.status = status])
        \/ \E status, cursor :
                source' = Released([source EXCEPT !.cursor = cursor, !.status = status])
    BY <1>5 DEF FinalizeSourceProjectionPage, ApplyFinalPage, DeferCalendarSyncForReservation,
        FailCalendarSync, Ends
  <2>2. ASSUME NEW status, source' = Released([source EXCEPT !.status = status])
        PROVE  source'.gen = source.gen
    BY <1>d, <2>2
  <2>3. ASSUME NEW status, NEW cursor,
               source' = Released([source EXCEPT !.cursor = cursor, !.status = status])
        PROVE  source'.gen = source.gen
    BY <1>e, <2>3
  <2>4. source'.gen = source.gen
    BY <2>1, <2>2, <2>3, Zenon
  <2> QED BY <1>b, <2>4
<1>6. ASSUME NEW w \in Workers,
             \/ PlanSourceProjectionCapture(w) \/ StartProjectionPageAttempt(w)
             \/ FetchPage(w) \/ ApplyPage(w) \/ Abandon(w)
      PROVE  UNCHANGED source
  BY <1>6 DEF PlanSourceProjectionCapture, StartProjectionPageAttempt, FetchPage, ApplyPage, Abandon
<1>7. CASE UNCHANGED vars \/ ProviderChange
  BY <1>1, <1>7 DEF vars, ProviderChange
<1>8. CASE SyncStep
  BY <1>1, <1>3, <1>4, <1>5, <1>6, <1>8 DEF SyncStep
<1> QED BY <1>2, <1>7, <1>8 DEF Next, Ops

(* Every step keeps the limits. *)
LEMMA NextBounds == IInv /\ Bounds /\ [Next]_vars => Bounds'
<1> SUFFICES ASSUME IInv, Bounds, [Next]_vars PROVE Bounds'
  OBVIOUS
<1>0. Typed /\ Now \in Nat /\ MaxHistory \in Nat
  BY ProjectionConstants DEF IInv, Typed
<1>1. source'.gen <= MaxGen
  BY GenerationBound
<1>2. ASSUME NEW i \in Instances, NEW place \in Place, ChangedTo(i, place), op' = op
      PROVE  Bounds'
  <2>1. Now' = Now + 1 /\ Now < MaxHistory
    BY <1>0, <1>2, HistoryGrows DEF ChangedTo
  <2>2. Intents' = Intents /\ Holders' = Holders
    BY <1>2 DEF Intents, Holders
  <2> QED BY <1>0, <1>1, <2>1, <2>2 DEF Bounds
<1>3. CASE history' = history /\ op' = op
  <2>1. Now' = Now /\ Intents' = Intents /\ Holders' = Holders
    BY <1>3 DEF Now, Intents, Holders
  <2> QED BY <1>1, <2>1 DEF Bounds
<1>4. CASE UNCHANGED vars
  BY <1>3, <1>4 DEF vars
<1>5. CASE ProviderChange
  BY <1>2, <1>5 DEF ProviderChange
<1>6. ASSUME NEW o \in Ops, OwnMutation(o)
      PROVE  Bounds'
  BY <1>2, <1>6 DEF OwnMutation
<1>7. ASSUME NEW o \in Ops,
             \/ o \in Fences /\ (BeginProjectionMutation(o) \/ ResolveProjectionMutation(o))
             \/ o \in SourceRuns \cup CopyRuns /\ BeginExclusiveDispatch(o)
             \/ o \in SourceRuns \cup CopyRuns /\ ReleaseExclusiveAfterConfirmedRun(o)
      PROVE  Bounds'
  <2>1. /\ IsFiniteSet(Intents)' /\ Cardinality(Intents)' <= MaxPending
        /\ \A p, q \in Holders' : p = q
    BY <1>0, <1>7, LedgerBounds
  <2>2. Now' = Now
    BY <1>7 DEF BeginProjectionMutation, ResolveProjectionMutation, BeginExclusiveDispatch,
       ReleaseExclusiveAfterConfirmedRun, provider, Now
  <2> QED BY <1>1, <2>1, <2>2 DEF Bounds
<1>8. CASE SyncStep
  <2>1. history' = history /\ op' = op
    BY <1>8 DEF SyncStep, LeaseExpires, ScheduleCalendarSync, RepairQuarantine,
          ClaimDueCalendarSync, PlanSourceProjectionCapture, ResetCalendarSync,
          StartProjectionPageAttempt, FetchPage, ApplyPage, ApplyFinalPage,
          FinalizeSourceProjectionPage, DeferCalendarSyncForReservation, FailCalendarSync,
          Abandon, provider
  <2> QED BY <1>3, <2>1
<1>9. ASSUME NEW o \in Ops, FenceStep(o) \/ (o \in CopyRuns /\ ReleaseExclusiveAfterConfirmedRun(o))
      PROVE  Bounds'
  BY <1>6, <1>7, <1>9 DEF FenceStep
<1> QED BY <1>4, <1>5, <1>8, <1>9 DEF Next, Ops

(* At the start there is one position and nothing is pending. *)
LEMMA InitBounds == Init => Bounds
<1> SUFFICES ASSUME Init PROVE Bounds
  OBVIOUS
<1>1. Intents = {} /\ Holders = {} /\ Now = 1 /\ source.gen = 0
  BY DEF Init, Intents, Holders, Ops, Now
<1>2. IsFiniteSet({}) /\ Cardinality({}) = 0
  BY FS_EmptySet
<1> QED BY <1>1, <1>2, ProjectionConstants DEF Bounds

(* The invariant and the limits give the type invariant. *)
LEMMA TypeFollows == IInv /\ Bounds => TypeOK
<1> SUFFICES ASSUME IInv, Bounds PROVE TypeOK
  OBVIOUS
<1> USE DEF IInv, Bounds
<1>1. /\ MaxHistory \in Nat /\ MaxGen \in Nat /\ Now \in Nat \ {0} /\ Now \in 1..MaxHistory
      /\ 0..Now \subseteq 0..MaxHistory
  BY ProjectionConstants DEF Typed
<1>2. Cardinality(Holders) <= 1
  <2>1. CASE Holders = {}
    BY <2>1, FS_EmptySet
  <2>2. CASE Holders # {}
    <3>1. PICK o : Holders = {o}
      BY <2>2
    <3> QED BY <3>1, FS_Singleton
  <2> QED BY <2>1, <2>2
<1>3. source \in [gen : 0..MaxGen, cursor : 0..MaxHistory, owner : Workers \cup {None},
                  status : {"pending", "syncing", "ready", "degraded", "failed"},
                  lease : {"none", "live", "expired"}]
  BY <1>1 DEF Typed, SourceRow
<1>4. landed \in [Ops -> 0..MaxHistory]
  BY <1>1 DEF Typed
<1>5. \A w \in Workers :
        /\ session[w].pc \in {"idle", "claimed", "reset", "planned", "paging", "page"}
        /\ session[w].page \cup session[w].todo \subseteq Instances
  BY DEF Typed, SessionRow
<1> QED BY <1>1, <1>2, <1>3, <1>4, <1>5 DEF Typed, TypeOK

(* The rows, the ledger and the runs keep their types, one operation holds *)
(* the global key, and no limit on what is pending is exceeded.            *)
THEOREM TypeCorrect == Spec => []TypeOK
BY InitBounds, NextBounds, TypeFollows, Inv, PTL DEF Spec
=============================================================================
