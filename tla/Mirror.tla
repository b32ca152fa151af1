------------------------------- MODULE Mirror -------------------------------
(***************************************************************************)
(* What a one-way rule promises of its target calendar, without mappings,  *)
(* runs, calls or failures: every source event has at most one copy, which *)
(* only ever takes a state the source published, and which the rule        *)
(* removes only for a cancellation (syncengine/engine.go).                 *)
(***************************************************************************)
EXTENDS Naturals

CONSTANTS
    Events,     \* mirrored source events
    Copies,     \* target event IDs
    Contents,   \* contents of a source event
    Cancelled,  \* the state of a cancelled source event
    Foreign     \* a content the target's own user wrote

VARIABLES
    published,  \* [Events -> the states the source published so far]
    mirror,     \* [Events -> the live copies of the event with their content]
    edits       \* changes the target's user made so far

Init ==
    /\ published \in [Events -> SUBSET (Contents \cup {Cancelled})]
    /\ mirror = [e \in Events |-> {}] /\ edits = 0

Publish ==
    /\ \E e \in Events, n \in Contents \cup {Cancelled} :
        published' = [published EXCEPT ![e] = @ \cup {n}]
    /\ UNCHANGED <<mirror, edits>>

Shows(e, copies) ==
    /\ mirror' = [mirror EXCEPT ![e] = copies]
    /\ UNCHANGED <<published, edits>>

Create(e) ==
    /\ mirror[e] = {}
    /\ \E k \in Copies, n \in published[e] \ {Cancelled} : Shows(e, {<<k, n>>})

Update(e) ==
    \E k \in Copies, m \in Contents \cup {Foreign}, n \in published[e] \ {Cancelled} :
        mirror[e] = {<<k, m>>} /\ Shows(e, {<<k, n>>})

Delete(e) == Cancelled \in published[e] /\ Shows(e, {})

(* The target's user edits or removes the copy. *)
UserChange(e) ==
    \E k \in Copies, m \in Contents \cup {Foreign} :
        /\ mirror[e] = {<<k, m>>} /\ edits' = edits + 1
        /\ \E copies \in {{}, {<<k, Foreign>>}} : mirror' = [mirror EXCEPT ![e] = copies]
        /\ UNCHANGED published

Next ==
    \/ Publish
    \/ \E e \in Events : Create(e) \/ Update(e) \/ Delete(e) \/ UserChange(e)

Spec == Init /\ [][Next]_<<published, mirror, edits>>
=============================================================================
