---------------------------- MODULE DurableCell ----------------------------
(***************************************************************************)
(* What the last-known-good store promises the node controller: a cell     *)
(* that survives a crash.  A crash recovers what was stored last; while no *)
(* save is running and none is owed, that is what the node had applied.    *)
(***************************************************************************)
CONSTANTS
    Values,   \* what a node may serve
    None      \* nothing, not one of Values

VARIABLES
    applied,  \* what the node serves, None before it serves anything
    stored,   \* what a restart would recover, None if nothing
    busy,     \* a save of applied is running
    behind    \* a save failed and is owed (lkg_persist_pending)

cell == <<applied, stored, busy, behind>>

Init ==
    /\ applied = None
    /\ stored \in Values \cup {None}
    /\ busy = FALSE
    /\ behind = FALSE

(* A change is applied first and saved afterwards. *)
Apply ==
    /\ ~busy
    /\ applied' \in Values
    /\ busy' = TRUE
    /\ UNCHANGED <<stored, behind>>

(* The save takes effect in one step: no mixture is ever recovered. *)
Store ==
    /\ busy
    /\ stored' = applied
    /\ UNCHANGED <<applied, busy, behind>>

(* Success is reported only when the change is stored. *)
Ack ==
    /\ busy
    /\ stored' = applied
    /\ busy' = FALSE
    /\ behind' = FALSE
    /\ UNCHANGED applied

(* A failed save is owed, whether or not it took effect. *)
Fail ==
    /\ busy
    /\ stored' \in {stored, applied}
    /\ busy' = FALSE
    /\ behind' = TRUE
    /\ UNCHANGED applied

Crash ==
    /\ applied' = None
    /\ busy' = FALSE
    /\ behind' = FALSE
    /\ UNCHANGED stored

Recover ==
    /\ applied = None
    /\ ~busy
    /\ applied' = stored
    /\ UNCHANGED <<stored, busy, behind>>

Next == Apply \/ Store \/ Ack \/ Fail \/ Crash \/ Recover

Spec == Init /\ [][Next]_cell
=============================================================================
