-------------------------- MODULE MCTrafficTracker --------------------------
(***************************************************************************)
(* Instances of TrafficTracker for TLC.                                    *)
(***************************************************************************)
EXTENDS TrafficTracker, TLC

CONSTANTS n1, u1, c1, c2

(* One node: two connections of the same user. *)
OneNodeOneUser == (c1 :> <<n1, u1>>) @@ (c2 :> <<n1, u1>>)
(* A single connection. *)
OneConn == c1 :> <<n1, u1>>

UnitSymmetry == Permutations(Units)
=============================================================================
