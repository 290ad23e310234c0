-------------------------- MODULE MCNodeController --------------------------
(***************************************************************************)
(* Instances of NodeController for TLC.                                    *)
(***************************************************************************)
EXTENDS NodeController

CONSTANTS u1, u2, plain, limited

(* A panel that starts with one limited and one unlimited user. *)
TwoUsers == [u \in {u1, u2} |-> IF u = u1 THEN limited ELSE plain]
=============================================================================
