----------------------------- MODULE MCLkgStore -----------------------------
(***************************************************************************)
(* Instances of LkgStore for TLC.                                          *)
(***************************************************************************)
EXTENDS LkgStore

(* User ids are interchangeable. *)
Symmetry == Permutations(Uids)
=============================================================================
