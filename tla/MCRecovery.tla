----------------------------- MODULE MCRecovery -----------------------------
(***************************************************************************)
(* Instances for TLC of what has to go on or to come to an end whatever    *)
(* fails: the traffic that is billed through failures and restarts, the    *)
(* runtime graph that is replaced until the wanted generation serves, the  *)
(* streams that are served, and the speed limit they share.  They share no *)
(* state in the program: a behaviour is one of one of them, chosen in the  *)
(* initial state, and the others stay in theirs.                           *)
(***************************************************************************)
EXTENDS MCTrafficTracker, MCRuntimeGraph, StreamService, RateLimit

VARIABLE which

AnyWant == CHOOSE g \in Generation : TRUE

StreamAndMessage == [f \in Pipes |-> IF f = "f" THEN "stream" ELSE "message"]

(* The components that stay have one initial state. *)
RecoveryInit ==
    /\ which \in {"traffic", "graph", "streams", "rate"}
    /\ Init /\ GraphInit /\ ServiceInit /\ RateInit
    /\ which # "graph" => want = AnyWant

RecoveryNext ==
    /\ UNCHANGED which
    /\ \/ which = "traffic" /\ Next
       \/ which # "traffic" /\ UNCHANGED vars
    /\ \/ which = "graph" /\ GraphNext
       \/ which # "graph" /\ UNCHANGED graphVars
    /\ \/ which = "streams" /\ ServiceNext
       \/ which # "streams" /\ UNCHANGED serviceVars
    /\ \/ which = "rate" /\ RateNext
       \/ which # "rate" /\ UNCHANGED rateVars

(* The component that runs is scheduled fairly. *)
RecoverySpec ==
    /\ RecoveryInit /\ [][RecoveryNext]_<<which, vars, graphVars, serviceVars, rateVars>>
    /\ \/ which = "traffic" /\ Fairness
       \/ which = "graph" /\ GraphFair
       \/ which = "streams" /\ ServiceFair
       \/ which = "rate" /\ RateFair

(* A node whose pulls go on ends up with what the panel publishes: Recovers,
   where a graph runs. *)
NodeRecovers == which = "graph" => Recovers
=============================================================================
