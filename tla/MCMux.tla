------------------------------- MODULE MCMux -------------------------------
(***************************************************************************)
(* Instances of the multiplexing protocols, smux and AnyTLS, for TLC.      *)
(* They share no state in the program: a behaviour is one of one component, *)
(* chosen in the initial state, and the others stay in theirs.             *)
(***************************************************************************)
EXTENDS SmuxBudget, SmuxSession, AnyTls

VARIABLE which

budgetStays == UNCHANGED budgetVars
sessStays == UNCHANGED sessVars
anyStays == UNCHANGED anyVars

(* Two sessions of one stream each, the first with the smaller budget. *)
OneStreamEach == [s \in MuxStreams |-> IF s = "s1" THEN "A" ELSE "B"]
TightFirst == [b \in Budgets |-> IF b = "A" THEN 1 ELSE 2]

(* One stream receives a payload, the other one sends one. *)
Payloads == <<1, 0>>
Writes == <<0, 1>>

(* The second stream reuses the id of the first one, or does not. *)
ReusedOrNew == {<<1, 1>>, <<1, 2>>}

Init ==
    /\ which \in {"budget", "session", "anytls"}
    /\ BudgetInit /\ SessInit /\ AnyInit
    /\ which # "anytls" => owner = <<1, 1>>

Next ==
    /\ UNCHANGED which
    /\ \/ which = "budget" /\ BudgetNext /\ sessStays /\ anyStays
       \/ which = "session" /\ SessNext /\ budgetStays /\ anyStays
       \/ which = "anytls" /\ AnyNext /\ budgetStays /\ sessStays

(* The component that runs is scheduled fairly. *)
Spec ==
    /\ Init /\ [][Next]_<<which, budgetVars, sessVars, anyVars>>
    /\ \/ which = "budget" /\ BudgetFair
       \/ which = "session" /\ SessFair
       \/ which = "anytls" /\ AnyFair
=============================================================================
