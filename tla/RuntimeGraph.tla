---------------------------- MODULE RuntimeGraph ----------------------------
(***************************************************************************)
(* The runtime of one node: RuntimeGraphSlot, which replaces one generation *)
(* of listeners by the next, RuntimeGraph::start, which binds them one      *)
(* address after the other, and the user tables that outlive generations.   *)
(* The controller's apply_runtime and refresh_users drive them and retry on *)
(* every pull until the wanted generation is applied.                       *)
(*                                                                         *)
(* A generation is a record: proto, the protocol whose user table its       *)
(* listeners read, and nodes, a sequence of records with the bind location  *)
(* of the node and the addresses start opens, tcp first, then quic.  User   *)
(* lists are members of Lists.  Accepted connections are not modelled.      *)
(***************************************************************************)
EXTENDS Naturals, Sequences, SequencesExt

CONSTANTS
    Generations,  \* the generations the panel may ask for
    Addresses,    \* socket addresses (transport, ip, port)
    Protocols,    \* protocols with a user table
    Lists,        \* user lists
    NoGraph,         \* no generation, no table
    ReusePort,    \* TRUE: listeners set SO_REUSEPORT and may share an address
    MaxFaults,    \* bound: bind errors and failed readiness gates
    MaxRequests   \* bound: changes of the panel

ASSUME RuntimeConstants ==
    /\ \A g \in Generations :
          /\ g.proto \in Protocols
          /\ Len(g.nodes) \in Nat \ {0}
          /\ \A i \in 1..Len(g.nodes) :
                g.nodes[i].tcp \o g.nodes[i].quic \in Seq(Addresses) \ {<<>>}
    /\ NoGraph \notin Generations \cup Lists \cup [gen : Generations, list : Lists]
    /\ ReusePort \in BOOLEAN
    /\ MaxFaults \in Nat
    /\ MaxRequests \in Nat

VARIABLES
    active,    \* the committed generation, or NoGraph
    applied,   \* generation and list the controller has cached as applied
    want,      \* generation and list the panel publishes
    open,      \* listening sockets: <<address, who holds the task handle>>
    phase,     \* "idle", "starting", "stopped"
    plan,      \* why a start runs: "fresh", "disjoint", "overlap", "rollback"
    graph,     \* the generation being started, NoGraph when idle
    next,      \* what is being applied: the candidate and its user list
    at,        \* the node and the address within it to be bound next
    tables,    \* the published user table of each protocol, or NoGraph
    faults,    \* faults so far
    requests   \* changes of the panel so far

graphVars == <<active, applied, want, open, phase, plan, graph, next, at, tables,
          faults, requests>>

Holders == {"active", "starting", "leaked", "dropping"}
Plans == {"fresh", "disjoint", "overlap", "rollback"}
Generation == [gen : Generations, list : Lists]

----------------------------------------------------------------------------
(* Helpers. *)

AddressesOf(node) == node.tcp \o node.quic

Binds(g) == {g.nodes[i].bind : i \in 1..Len(g.nodes)}

(* The sockets of a generation. *)
Sockets(g) == UNION {ToSet(AddressesOf(g.nodes[i])) : i \in 1..Len(g.nodes)}

HeldBy(holder) == {a \in Addresses : <<a, holder>> \in open}

(* The sockets of open once those of holder are closed. *)
Without(holder) == {s \in open : s[2] # holder}

(* The old generation is stopped, the started one takes its place. *)
Promoted ==
    {s \in Without("starting") : s[2] # "active"} \cup (HeldBy("starting") \X {"active"})

(* A bug: binds are compared as whole sets. *)
OverlapIsEqual(g, h) == Binds(g) = Binds(h)

(* RuntimeGraph::has_bind_overlap *)
HasBindOverlap(g, h) == Binds(g) \cap Binds(h) # {}

Node == graph.nodes[at[1]]
Address == AddressesOf(Node)[at[2]]

(* The addresses of the current node that are bound already. *)
BoundOfNode == {AddressesOf(Node)[j] : j \in 1..(at[2] - 1)}

AllBound == at[1] > Len(graph.nodes)

StartOf(g, why) ==
    /\ phase' = "starting"
    /\ plan' = why
    /\ graph' = g
    /\ at' = <<1, 1>>

Idle ==
    /\ phase' = "idle"
    /\ graph' = NoGraph
    /\ at' = <<1, 1>>
    /\ UNCHANGED plan

----------------------------------------------------------------------------
(* The panel publishes another configuration or another user list. *)
Request(g, l) ==
    /\ requests < MaxRequests
    /\ want # [gen |-> g, list |-> l]
    /\ want' = [gen |-> g, list |-> l]
    /\ requests' = requests + 1
    /\ UNCHANGED <<active, applied, open, phase, plan, graph, next, at, tables, faults>>

(* sync with a users-only change: refresh_users publishes the list into the
   running listeners. *)
RefreshUsers ==
    /\ phase = "idle"
    /\ active # NoGraph
    /\ want.gen = applied.gen
    /\ want.list # applied.list
    /\ tables' = [tables EXCEPT ![want.gen.proto] = want.list]
    /\ applied' = want
    /\ UNCHANGED <<active, want, open, phase, plan, graph, next, at, faults, requests>>

(* sync with any other change, or without a runtime: apply_runtime opens a
   table transaction and calls RuntimeGraphSlot::replace.  A generation on
   other binds is started beside the old one, on the same bind after it. *)
Replace ==
    /\ phase = "idle"
    /\ active # NoGraph => want.gen # applied.gen
    /\ next' = want
    /\ IF active = NoGraph
       THEN StartOf(want.gen, "fresh") /\ UNCHANGED <<active, open>>
       ELSE IF HasBindOverlap(active, want.gen)
       THEN StartOf(want.gen, "overlap") /\ active' = NoGraph /\ open' = Without("active")
       ELSE StartOf(want.gen, "disjoint") /\ UNCHANGED <<active, open>>
    /\ UNCHANGED <<applied, want, tables, faults, requests>>

----------------------------------------------------------------------------
(* RuntimeNode::start: one address is bound and its task spawned. *)
Bind ==
    /\ phase = "starting"
    /\ ~AllBound
    /\ ReusePort \/ \A h \in Holders : <<Address, h>> \notin open
    /\ open' = open \cup {<<Address, "starting">>}
    /\ at' = IF at[2] < Len(AddressesOf(Node)) THEN <<at[1], at[2] + 1>>
             ELSE <<at[1] + 1, 1>>
    /\ UNCHANGED <<active, applied, want, phase, plan, graph, next, tables, faults, requests>>

(* A bug: what the nodes before the failing one bound stays open. *)
AfterBindErrorKeeps == open

(* What a failed start leaves open.  RuntimeGraph::start aborts the earlier
   nodes and waits.  Of the failing node, start_tcp_handler_servers aborts
   its tasks without waiting; where `?` leaves RuntimeNode::start the handles
   are dropped and their tasks go on. *)
AfterBindError ==
    LET rest == IF at[2] <= Len(Node.tcp) THEN "dropping" ELSE "leaked"
    IN  Without("starting") \cup (BoundOfNode \X {rest})

(* The end of a start that failed, in replace and in apply_runtime: the table
   transaction is aborted, the disjoint generation was kept, the stopped one
   is started again. *)
StartFails(left) ==
    /\ open' = left
    /\ IF plan = "overlap"
       THEN StartOf(applied.gen, "rollback") /\ UNCHANGED active
       ELSE Idle /\ UNCHANGED active

(* The address is taken, or the system refuses it. *)
BindError ==
    /\ phase = "starting"
    /\ ~AllBound
    /\ \/ /\ ~ReusePort
          /\ \E h \in Holders : <<Address, h>> \in open
          /\ UNCHANGED faults
       \/ /\ faults < MaxFaults
          /\ faults' = faults + 1
    /\ StartFails(AfterBindError)
    /\ UNCHANGED <<applied, want, next, tables, requests>>

(* The readiness gate: a worker has exited, or a probe fails. *)
GateFails ==
    /\ phase = "starting"
    /\ AllBound
    /\ faults < MaxFaults
    /\ faults' = faults + 1
    /\ StartFails(Without("starting"))
    /\ UNCHANGED <<applied, want, next, tables, requests>>

(* A bug: the candidate's table is published also after a rollback. *)
CommitAlways ==
    /\ phase = "starting"
    /\ AllBound
    /\ open' = Promoted
    /\ active' = graph
    /\ tables' = [tables EXCEPT ![next.gen.proto] = next.list]
    /\ applied' = IF plan = "rollback" THEN applied ELSE next
    /\ Idle
    /\ UNCHANGED <<want, next, faults, requests>>

(* The gate passes.  A disjoint predecessor is stopped now; the candidate
   becomes the active generation and its table is committed.  After a
   rollback replace still returns the error: the table transaction is
   aborted and nothing of the candidate is cached. *)
Commit ==
    /\ phase = "starting"
    /\ AllBound
    /\ open' = Promoted
    /\ active' = graph
    /\ IF plan = "rollback"
       THEN UNCHANGED <<applied, tables>>
       ELSE /\ applied' = next
            /\ tables' = [tables EXCEPT ![next.gen.proto] = next.list]
    /\ Idle
    /\ UNCHANGED <<want, next, faults, requests>>

(* An aborted task that nobody waits for is dropped by the executor. *)
TaskDropped ==
    \E a \in HeldBy("dropping") :
        /\ open' = open \ {<<a, "dropping">>}
        /\ UNCHANGED <<active, applied, want, phase, plan, graph, next, at, tables, faults,
                       requests>>

(* RuntimeGraphSlot::stop at shutdown; the exit ends every other task. *)
StopGraph ==
    /\ phase = "idle"
    /\ phase' = "stopped"
    /\ active' = NoGraph
    /\ open' = {}
    /\ UNCHANGED <<applied, want, plan, graph, next, at, tables, faults, requests>>

----------------------------------------------------------------------------
GraphInit ==
    /\ active = NoGraph
    /\ applied = NoGraph
    /\ want \in Generation
    /\ open = {}
    /\ phase = "idle"
    /\ plan = "fresh"
    /\ graph = NoGraph
    /\ next = want
    /\ at = <<1, 1>>
    /\ tables = [p \in Protocols |-> NoGraph]
    /\ faults = 0
    /\ requests = 0

Step == RefreshUsers \/ Replace \/ Bind \/ BindError \/ GateFails \/ Commit

GraphNext ==
    \/ \E g \in Generations, l \in Lists : Request(g, l)
    \/ Step
    \/ TaskDropped
    \/ StopGraph

GraphSpec == GraphInit /\ [][GraphNext]_graphVars

(* A pull comes every interval and every await of a start returns; an aborted
   task is dropped by the executor. *)
GraphFair == WF_graphVars(Step) /\ WF_graphVars(TaskDropped)

GraphFairSpec == GraphSpec /\ GraphFair

----------------------------------------------------------------------------
GraphTypeOK ==
    /\ active \in Generations \cup {NoGraph}
    /\ applied \in Generation \cup {NoGraph}
    /\ want \in Generation
    /\ open \in SUBSET (Addresses \X Holders)
    /\ phase \in {"idle", "starting", "stopped"}
    /\ plan \in Plans
    /\ graph \in Generations \cup {NoGraph}
    /\ (graph = NoGraph) = (phase # "starting")
    /\ next \in Generation
    /\ at \in (Nat \ {0}) \X (Nat \ {0})
    /\ tables \in [Protocols -> Lists \cup {NoGraph}]
    /\ faults \in 0..MaxFaults
    /\ requests \in 0..MaxRequests

(* Between two replacements the running tasks the slot can stop are exactly
   the listeners of the committed generation: a start that failed half way,
   or a predecessor, leaves none behind and takes none away.  While a
   generation on other binds is tried, the old one is never down: the
   candidate's failure must cost nothing.  (replace and its branch without
   overlap, RuntimeGraph::start and abort_and_wait.) *)
OwnsItsListeners ==
    /\ phase = "idle" =>
        /\ HeldBy("starting") = {}
        /\ HeldBy("active") = IF active = NoGraph THEN {} ELSE Sockets(active)
    /\ phase = "starting" /\ plan = "disjoint" =>
        /\ active = applied.gen
        /\ Sockets(active) \subseteq HeldBy("active")

(* Whenever listeners run and no replacement is under way, they
   authenticate against exactly the user list the controller has cached as
   applied, after any mixture of user-only refreshes, failed candidates,
   rollbacks and protocol changes.  (NodeUserTablesTxn and apply_runtime.) *)
ServesAppliedUsers ==
    phase = "idle" /\ active # NoGraph =>
        /\ active = applied.gen
        /\ tables[active.proto] = applied.list

(* Whatever replacements, rollbacks and refreshes fail: between them the slot owns
   exactly the listeners of the applied generation, these read the applied users,
   and a candidate on other binds costs the old generation nothing. *)
GraphSafe == OwnsItsListeners /\ ServesAppliedUsers

(* The documentation says of the graph: "A partial start is aborted."
   No task of a generation that did not start goes on listening. *)
PartialStartAborted == HeldBy("leaked") = {}

(* A node whose pulls go on ends up with the generation and the users the
   panel publishes, however a replacement failed, even when the rollback
   failed too and the node was left without a runtime. *)
Recovers ==
    <>[](\/ phase = "stopped"
         \/ /\ active = want.gen
            /\ tables[active.proto] = want.list)
=============================================================================
