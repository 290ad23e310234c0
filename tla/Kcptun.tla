------------------------------- MODULE Kcptun -------------------------------
(***************************************************************************)
(* The sessions of the Kcptun server (ss_plugins/kcptun/server.rs).  One   *)
(* loop receives every datagram, keeps the table of sessions with its      *)
(* index by peer and its census by address, and starts a task per session. *)
(* Tasks end on their own (idle, application, error) or are cancelled, and *)
(* tell the loop through a channel, by which time the key may name another *)
(* session.                                                                *)
(***************************************************************************)
EXTENDS Naturals, Sequences, FiniteSets, SequencesExt

CONSTANTS
    Peers,      \* source addresses with their ports
    IpOf,       \* peer -> its IP
    Convs,      \* KCP conversations, numbers above 0
    MaxTable,   \* max_sessions
    MaxPerIp,   \* max_sessions_per_ip
    QueueCap,   \* inbound_packets_per_session
    MaxGen,     \* bound: sessions started
    MaxPackets  \* bound: datagrams received

ASSUME KcptunBounds ==
    /\ IsFiniteSet(Peers) /\ IsFiniteSet(Convs) /\ 0 \notin Convs
    /\ MaxTable \in Nat /\ MaxPerIp \in Nat /\ QueueCap \in Nat \ {0}
    /\ MaxGen \in Nat /\ MaxPackets \in Nat

VARIABLES
    table,  \* SessionTable: sess (key -> generation), peer, ip; and active_sessions
    gen,    \* the last generation
    task,   \* generation -> its session task
    closed, \* the channel of SessionClosed, generations
    serving,\* the loop runs
    arrivals \* datagrams received so far

kcpVars == <<table, gen, task, closed, serving, arrivals>>

Keys == Peers \X Convs
Ips == {IpOf[p] : p \in Peers}
Contents == {"good", "bad", "fatal"}

Live(t) == {k \in Keys : t.sess[k] # 0}
EmptyTable ==
    [sess |-> [k \in Keys |-> 0], peer |-> [p \in Peers |-> 0], ip |-> [i \in Ips |-> 0],
     active |-> 0]
NoTask == [pc |-> "none", key |-> <<>>, cancelled |-> FALSE, queue |-> <<>>, idle |-> FALSE]

-----------------------------------------------------------------------------
(* SessionTable::insert *)
Inserted(t, k, g) ==
    [t EXCEPT !.sess[k] = g, !.peer[k[1]] = k[2],
              !.ip[IpOf[k[1]]] = IF t.sess[k] = 0 THEN @ + 1 ELSE @]

(* SessionTable::remove *)
Removed(t, k) ==
    IF t.sess[k] = 0 THEN t
    ELSE [t EXCEPT !.sess[k] = 0,
                   !.ip[IpOf[k[1]]] = IF @ = 0 THEN 0 ELSE @ - 1,
                   !.peer[k[1]] = IF @ = k[2] THEN 0 ELSE @]

(* Removed with the decrement of active_sessions. *)
SessionDropped(t, k) == IF t.sess[k] = 0 THEN t ELSE [Removed(t, k) EXCEPT !.active = @ - 1]

Full(t, p) == Cardinality(Live(t)) >= MaxTable \/ t.ip[IpOf[p]] >= MaxPerIp

(* The task's receiver is there and has room. *)
Takes(g) == task[g].pc \in {"run", "end"} /\ Len(task[g].queue) < QueueCap

(* run_server, a datagram of a peer that names its conversation.  Only a first
   segment (sequence number 0) may replace the peer's conversation; a session is
   created by any valid segment. *)
Receive(p, c, first, content) ==
    LET k == <<p, c>>
        old == <<p, table.peer[p]>>
        switch == table.peer[p] \notin {0, c}
        t == IF switch THEN [SessionDropped(table, old) EXCEPT !.peer[p] = 0] ELSE table
        tasks == IF switch /\ table.sess[old] # 0
                 THEN [task EXCEPT ![table.sess[old]].cancelled = TRUE] ELSE task
        g == t.sess[k]
    IN  /\ serving /\ arrivals < MaxPackets /\ arrivals' = arrivals + 1
        /\ switch => first
        /\ \/ /\ g # 0
              /\ table' = t /\ UNCHANGED gen
              /\ task' = IF Takes(g) THEN [tasks EXCEPT ![g].queue = Append(@, content)]
                         ELSE tasks
           \/ /\ g = 0 /\ (Full(t, p) \/ content = "bad")
              /\ table' = t /\ task' = tasks /\ UNCHANGED gen
           \/ /\ g = 0 /\ ~Full(t, p) /\ content # "bad" /\ gen < MaxGen
              /\ gen' = gen + 1
              /\ table' = [Inserted(t, k, gen + 1) EXCEPT !.active = @ + 1]
              /\ task' = [tasks EXCEPT ![gen + 1] =
                            [NoTask EXCEPT !.pc = "run", !.key = k, !.queue = <<content>>]]
        /\ UNCHANGED <<closed, serving>>

(* A parity packet goes to the conversation its peer has. *)
ReceiveParity(p, content) ==
    /\ serving /\ arrivals < MaxPackets /\ arrivals' = arrivals + 1
    /\ table.peer[p] # 0
    /\ LET g == table.sess[<<p, table.peer[p]>>]
       IN  g # 0 /\ Takes(g) /\ task' = [task EXCEPT ![g].queue = Append(@, content)]
    /\ UNCHANGED <<table, gen, closed, serving>>

(* A bug: the session of the key is removed whatever its generation. *)
ClosedByKey(g) == SessionDropped(table, task[g].key)

(* remove_if_generation *)
ClosedTable(g) ==
    IF table.sess[task[g].key] = g THEN SessionDropped(table, task[g].key) ELSE table

(* The loop takes a SessionClosed out of the channel. *)
TakeClosed ==
    /\ serving /\ closed # <<>>
    /\ closed' = Tail(closed)
    /\ table' = ClosedTable(Head(closed))
    /\ UNCHANGED <<gen, task, serving, arrivals>>

(* The server is cancelled: every session is, and the table is drained. *)
Shutdown ==
    /\ serving /\ serving' = FALSE
    /\ task' = [g \in 1..MaxGen |-> [task[g] EXCEPT !.cancelled = @ \/ task[g].pc # "none"]]
    /\ table' = EmptyTable
    /\ UNCHANGED <<gen, closed, arrivals>>

-----------------------------------------------------------------------------
(* pump_kcp_session: a datagram is decoded and handed to KCP. *)
Pump(g) ==
    /\ task[g].pc = "run" /\ task[g].queue # <<>>
    /\ LET x == Head(task[g].queue)
       IN  task' = [task EXCEPT ![g].queue = Tail(@),
                                ![g].idle = IF x = "good" THEN FALSE ELSE @,
                                ![g].pc = IF x = "fatal" THEN "end" ELSE @,
                                ![g].cancelled = @ \/ x = "fatal"]
    /\ UNCHANGED <<table, gen, closed, serving, arrivals>>

(* The idle timeout has passed since the peer's last accepted segment. *)
GrowIdle(g) ==
    /\ task[g].pc = "run" /\ ~task[g].idle
    /\ task' = [task EXCEPT ![g].idle = TRUE]
    /\ UNCHANGED <<table, gen, closed, serving, arrivals>>

(* The pump leaves its loop: idle, cancelled, or the application has ended. *)
EndPump(g) ==
    /\ task[g].pc = "run"
    /\ task' = [task EXCEPT ![g].pc = "end", ![g].cancelled = TRUE]
    /\ UNCHANGED <<table, gen, closed, serving, arrivals>>

MustEnd(g) == task[g].idle \/ task[g].cancelled

(* A bug: the loop is not told. *)
FinishSilently(g) ==
    /\ task[g].pc = "end"
    /\ task' = [task EXCEPT ![g].pc = "done", ![g].queue = <<>>]
    /\ UNCHANGED <<table, gen, closed, serving, arrivals>>

(* run_session: sender and application are stopped and the loop is told. *)
Finish(g) ==
    /\ task[g].pc = "end"
    /\ task' = [task EXCEPT ![g].pc = "done", ![g].queue = <<>>]
    /\ closed' = IF serving THEN Append(closed, g) ELSE closed
    /\ UNCHANGED <<table, gen, serving, arrivals>>

KcpInit ==
    /\ table = EmptyTable /\ gen = 0 /\ closed = <<>> /\ serving = TRUE /\ arrivals = 0
    /\ task = [g \in 1..MaxGen |-> NoTask]

KcpNext ==
    \/ \E p \in Peers, x \in Contents :
         \/ \E c \in Convs, first \in BOOLEAN : Receive(p, c, first, x)
         \/ ReceiveParity(p, x)
    \/ \E g \in 1..MaxGen : Pump(g) \/ GrowIdle(g) \/ EndPump(g) \/ Finish(g)
    \/ TakeClosed \/ Shutdown

(* Tasks are polled, their tickers fire, the loop polls its channel.  A session
   grows idle when its peer sends no more; nobody is obliged to send. *)
KcpFair ==
    /\ \A g \in 1..MaxGen :
         /\ WF_kcpVars(Pump(g)) /\ WF_kcpVars(GrowIdle(g))
         /\ WF_kcpVars(MustEnd(g) /\ EndPump(g)) /\ WF_kcpVars(Finish(g))
    /\ WF_kcpVars(TakeClosed)

KcpSafetySpec == KcpInit /\ [][KcpNext]_kcpVars
KcpSpec == KcpSafetySpec /\ KcpFair

-----------------------------------------------------------------------------
(* The map, the index by peer, the census by address and the count of sessions
   agree, and the limits hold. *)
TableExact ==
    /\ \A i \in Ips : table.ip[i] = Cardinality({k \in Live(table) : IpOf[k[1]] = i})
    /\ \A p \in Peers : {c \in Convs : <<p, c>> \in Live(table)} = {table.peer[p]} \ {0}
    /\ table.active = Cardinality(Live(table)) /\ table.active <= MaxTable
    /\ \A i \in Ips : table.ip[i] <= MaxPerIp

(* A task that was not told to stop is the session of its key; a session of the
   table has a task, or the news of its end is under way. *)
TasksKnown ==
    /\ \A g \in 1..gen :
         task[g].pc = "run" /\ ~task[g].cancelled => serving /\ table.sess[task[g].key] = g
    /\ \A k \in Live(table) :
         LET g == table.sess[k]
         IN  task[g].key = k /\ (task[g].pc = "done" => g \in ToSet(closed))

(* A census that drifted would refuse an address for good, a task unknown to the
   table would run for ever: neither happens, however datagrams, ends of tasks
   and replaced conversations interleave. *)
KcptunSafe == TableExact /\ TasksKnown

(* When the peers have fallen silent every session leaves the table and every
   task ends. *)
KcptunReclaims ==
    <>[](Live(table) = {} /\ \A g \in 1..gen : task[g].pc = "done")
=============================================================================
