--------------------------- MODULE TrafficTracker ---------------------------
(***************************************************************************)
(* Billing of user traffic: from the byte counters of a connection, through*)
(* the sharded TrafficTracker and the per-node push loop, to the panel, and*)
(* through the restart snapshot traffic-pending.json across a crash, a     *)
(* shutdown and a restart.                                                 *)
(*                                                                         *)
(* A counter is modelled by the SET of traffic units it stands for.  A unit*)
(* is an indivisible amount of traffic that a connection carries once, so  *)
(* the counter is the cardinality of the set, swap(0) takes the set, and   *)
(* adding counters is a union.  That the sets united are disjoint (that the*)
(* union really is the sum) is the invariant CountedOnce.  The two         *)
(* directions upload and download are taken, zeroed, restored and captured *)
(* together by every operation, so one set stands for both.                *)
(***************************************************************************)
EXTENDS Naturals, FiniteSets

CONSTANTS
    Nodes,       \* the nodes (controllers) of the process
    Users,       \* the users; each one lives in a tracker shard of its own
    Conns,       \* connection slots
    Units,       \* traffic units
    Flushers,    \* slots for connection-close snapshot writers in flight
    App,         \* the writer of V2BoardApp::run's last persist
    None,        \* "no connection"
    Owner,       \* the (node, user) a connection authenticated as
    MinTraffic,  \* node_report_min_traffic
    MaxBill,     \* bound: where the count of a unit's bills saturates
    MaxStops,    \* bound: process ends (crash or shutdown)
    LossyReply,  \* TRUE: a push the panel applied may still return an error
    IoErrors,    \* TRUE: writing the snapshot may fail
    Churn        \* TRUE: the panel may delete users

Keys == Nodes \X Users
Writers == Nodes \cup Flushers \cup {App}

ASSUME TrackerConstants ==
    /\ Owner \in [Conns -> Keys]
    /\ None \notin Conns
    /\ App \notin Nodes \cup Flushers
    /\ Nodes \cap Flushers = {}
    /\ IsFiniteSet(Units)
    /\ MinTraffic \in Nat
    /\ MaxBill \in Nat \ {0}
    /\ MaxStops \in Nat
    /\ LossyReply \in BOOLEAN
    /\ IoErrors \in BOOLEAN
    /\ Churn \in BOOLEAN

VARIABLES
    life,      \* the process: running, stopping, exiting (run returned Ok),
               \* failed (run returned Err), halted
    conn,      \* connection slot: closed, open, dropping (deregistered)
    meter,     \* the connection's two AtomicU64 counters
    hand,      \* counters swapped out by TrafficFlushTask::drop, not yet added
    sweepAt,   \* the connection the sweeper is at
    sweepHand, \* counters swapped out by the sweeper, not yet added
    pending,   \* TrackerState.traffic over all shards
    push,      \* where the controller's push() is
    final,     \* the controller has left its loop and is in its last push
    todo,      \* shards the running snapshot_traffic still has to visit
    payload,   \* the TrafficPayload of the running push
    job,       \* snapshot writer: none, queued, captured (encoded, not yet renamed)
    image,     \* what the writer captured
    disk,      \* traffic-pending.json
    billed,    \* how often the panel has counted a unit
    carried,   \* history: units carried so far
    removed,   \* history: units discarded with a deleted user
    lost,      \* history: units held only in memory when the process ended
    acked,     \* history: payload accepted by the panel, persist not finished
    settled,   \* history: units accepted by the panel whose persist returned Ok
    stops      \* history: number of process ends

conns   == <<conn, meter, hand, sweepAt, sweepHand>>
pushing == <<push, final, todo, payload>>
writing == <<job, image, disk>>
history == <<removed, lost, stops>>
vars == <<life, conns, pending, pushing, writing, billed, carried, acked,
          settled, history>>

Phases == {"idle", "taking", "posting", "applied", "restoring",
           "persistRestored", "persistAccepted", "alive", "persistLast",
           "stopped"}

Persisting == {"persistRestored", "persistAccepted", "persistLast"}

(* The traffic map [node -> [uid -> counter]]; an absent entry is {}. *)
TrafficMap == [Keys -> SUBSET Units]
NoTraffic == [k \in Keys |-> {}]

Alive == life # "halted"

-----------------------------------------------------------------------------
(* The data plane. *)

(* TrafficFlushTask::start: register fresh zero counters in ACTIVE_TRAFFIC.
   A listener that has been stopped accepts nothing. *)
Open(c) ==
    /\ life \in {"running", "stopping"}
    /\ push[Owner[c][1]] # "stopped"
    /\ conn[c] = "closed"
    /\ conn' = [conn EXCEPT ![c] = "open"]
    /\ UNCHANGED <<life, meter, hand, sweepAt, sweepHand, pending, pushing,
                   writing, billed, carried, acked, settled, history>>

(* MeteredStream: a completed read or write adds to the counter. *)
Carry(c, b) ==
    /\ life \in {"running", "stopping"}
    /\ conn[c] = "open"
    /\ b \in Units \ carried
    /\ carried' = carried \cup {b}
    /\ meter' = [meter EXCEPT ![c] = @ \cup {b}]
    /\ UNCHANGED <<life, conn, hand, sweepAt, sweepHand, pending, pushing,
                   writing, billed, acked, settled, history>>

(* A bug: the sweeper loads the counters without zeroing them. *)
SweepSwapLoads(c) ==
    /\ Alive
    /\ sweepAt = None
    /\ conn[c] = "open"
    /\ meter[c] # {}
    /\ sweepAt' = c
    /\ sweepHand' = meter[c]
    /\ UNCHANGED <<life, conn, meter, hand, pending, pushing, writing, billed,
                   carried, acked, settled, history>>

(* A bug: the sweeper visits only connections that are going away. *)
SweepSwapLate(c) ==
    /\ Alive
    /\ sweepAt = None
    /\ conn[c] = "dropping"
    /\ sweepAt' = c
    /\ sweepHand' = meter[c]
    /\ meter' = [meter EXCEPT ![c] = {}]
    /\ UNCHANGED <<life, conn, hand, pending, pushing, writing, billed,
                   carried, acked, settled, history>>

(* record_traffic_for, called by the sweeper: swap the counters out.  The
   sweeper holds the map shard of the entry until it has reported it. *)
SweepSwap(c) ==
    /\ Alive
    /\ sweepAt = None
    /\ conn[c] = "open"
    /\ meter[c] # {}
    /\ sweepAt' = c
    /\ sweepHand' = meter[c]
    /\ meter' = [meter EXCEPT ![c] = {}]
    /\ UNCHANGED <<life, conn, hand, pending, pushing, writing, billed,
                   carried, acked, settled, history>>

(* add_traffic, called by the sweeper, under the lock of the user's shard. *)
SweepAdd ==
    /\ Alive
    /\ sweepAt # None
    /\ pending' = [pending EXCEPT ![Owner[sweepAt]] = @ \cup sweepHand]
    /\ sweepAt' = None
    /\ sweepHand' = {}
    /\ UNCHANGED <<life, conn, meter, hand, pushing, writing, billed, carried,
                   acked, settled, history>>

(* TrafficFlushTask::drop deregisters first, which waits for a sweeper that
   holds the entry. *)
DropDeregister(c) ==
    /\ Alive
    /\ conn[c] = "open"
    /\ sweepAt # c
    /\ conn' = [conn EXCEPT ![c] = "dropping"]
    /\ hand' = [hand EXCEPT ![c] = meter[c]]
    /\ meter' = [meter EXCEPT ![c] = {}]
    /\ UNCHANGED <<life, sweepAt, sweepHand, pending, pushing, writing, billed,
                   carried, acked, settled, history>>

(* flush_pending_traffic: throttled to one launch per FLUSH_THROTTLE_MILLIS,
   so a launch is possible and never certain; the writer is handed to the
   blocking pool and nobody waits for it. *)
FlushPending ==
    \/ UNCHANGED job
    \/ \E f \in Flushers :
          /\ job[f] = "none"
          /\ job' = [job EXCEPT ![f] = "queued"]

(* The rest of the drop: add_traffic, and when there was something to add the
   snapshot write. *)
DropRecord(c) ==
    /\ Alive
    /\ conn[c] = "dropping"
    /\ pending' = [pending EXCEPT ![Owner[c]] = @ \cup hand[c]]
    /\ hand' = [hand EXCEPT ![c] = {}]
    /\ conn' = [conn EXCEPT ![c] = "closed"]
    /\ IF hand[c] = {} THEN UNCHANGED job ELSE FlushPending
    /\ UNCHANGED <<life, meter, sweepAt, sweepHand, pushing, image, disk,
                   billed, carried, acked, settled, history>>

-----------------------------------------------------------------------------
(* The push loop of one node: NodeController::push. *)

EndPush(n) == IF final[n] THEN "stopped" ELSE "idle"

(* A push tick, or the last push after the shutdown signal.  The select! is
   unbiased: ordinary ticks may still win after the signal. *)
StartPush(n, last) ==
    /\ life \in {"running", "stopping"}
    /\ push[n] = "idle"
    /\ last => life = "stopping"
    /\ push' = [push EXCEPT ![n] = "taking"]
    /\ final' = [final EXCEPT ![n] = last]
    /\ todo' = [todo EXCEPT ![n] = Users]
    /\ UNCHANGED <<life, conns, pending, payload, writing, billed, carried,
                   acked, settled, history>>

(* snapshot_traffic visits one shard at a time, each under its own lock: a
   counter that has reached the minimum, and is not zero, is moved out. *)
Reportable(k) ==
    /\ Cardinality(pending[k]) >= MinTraffic
    /\ Cardinality(pending[k]) > 0

(* A bug: the reported counter is copied and not zeroed. *)
TakeShardCopies(n, u) ==
    /\ push[n] = "taking"
    /\ u \in todo[n]
    /\ todo' = [todo EXCEPT ![n] = @ \ {u}]
    /\ payload' = [payload EXCEPT ![<<n, u>>] =
                      IF Reportable(<<n, u>>) THEN pending[<<n, u>>] ELSE @]
    /\ UNCHANGED <<life, conns, pending, push, final, writing, billed, carried,
                   acked, settled, history>>

TakeShard(n, u) ==
    /\ push[n] = "taking"
    /\ u \in todo[n]
    /\ todo' = [todo EXCEPT ![n] = @ \ {u}]
    /\ IF Reportable(<<n, u>>)
         THEN /\ payload' = [payload EXCEPT ![<<n, u>>] = pending[<<n, u>>]]
              /\ pending' = [pending EXCEPT ![<<n, u>>] = {}]
         ELSE UNCHANGED <<payload, pending>>
    /\ UNCHANGED <<life, conns, push, final, writing, billed, carried, acked,
                   settled, history>>

(* An empty payload is not posted: push() goes on with the alive report. *)
Taken(n) ==
    /\ push[n] = "taking"
    /\ todo[n] = {}
    /\ push' = [push EXCEPT ![n] =
                   IF \A u \in Users : payload[<<n, u>>] = {}
                     THEN "alive" ELSE "posting"]
    /\ UNCHANGED <<life, conns, pending, final, todo, payload, writing, billed,
                   carried, acked, settled, history>>

PayloadOf(n) == {b \in Units : \E u \in Users : b \in payload[<<n, u>>]}

(* External: the panel adds the payload to its users' accounts. *)
PanelApply(n) ==
    /\ push[n] = "posting"
    /\ billed' = [b \in Units |-> IF b \in PayloadOf(n) /\ billed[b] < MaxBill
                                  THEN billed[b] + 1
                                  ELSE billed[b]]
    /\ push' = [push EXCEPT ![n] = "applied"]
    /\ UNCHANGED <<life, conns, pending, final, todo, payload, writing,
                   carried, acked, settled, history>>

(* A bug: the payload is put back on success as well. *)
PushOkRestores(n) ==
    /\ push[n] = "applied"
    /\ push' = [push EXCEPT ![n] = "persistAccepted"]
    /\ acked' = [acked EXCEPT ![n] = PayloadOf(n)]
    /\ pending' = [k \in Keys |-> IF k[1] = n THEN pending[k] \cup payload[k]
                                              ELSE pending[k]]
    /\ payload' = [k \in Keys |-> IF k[1] = n THEN {} ELSE payload[k]]
    /\ job' = [job EXCEPT ![n] = "queued"]
    /\ UNCHANGED <<life, conns, final, todo, image, disk, billed, carried,
                   settled, history>>

(* push_traffic returned Ok: the consumed state is persisted. *)
PushOk(n) ==
    /\ push[n] = "applied"
    /\ push' = [push EXCEPT ![n] = "persistAccepted"]
    /\ acked' = [acked EXCEPT ![n] = PayloadOf(n)]
    /\ payload' = [k \in Keys |-> IF k[1] = n THEN {} ELSE payload[k]]
    /\ job' = [job EXCEPT ![n] = "queued"]
    /\ UNCHANGED <<life, conns, pending, final, todo, image, disk, billed,
                   carried, settled, history>>

(* push_traffic returned Err: refused or never delivered, or, with LossyReply,
   applied with the answer lost (a timeout, a connection reset). *)
PushErr(n) ==
    /\ \/ push[n] = "posting"
       \/ push[n] = "applied" /\ LossyReply
    /\ push' = [push EXCEPT ![n] = "restoring"]
    /\ UNCHANGED <<life, conns, pending, final, todo, payload, writing, billed,
                   carried, acked, settled, history>>

(* A bug: the payload replaces what was counted while the push was out. *)
RestoreShardInserts(n, u) ==
    /\ push[n] = "restoring"
    /\ payload[<<n, u>>] # {}
    /\ pending' = [pending EXCEPT ![<<n, u>>] = payload[<<n, u>>]]
    /\ payload' = [payload EXCEPT ![<<n, u>>] = {}]
    /\ UNCHANGED <<life, conns, push, final, todo, writing, billed, carried,
                   acked, settled, history>>

(* restore_traffic adds the payload back, one user's shard at a time. *)
RestoreShard(n, u) ==
    /\ push[n] = "restoring"
    /\ payload[<<n, u>>] # {}
    /\ pending' = [pending EXCEPT ![<<n, u>>] = @ \cup payload[<<n, u>>]]
    /\ payload' = [payload EXCEPT ![<<n, u>>] = {}]
    /\ UNCHANGED <<life, conns, push, final, todo, writing, billed, carried,
                   acked, settled, history>>

Restored(n) ==
    /\ push[n] = "restoring"
    /\ \A u \in Users : payload[<<n, u>>] = {}
    /\ push' = [push EXCEPT ![n] = "persistRestored"]
    /\ job' = [job EXCEPT ![n] = "queued"]
    /\ UNCHANGED <<life, conns, pending, final, todo, payload, image, disk,
                   billed, carried, acked, settled, history>>

(* The alive report: on success, or with nobody online, the cycle ends with an
   unconditional persist; on failure push() returns without one. *)
AliveReported(n) ==
    /\ push[n] = "alive"
    /\ push' = [push EXCEPT ![n] = "persistLast"]
    /\ job' = [job EXCEPT ![n] = "queued"]
    /\ UNCHANGED <<life, conns, pending, final, todo, payload, image, disk,
                   billed, carried, acked, settled, history>>

AliveFailed(n) ==
    /\ push[n] = "alive"
    /\ push' = [push EXCEPT ![n] = EndPush(n)]
    /\ UNCHANGED <<life, conns, pending, final, todo, payload, writing, billed,
                   carried, acked, settled, history>>

(* reconcile_users / remove_users, from the same controller's sync(), which
   never runs inside a push() of the node.  A connection that is still open
   keeps its counters. *)
RemoveUser(n, u) ==
    /\ Churn
    /\ life \in {"running", "stopping"}
    /\ push[n] = "idle"
    /\ pending[<<n, u>>] # {}
    /\ removed' = removed \cup pending[<<n, u>>]
    /\ pending' = [pending EXCEPT ![<<n, u>>] = {}]
    /\ UNCHANGED <<life, conns, pushing, writing, billed, carried, acked,
                   settled, lost, stops>>

-----------------------------------------------------------------------------
(* The snapshot writers: persist() and the close flush. *)

(* capture_traffic_snapshot holds every shard lock at once. *)
Capture(w) ==
    /\ Alive
    /\ job[w] = "queued"
    /\ job' = [job EXCEPT ![w] = "captured"]
    /\ image' = [image EXCEPT ![w] = pending]
    /\ UNCHANGED <<life, conns, pending, pushing, disk, billed, carried, acked,
                   settled, history>>

(* What the await of a controller's own persist leads to. *)
AfterPersist(n, ok) ==
    IF push[n] = "persistAccepted" /\ ok THEN "alive" ELSE EndPush(n)

(* persist_atomic: the temporary is renamed over the snapshot, or it is removed
   on an error.  The controller (or V2BoardApp::run) that awaits it goes on. *)
WriteDone(w, ok) ==
    /\ Alive
    /\ job[w] = "captured"
    /\ ok \/ IoErrors
    /\ job' = [job EXCEPT ![w] = "none"]
    /\ image' = [image EXCEPT ![w] = NoTraffic]
    /\ disk' = IF ok THEN image[w] ELSE disk
    /\ IF w \in Nodes
         THEN /\ push' = [push EXCEPT ![w] = AfterPersist(w, ok)]
              /\ acked' = [acked EXCEPT ![w] = {}]
              /\ settled' = IF ok THEN settled \cup acked[w] ELSE settled
         ELSE UNCHANGED <<push, acked, settled>>
    /\ \/ w # App /\ UNCHANGED life
       \/ w = App /\ ok /\ life' = "exiting"
       \/ w = App /\ ~ok /\ life' = "failed"
    /\ UNCHANGED <<conns, pending, final, todo, payload, billed, carried,
                   history>>

-----------------------------------------------------------------------------
(* The process. *)

(* wait_for_shutdown_signal returns. *)
Signal ==
    /\ life = "running"
    /\ life' = "stopping"
    /\ UNCHANGED <<conns, pending, pushing, writing, billed, carried, acked,
                   settled, history>>

(* join_all(handles), then the last persist. *)
JoinAll ==
    /\ life = "stopping"
    /\ \A n \in Nodes : push[n] = "stopped"
    /\ job[App] = "none"
    /\ job' = [job EXCEPT ![App] = "queued"]
    /\ UNCHANGED <<life, conns, pending, pushing, image, disk, billed, carried,
                   acked, settled, history>>

InMemory ==
    LET held == {meter[c] : c \in Conns} \cup {hand[c] : c \in Conns}
                \cup {sweepHand} \cup {pending[k] : k \in Keys}
                \cup {payload[k] : k \in Keys}
    IN  UNION held

OnDisk == UNION {disk[k] : k \in Keys}
Billed == {b \in Units : billed[b] > 0}

(* Whatever is only in memory is gone. *)
Stop ==
    /\ life' = "halted"
    /\ stops' = stops + 1
    /\ lost' = lost \cup (InMemory \ (OnDisk \cup Billed))
    /\ conn' = [c \in Conns |-> "closed"]
    /\ meter' = [c \in Conns |-> {}]
    /\ hand' = [c \in Conns |-> {}]
    /\ sweepAt' = None
    /\ sweepHand' = {}
    /\ pending' = NoTraffic
    /\ push' = [n \in Nodes |-> "idle"]
    /\ final' = [n \in Nodes |-> FALSE]
    /\ todo' = [n \in Nodes |-> {}]
    /\ payload' = NoTraffic
    /\ acked' = [n \in Nodes |-> {}]
    /\ job' = [w \in Writers |-> "none"]
    /\ image' = [w \in Writers |-> NoTraffic]
    /\ UNCHANGED <<disk, billed, carried, removed, settled>>

(* main returns and the runtime is dropped: every connection task has been
   dropped (its drop code ran), a write already running has finished, a queued
   one is cancelled. *)
Exit ==
    /\ life = "exiting"
    /\ \A c \in Conns : conn[c] = "closed"
    /\ \A w \in Writers : job[w] # "captured"
    /\ sweepAt = None
    /\ Stop

(* The last persist failed: main calls process::exit(1) on the spot. *)
ExitFailed ==
    /\ life = "failed"
    /\ Stop

(* The process is killed. *)
Crash ==
    /\ life \in {"running", "stopping"}
    /\ stops < MaxStops
    /\ Stop

(* TrafficTracker::new reads the snapshot back. *)
Restart ==
    /\ life = "halted"
    /\ stops <= MaxStops
    /\ life' = "running"
    /\ pending' = disk
    /\ UNCHANGED <<conns, pushing, writing, billed, carried, acked, settled,
                   history>>

-----------------------------------------------------------------------------
Init ==
    /\ life = "running"
    /\ conn = [c \in Conns |-> "closed"]
    /\ meter = [c \in Conns |-> {}]
    /\ hand = [c \in Conns |-> {}]
    /\ sweepAt = None
    /\ sweepHand = {}
    /\ pending = NoTraffic
    /\ push = [n \in Nodes |-> "idle"]
    /\ final = [n \in Nodes |-> FALSE]
    /\ todo = [n \in Nodes |-> {}]
    /\ payload = NoTraffic
    /\ job = [w \in Writers |-> "none"]
    /\ image = [w \in Writers |-> NoTraffic]
    /\ disk = NoTraffic
    /\ billed = [b \in Units |-> 0]
    /\ carried = {}
    /\ removed = {}
    /\ lost = {}
    /\ acked = [n \in Nodes |-> {}]
    /\ settled = {}
    /\ stops = 0

DataPlane ==
    \/ \E c \in Conns : Open(c) \/ SweepSwap(c) \/ DropDeregister(c)
                          \/ DropRecord(c)
    \/ \E c \in Conns, b \in Units : Carry(c, b)
    \/ SweepAdd

PushLoop ==
    Alive /\ \E n \in Nodes :
        \/ \E last \in BOOLEAN : StartPush(n, last)
        \/ \E u \in Users : TakeShard(n, u) \/ RestoreShard(n, u)
                              \/ RemoveUser(n, u)
        \/ Taken(n) \/ PanelApply(n) \/ PushOk(n) \/ PushErr(n)
        \/ Restored(n) \/ AliveReported(n) \/ AliveFailed(n)

Snapshots ==
    \E w \in Writers : Capture(w) \/ WriteDone(w, TRUE) \/ WriteDone(w, FALSE)

Process == Signal \/ JoinAll \/ Exit \/ ExitFailed \/ Crash \/ Restart

Next == DataPlane \/ PushLoop \/ Snapshots \/ Process

Spec == Init /\ [][Next]_vars

(* Fairness.  Tokio polls every ready task, the sweeper and the push timer
   tick for ever, and the blocking pool runs what it is given.  Whether the
   panel answers is not ours to assume: it is only asked not to refuse for
   ever (strong fairness of PanelApply). *)
Fairness ==
    /\ \A c \in Conns : WF_vars(SweepSwap(c)) /\ WF_vars(DropRecord(c))
    /\ WF_vars(SweepAdd)
    /\ \A n \in Nodes :
          /\ WF_vars(StartPush(n, FALSE))
          /\ \A u \in Users : WF_vars(TakeShard(n, u)) /\ WF_vars(RestoreShard(n, u))
          /\ WF_vars(Taken(n))
          /\ SF_vars(PanelApply(n))
          /\ WF_vars(PushOk(n) \/ PushErr(n))
          /\ WF_vars(Restored(n))
          /\ WF_vars(AliveReported(n) \/ AliveFailed(n))
    /\ \A w \in Writers :
          WF_vars(Capture(w)) /\ WF_vars(WriteDone(w, TRUE) \/ WriteDone(w, FALSE))

FairSpec == Spec /\ Fairness

-----------------------------------------------------------------------------
(* Properties. *)

Types ==
    /\ life \in {"running", "stopping", "exiting", "failed", "halted"}
    /\ conn \in [Conns -> {"closed", "open", "dropping"}]
    /\ meter \in [Conns -> SUBSET Units]
    /\ hand \in [Conns -> SUBSET Units]
    /\ sweepAt \in Conns \cup {None}
    /\ sweepHand \in SUBSET Units
    /\ pending \in TrafficMap
    /\ push \in [Nodes -> Phases]
    /\ final \in [Nodes -> BOOLEAN]
    /\ todo \in [Nodes -> SUBSET Users]
    /\ payload \in TrafficMap
    /\ job \in [Writers -> {"none", "queued", "captured"}]
    /\ image \in [Writers -> TrafficMap]
    /\ disk \in TrafficMap
    /\ billed \in [Units -> Nat]
    /\ carried \in SUBSET Units
    /\ removed \in SUBSET Units
    /\ lost \in SUBSET Units
    /\ acked \in [Nodes -> SUBSET Units]
    /\ settled \in SUBSET Units
    /\ stops \in Nat

Control ==
    \A n \in Nodes :
        /\ push[n] # "taking" => todo[n] = {}
        /\ job[n] # "none" <=> push[n] \in Persisting

(* The type of the state: the tracker's maps hold units and the enumerations
   hold their states (Types).  The control state is consistent (Control):
   snapshot_traffic has visited every shard by the time push() goes on, and a
   controller has a write of its own in flight exactly while push() awaits
   it. *)
TypeOK == Types /\ Control

(* No unit is ever held in two places of the running process: the sweeper, a
   connection's drop, snapshot_traffic, restore_traffic and a reload each move
   counters and never copy one, whatever order they run in. *)
CountedOnce ==
    /\ \A c, d \in Conns : c # d => /\ meter[c] \cap meter[d] = {}
                                    /\ hand[c] \cap hand[d] = {}
    /\ \A c, d \in Conns : meter[c] \cap hand[d] = {}
    /\ \A c \in Conns : sweepHand \cap (meter[c] \cup hand[c]) = {}
    /\ \A k, l \in Keys : k # l => /\ pending[k] \cap pending[l] = {}
                                   /\ payload[k] \cap payload[l] = {}
    /\ \A k, l \in Keys : pending[k] \cap payload[l] = {}
    /\ \A c \in Conns, k \in Keys :
          (meter[c] \cup hand[c]) \cap (pending[k] \cup payload[k]) = {}
    /\ \A k \in Keys : sweepHand \cap (pending[k] \cup payload[k]) = {}

(* What CountedOnce rests on: only units that were carried are anywhere; a
   snapshot, on disk or on its way there, counts a unit for one user of one
   node; and a process that has ended holds nothing. *)
Known ==
    /\ \A c \in Conns : meter[c] \subseteq carried /\ hand[c] \subseteq carried
    /\ sweepHand \subseteq carried
    /\ \A k \in Keys : pending[k] \subseteq carried /\ payload[k] \subseteq carried

SnapshotsKnown ==
    /\ \A k \in Keys : disk[k] \subseteq carried
    /\ \A w \in Writers, k \in Keys : image[w][k] \subseteq carried
    /\ \A k, l \in Keys : k # l => disk[k] \cap disk[l] = {}
    /\ \A w \in Writers : \A k, l \in Keys :
          k # l => image[w][k] \cap image[w][l] = {}

HaltedHoldsNothing ==
    life = "halted" => /\ \A c \in Conns : meter[c] = {} /\ hand[c] = {}
                       /\ \A k \in Keys : payload[k] = {}
                       /\ sweepHand = {}

Stored == Known /\ SnapshotsKnown /\ HaltedHoldsNothing

IInv == TypeOK /\ CountedOnce /\ Stored

(* Traffic never vanishes from a running process: what was carried is still
   counted somewhere, was billed, belonged to a deleted user, or was in memory
   only when an earlier process ended. *)
Accounted ==
    Alive => carried \subseteq InMemory \cup Billed \cup removed \cup lost

(* What Accounted rests on: nobody overwrites a counter that is out of its
   place.  The sweeper's and a drop's hands are empty when they take the next
   counter, snapshot_traffic finds the slot of a shard it has not visited
   empty, and a payload exists only between taking and its acceptance or its
   restoration, which is preceded by the bill. *)
HandsFree ==
    /\ sweepAt = None => sweepHand = {}
    /\ \A c \in Conns : conn[c] # "dropping" => hand[c] = {}

PayloadInPhase ==
    \A n \in Nodes, u \in Users :
        /\ push[n] \notin {"taking", "posting", "applied", "restoring"}
              => payload[<<n, u>>] = {}
        /\ u \in todo[n] => payload[<<n, u>>] = {}
        /\ push[n] = "applied" => \A b \in payload[<<n, u>>] : billed[b] > 0

Held(b) ==
    \/ \E c \in Conns : b \in meter[c] \/ b \in hand[c]
    \/ b \in sweepHand
    \/ \E k \in Keys : b \in pending[k] \/ b \in payload[k]

Gone(b) == billed[b] > 0 \/ b \in removed \/ b \in lost

(* Every unit carried can be traced: in memory while the process runs, in the
   snapshot while it does not, or to its end. *)
Traced ==
    \A b \in carried :
        \/ Gone(b)
        \/ Alive /\ Held(b)
        \/ ~Alive /\ \E k \in Keys : b \in disk[k]

TInv == IInv /\ HandsFree /\ PayloadInPhase /\ Traced

(* Unless an accepted push is reported as failed, one run of the process bills
   a unit at most once; a restart may bill it once more. *)
BilledOncePerLife ==
    ~LossyReply => \A b \in Units : billed[b] <= 1 + stops

(* What BilledOncePerLife rests on: when no reply is lost, whatever a process
   still holds, but for a payload the panel has just counted, was billed at
   most by earlier processes. *)
MayStillBill(b) ==
    \/ \E c \in Conns : b \in meter[c] \/ b \in hand[c]
    \/ b \in sweepHand
    \/ \E k \in Keys : b \in pending[k]
    \/ \E n \in Nodes, u \in Users : push[n] # "applied" /\ b \in payload[<<n, u>>]

BillsBounded ==
    \A b \in Units :
        /\ billed[b] <= 1 + stops
        /\ ~Alive \/ MayStillBill(b) => billed[b] <= stops
        /\ b \notin carried => billed[b] = 0

(* docs/v2board-runtime-support.md: once the panel has accepted a payload and
   the consumed state has been persisted, a restart does not replay it.  (The
   process that accepted it does not replay it either.) *)
SettledNotReplayed ==
    \A k \in Keys : settled \cap pending[k] = {}

(* docs/v2board-runtime-support.md: a graceful shutdown leaves all unreported
   traffic in traffic-pending.json.  (Read with MaxStops = 0: no crash.) *)
ShutdownKeepsTraffic == lost = {}

(* Every unit carried is eventually billed, without waiting for its connection
   to close, unless its user is deleted or the process dies with it. *)
EventuallyBilled ==
    \A b \in Units :
        b \in carried ~> \/ b \in Billed \cup removed \cup lost
                         \/ life # "running"
=============================================================================
