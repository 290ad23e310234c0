----------------------------- MODULE UdpRouter -----------------------------
(***************************************************************************)
(* The future that relays one multi-destination UDP stream.  A poll runs   *)
(* the outbound side (creations, queued writes, flushes, reads from the    *)
(* client), the inbound side (queued responses, reads from the remotes,    *)
(* the flush) and a tail that removes and expires sessions and decides     *)
(* whether the router has finished.  A poll of a stream may succeed, fail  *)
(* or be pending as it likes; a datagram is a slot of a queue.             *)
(***************************************************************************)
EXTENDS Naturals, Sequences, FiniteSets

CONSTANTS
    Flows,      \* lookup keys: destinations or session ids
    MaxIds,     \* bound: sessions created
    SessionCap, \* MAX_SESSIONS
    CreateCap,  \* MAX_PENDING_CREATES
    PoolMax,    \* REMOTE_WRITE_POOL_SIZE, SERVER_WRITE_POOL_SIZE
    PerSession, \* MAX_PENDING_..._WRITES_PER_SESSION
    KeepIdle    \* IDLE_BUFFER_POOL_SIZE

SessionIds == 1..MaxIds

ASSUME RouterConstants ==
    /\ Flows # {} /\ MaxIds \in Nat /\ CreateCap \in Nat /\ PoolMax \in Nat /\ KeepIdle \in Nat
    /\ SessionCap \in Nat \ {0} /\ PerSession \in Nat \ {0}

VARIABLES
    rpc,        \* where a poll is
    creating,   \* flows with KeyState::Pending
    lookup,     \* flow -> id of KeyState::Active, 0 if none
    nextId,     \* sessions created so far
    flowOf,     \* id -> flow
    sessions,   \* ids in the session map
    deadRead,   \* ids with remote_read_eof
    deadWrite,  \* ids with remote_write_eof
    remoteQ,    \* remote_write_queue, as ids
    flushQ,     \* remote_flush_queue, as a set
    serverQ,    \* server_write_queue, as ids
    inRemote,   \* id -> in_remote_write_queue
    inServer,   \* id -> in_server_write_queue
    toRemove,   \* sessions_to_remove
    shutdowns,  \* streams in pending_shutdowns
    remotePool, \* [idle, created] of remote_write_pool
    serverPool, \* [idle, created] of server_write_pool
    needsFlush, \* needs_server_flush
    wrote,      \* server_write_progress of this round
    readEnd,    \* server_read_eof
    writeEnd,   \* server_write_eof
    timer,      \* drained_since is set
    quiet,      \* environment: neither the client nor a remote sends any more
    done        \* the future is ready

outVars == <<creating, lookup, nextId, flowOf, remoteQ, flushQ, inRemote, remotePool, readEnd>>
inVars == <<serverQ, inServer, serverPool, needsFlush, wrote, writeEnd>>
endVars == <<shutdowns, timer, quiet, done>>
routerVars == <<rpc, creating, lookup, nextId, flowOf, sessions, deadRead, deadWrite, remoteQ,
                flushQ, serverQ, inRemote, inServer, toRemove, shutdowns, remotePool,
                serverPool, needsFlush, wrote, readEnd, writeEnd, timer, quiet, done>>

-----------------------------------------------------------------------------
(* BufferPool: acquire, release, trim_idle. *)
CanAcquire(p) == p.idle > 0 \/ p.created < PoolMax
Acquired(p) == IF p.idle > 0 THEN [p EXCEPT !.idle = @ - 1] ELSE [p EXCEPT !.created = @ + 1]
Released(p) == [p EXCEPT !.idle = @ + 1]
Trimmed(p) == IF p.idle > KeepIdle
              THEN [idle |-> KeepIdle, created |-> p.created - (p.idle - KeepIdle)] ELSE p

(* should_remove, after these sessions have died and with these queues. *)
Removable(dead, counts) == {i \in dead : counts[i] = 0}

(* A write to a remote of a session: what the three outcomes change. *)
WriteFails(i) ==
    /\ deadWrite' = deadWrite \cup {i}
    /\ toRemove' = toRemove \cup Removable({i}, inServer)

-----------------------------------------------------------------------------
(* run_udp_routing makes a router, and the runtime polls it. *)
Start ==
    /\ rpc = "none" /\ rpc' = "parked"
    /\ UNCHANGED <<outVars, inVars, endVars, sessions, deadRead, deadWrite, toRemove>>

Wake ==
    /\ rpc = "parked" /\ ~done
    /\ rpc' = "out"
    /\ UNCHANGED <<outVars, inVars, endVars, sessions, deadRead, deadWrite, toRemove>>

(* A creation succeeds: the first packet is written, queued if there is a
   buffer, or lost with the remote (there is nothing to write if it is empty,
   and its last buffer may be in the hands of poll_read_server); at the cap
   another session makes room, the one longest without traffic, whichever. *)
Created(f) ==
    /\ rpc = "out" /\ f \in creating /\ nextId < MaxIds
    /\ LET i == nextId + 1
       IN  /\ nextId' = i
           /\ creating' = creating \ {f}
           /\ flowOf' = [flowOf EXCEPT ![i] = f]
           /\ \E victim \in SUBSET sessions :
                /\ Cardinality(victim) = (IF Cardinality(sessions) >= SessionCap THEN 1 ELSE 0)
                /\ sessions' = (sessions \ victim) \cup {i}
                /\ lookup' = [g \in Flows |-> IF g = f THEN i
                                              ELSE IF lookup[g] \in victim THEN 0 ELSE lookup[g]]
                /\ shutdowns' = shutdowns + Cardinality(victim)
           /\ \/ flushQ' = flushQ \cup {i}
                 /\ UNCHANGED <<remoteQ, inRemote, remotePool, deadWrite, toRemove>>
              \/ /\ CanAcquire(remotePool)
                 /\ remotePool' = Acquired(remotePool)
                 /\ remoteQ' = Append(remoteQ, i)
                 /\ inRemote' = [inRemote EXCEPT ![i] = 1]
                 /\ UNCHANGED <<flushQ, deadWrite, toRemove>>
              \/ UNCHANGED <<flushQ, remotePool, remoteQ, inRemote, deadWrite, toRemove>>
              \/ deadWrite' = deadWrite \cup {i} /\ toRemove' = toRemove \cup {i}
                 /\ UNCHANGED <<flushQ, remoteQ, inRemote, remotePool>>
    /\ UNCHANGED <<rpc, deadRead, readEnd, inVars, timer, quiet, done>>

(* A creation fails, is blocked or times out. *)
CreateFails(f) ==
    /\ rpc = "out" /\ f \in creating
    /\ creating' = creating \ {f}
    /\ UNCHANGED <<rpc, lookup, nextId, flowOf, remoteQ, flushQ, inRemote, remotePool, readEnd,
                   inVars, endVars, sessions, deadRead, deadWrite, toRemove>>

(* A bug: the buffer of a write whose session is gone is not released. *)
DrainRemoteLeaks ==
    /\ rpc = "out" /\ remoteQ # <<>> /\ Head(remoteQ) \notin sessions
    /\ remoteQ' = Tail(remoteQ)
    /\ UNCHANGED <<rpc, creating, lookup, nextId, flowOf, flushQ, inRemote, remotePool, readEnd,
                   sessions, deadRead, deadWrite, toRemove, inVars, endVars>>

(* drain_remote_writes, one entry. *)
DrainRemote ==
    /\ rpc = "out" /\ remoteQ # <<>>
    /\ LET i == Head(remoteQ)
       IN  \/ /\ i \in sessions \ deadWrite  \* pending
              /\ remoteQ' = Append(Tail(remoteQ), i)
              /\ UNCHANGED <<inRemote, remotePool, flushQ, deadWrite, toRemove>>
           \/ /\ remoteQ' = Tail(remoteQ)
              /\ remotePool' = Released(remotePool)
              /\ IF i \in sessions
                 THEN /\ inRemote' = [inRemote EXCEPT ![i] = @ - 1]
                      /\ \/ i \notin deadWrite /\ flushQ' = flushQ \cup {i}
                            /\ UNCHANGED <<deadWrite, toRemove>>
                         \/ WriteFails(i) /\ UNCHANGED flushQ
                 ELSE UNCHANGED <<inRemote, flushQ, deadWrite, toRemove>>
    /\ UNCHANGED <<rpc, creating, lookup, nextId, flowOf, readEnd, sessions, deadRead,
                   inVars, endVars>>

(* drain_remote_flushes, one entry that is not pending. *)
FlushRemote(i) ==
    /\ rpc = "out" /\ i \in flushQ
    /\ flushQ' = flushQ \ {i}
    /\ \/ UNCHANGED <<deadWrite, toRemove>>
       \/ i \in sessions /\ WriteFails(i)
    /\ UNCHANGED <<rpc, creating, lookup, nextId, flowOf, remoteQ, inRemote, remotePool,
                   readEnd, sessions, deadRead, inVars, endVars>>

(* write_remote_pings, one session: it ignores an earlier write error. *)
PingRemote(i) ==
    /\ rpc = "out" /\ i \in sessions /\ inRemote[i] = 0
    /\ \/ flushQ' = flushQ \cup {i} /\ UNCHANGED <<deadWrite, toRemove>>
       \/ WriteFails(i) /\ UNCHANGED flushQ
    /\ UNCHANGED <<rpc, creating, lookup, nextId, flowOf, remoteQ, inRemote, remotePool,
                   readEnd, sessions, deadRead, inVars, endVars>>

(* poll_read_server, one datagram: dropped while the flow is being created, when
   its session is dead or has its share of the queue, and when too many creations
   are under way; else written, queued
   in the buffer it was read into, or the remote fails; a new flow is created. *)
ReadClient(f) ==
    /\ rpc = "out" /\ ~readEnd /\ ~quiet /\ CanAcquire(remotePool)
    /\ LET i == lookup[f]
           held == Acquired(remotePool)
       IN  \/ /\ i = 0 /\ f \notin creating /\ Cardinality(creating) < CreateCap
              /\ nextId + Cardinality(creating) < MaxIds
              /\ creating' = creating \cup {f}
              /\ remotePool' = Released(held)
              /\ UNCHANGED <<remoteQ, inRemote, flushQ, deadWrite, toRemove>>
           \/ /\ i \in sessions \ deadWrite /\ inRemote[i] < PerSession
              /\ \/ /\ remotePool' = Released(held) /\ flushQ' = flushQ \cup {i}
                    /\ UNCHANGED <<remoteQ, inRemote, deadWrite, toRemove>>
                 \/ /\ remotePool' = held
                    /\ remoteQ' = Append(remoteQ, i)
                    /\ inRemote' = [inRemote EXCEPT ![i] = @ + 1]
                    /\ UNCHANGED <<flushQ, deadWrite, toRemove>>
                 \/ /\ remotePool' = Released(held) /\ WriteFails(i)
                    /\ UNCHANGED <<remoteQ, inRemote, flushQ>>
              /\ UNCHANGED creating
    /\ UNCHANGED <<rpc, lookup, nextId, flowOf, readEnd, sessions, deadRead, inVars, endVars>>

(* The client's stream ends or fails; creations under way are left alone. *)
ReadEnds ==
    /\ rpc = "out" /\ ~readEnd /\ CanAcquire(remotePool)
    /\ readEnd' = TRUE
    /\ UNCHANGED <<rpc, creating, lookup, nextId, flowOf, remoteQ, flushQ, inRemote, remotePool,
                   inVars, endVars, sessions, deadRead, deadWrite, toRemove>>

(* The outbound side has nothing more to do in this poll. *)
OutDone ==
    /\ rpc = "out"
    /\ rpc' = IF writeEnd THEN "tail" ELSE "drain"
    /\ wrote' = FALSE
    /\ UNCHANGED <<outVars, serverQ, inServer, serverPool, needsFlush, writeEnd, endVars,
                   sessions, deadRead, deadWrite, toRemove>>

-----------------------------------------------------------------------------
inFrame == <<outVars, endVars, sessions, deadWrite>>

(* set_server_write_eof, once every buffer in hand is back: the queue is dropped
   without telling its sessions, and the pool is emptied. *)
WriteSideEnds ==
    /\ writeEnd' = TRUE /\ needsFlush' = FALSE /\ serverQ' = <<>>
    /\ serverPool' = [idle |-> 0, created |-> 0]

(* drain_server_writes: entries until one is pending or fails. *)
DrainServer ==
    /\ rpc = "drain" /\ serverQ # <<>>
    /\ LET i == Head(serverQ)
       IN  \/ /\ i \notin sessions
              /\ serverQ' = Tail(serverQ) /\ serverPool' = Released(serverPool)
              /\ UNCHANGED <<inServer, toRemove, wrote, writeEnd, needsFlush, rpc>>
           \/ /\ i \in sessions  \* written
              /\ serverQ' = Tail(serverQ) /\ serverPool' = Released(serverPool)
              /\ inServer' = [inServer EXCEPT ![i] = @ - 1]
              /\ toRemove' = toRemove \cup Removable({i} \cap (deadRead \cup deadWrite), inServer')
              /\ wrote' = TRUE
              /\ UNCHANGED <<writeEnd, needsFlush, rpc>>
           \/ /\ i \in sessions  \* fails
              /\ inServer' = [inServer EXCEPT ![i] = @ - 1]
              /\ WriteSideEnds
              /\ rpc' = "read"
              /\ UNCHANGED <<toRemove, wrote>>
    /\ UNCHANGED <<deadRead, inFrame>>

DrainServerEnds ==
    /\ rpc = "drain" /\ rpc' = "read"
    /\ serverQ # <<>> => Head(serverQ) \in sessions
    /\ UNCHANGED <<inVars, deadRead, toRemove, inFrame>>

(* poll_read_remotes, one datagram of a session, or its end. *)
ReadRemote(i) ==
    /\ rpc = "read" /\ i \in sessions \ deadRead /\ inServer[i] < PerSession
    /\ CanAcquire(serverPool)
    /\ LET held == Acquired(serverPool)
       IN  \/ /\ ~quiet  \* written
              /\ wrote' = TRUE /\ serverPool' = Released(held)
              /\ UNCHANGED <<serverQ, inServer, deadRead, toRemove, writeEnd, needsFlush, rpc>>
           \/ /\ ~quiet  \* pending: queued in the buffer it was read into
              /\ serverPool' = held
              /\ serverQ' = Append(serverQ, i)
              /\ inServer' = [inServer EXCEPT ![i] = @ + 1]
              /\ UNCHANGED <<wrote, deadRead, toRemove, writeEnd, needsFlush, rpc>>
           \/ /\ ~quiet  \* fails
              /\ IF writeEnd
                 THEN serverPool' = Released(held) /\ UNCHANGED <<writeEnd, needsFlush, serverQ>>
                 ELSE WriteSideEnds
              /\ rpc' = "flush"
              /\ UNCHANGED <<wrote, inServer, deadRead, toRemove>>
           \/ /\ deadRead' = deadRead \cup {i}  \* end or error of the remote
              /\ toRemove' = toRemove \cup Removable({i}, inServer)
              /\ serverPool' = Released(held)
              /\ UNCHANGED <<wrote, serverQ, inServer, writeEnd, needsFlush, rpc>>
    /\ UNCHANGED inFrame

ReadRemotesEnd ==
    /\ rpc = "read" /\ rpc' = "flush"
    /\ UNCHANGED <<inVars, deadRead, toRemove, inFrame>>

(* write_server_ping, in a round that wrote nothing; it is made as well when the
   write side ended in this very round. *)
PingServer ==
    /\ rpc = "flush" /\ ~wrote /\ serverQ = <<>>
    /\ \/ wrote' = TRUE /\ UNCHANGED <<serverQ, serverPool, needsFlush, writeEnd>>
       \/ ~writeEnd /\ WriteSideEnds /\ UNCHANGED wrote
    /\ UNCHANGED <<rpc, inServer, deadRead, toRemove, inFrame>>

(* The end of an inbound round: a write makes a flush necessary; the flush is
   done, pending or fails.  Another round may follow while the write side is
   open, until one makes no progress or the task's budget is used up. *)
FlushServer ==
    /\ rpc = "flush"
    /\ \/ /\ wrote \/ needsFlush  \* flushed
          /\ needsFlush' = FALSE
          /\ UNCHANGED <<writeEnd, serverQ, serverPool>>
       \/ /\ wrote \/ needsFlush  \* fails
          /\ IF writeEnd
             THEN needsFlush' = TRUE /\ UNCHANGED <<writeEnd, serverQ, serverPool>>
             ELSE WriteSideEnds
       \/ /\ needsFlush' = (wrote \/ needsFlush)  \* nothing to flush, or pending
          /\ UNCHANGED <<writeEnd, serverQ, serverPool>>
    /\ rpc' \in (IF writeEnd' THEN {"tail"} ELSE {"drain", "tail"})
    /\ wrote' = FALSE
    /\ UNCHANGED <<inServer, deadRead, toRemove, inFrame>>

-----------------------------------------------------------------------------
(* A bug: only a client that has closed is waited out. *)
DrainedHalfClosed ==
    /\ readEnd /\ sessions' = {} /\ creating = {} /\ remoteQ = <<>> /\ flushQ = {}
    /\ serverQ = <<>> /\ shutdowns' = 0 /\ ~needsFlush

(* is_drained, once the sessions and shutdowns of this poll are settled. *)
Drained ==
    /\ sessions' = {} /\ creating = {} /\ remoteQ = <<>> /\ flushQ = {} /\ serverQ = <<>>
    /\ shutdowns' = 0 /\ ~needsFlush

(* The end of a poll: dead and expired sessions are removed, shutdowns that are
   complete or out of time dropped, idle buffers freed (what is known of a session
   that is gone is gone with it); then the router is
   finished, or waits with its timer running while it is drained. *)
TailWith(expired, closed, fires) ==
    /\ rpc = "tail" /\ rpc' = "parked"
    /\ LET gone == sessions \cap (toRemove \cup expired)
       IN  /\ sessions' = sessions \ gone
           /\ lookup' = [f \in Flows |-> IF lookup[f] \in gone THEN 0 ELSE lookup[f]]
           /\ closed <= shutdowns + Cardinality(gone)
           /\ shutdowns' = shutdowns + Cardinality(gone) - closed
    /\ toRemove' = {}
    /\ deadRead' = deadRead \cap sessions' /\ deadWrite' = deadWrite \cap sessions'
    /\ inRemote' = [i \in SessionIds |-> IF i \in sessions' THEN inRemote[i] ELSE 0]
    /\ inServer' = [i \in SessionIds |-> IF i \in sessions' THEN inServer[i] ELSE 0]
    /\ remotePool' = IF remoteQ = <<>> THEN Trimmed(remotePool) ELSE remotePool
    /\ serverPool' = IF serverQ = <<>> THEN Trimmed(serverPool) ELSE serverPool
    /\ done' = \/ readEnd /\ (writeEnd \/ Drained)
               \/ Drained /\ timer /\ fires
    /\ timer' = Drained
    /\ UNCHANGED <<creating, nextId, flowOf, remoteQ, flushQ, readEnd, serverQ,
                   needsFlush, wrote, writeEnd, quiet>>

TailStep ==
    \E expired \in SUBSET sessions, closed \in 0..MaxIds, fires \in BOOLEAN :
        TailWith(expired, closed, fires)

(* A poll that finds every timer that was running expired. *)
TimersDue ==
    /\ quiet
    /\ TailWith(sessions, shutdowns + Cardinality(sessions), timer)

(* The client and the remotes fall silent, without closing. *)
GoQuiet ==
    /\ rpc = "parked" /\ ~quiet /\ quiet' = TRUE
    /\ UNCHANGED <<rpc, outVars, inVars, shutdowns, timer, done, sessions, deadRead, deadWrite,
                   toRemove>>

RouterInit ==
    /\ rpc = "none" /\ creating = {} /\ lookup = [f \in Flows |-> 0] /\ nextId = 0
    /\ flowOf = [i \in SessionIds |-> CHOOSE f \in Flows : TRUE]
    /\ sessions = {} /\ deadRead = {} /\ deadWrite = {} /\ toRemove = {}
    /\ remoteQ = <<>> /\ flushQ = {} /\ serverQ = <<>> /\ shutdowns = 0
    /\ inRemote = [i \in SessionIds |-> 0] /\ inServer = [i \in SessionIds |-> 0]
    /\ remotePool = [idle |-> 0, created |-> 0] /\ serverPool = [idle |-> 0, created |-> 0]
    /\ needsFlush \in BOOLEAN  \* need_initial_flush
    /\ wrote = FALSE /\ readEnd = FALSE /\ writeEnd = FALSE
    /\ timer = FALSE /\ quiet = FALSE /\ done = FALSE

RouterNext ==
    \/ Start \/ Wake \/ DrainRemote \/ ReadEnds \/ OutDone \/ DrainServer \/ DrainServerEnds
    \/ ReadRemotesEnd \/ PingServer \/ FlushServer \/ TailStep \/ GoQuiet
    \/ \E f \in Flows : Created(f) \/ CreateFails(f) \/ ReadClient(f)
    \/ \E i \in SessionIds : FlushRemote(i) \/ PingRemote(i) \/ ReadRemote(i)

(* What is queued for a session that is gone. *)
DropGone ==
    \/ remoteQ # <<>> /\ Head(remoteQ) \notin sessions /\ DrainRemote
    \/ \E i \in SessionIds \ sessions : FlushRemote(i)

(* The ping timer polls the router again and again, and a poll comes to its end
   (the loops are left by poll_proceed at the latest).  A creation, a session, a
   shutdown and the timer of a drained router are bounded by timeouts; what is
   queued for a session that is gone is dropped by the next poll.  Of the
   client's stream it is assumed that from some point on it takes what is flushed
   at once: a ping (every 30 seconds) whose flush is pending restarts the timer
   of 120 seconds. *)
RouterFair ==
    /\ WF_routerVars(Wake \/ OutDone \/ ReadRemotesEnd \/ TailStep)
    /\ WF_routerVars(DrainServer \/ DrainServerEnds)
    /\ SF_routerVars(TimersDue)
    /\ SF_routerVars(FlushServer /\ rpc' = "tail")
    /\ <>[](writeEnd \/ ~needsFlush)
    /\ SF_routerVars(DropGone)
    /\ SF_routerVars(\E f \in Flows : Created(f) \/ CreateFails(f))

RouterSafetySpec == RouterInit /\ [][RouterNext]_routerVars
RouterSpec == RouterSafetySpec /\ RouterFair

-----------------------------------------------------------------------------
PoolType == [idle : 0..PoolMax, created : 0..PoolMax]

(* Every variable of the router keeps its type. *)
RouterTypeOK ==
    /\ rpc \in {"none", "parked", "out", "drain", "read", "flush", "tail"}
    /\ creating \subseteq Flows /\ lookup \in [Flows -> {0} \cup SessionIds]
    /\ nextId \in 0..MaxIds /\ flowOf \in [SessionIds -> Flows]
    /\ sessions \cup deadRead \cup deadWrite \cup flushQ \cup toRemove \subseteq SessionIds
    /\ remoteQ \in Seq(SessionIds) /\ serverQ \in Seq(SessionIds)
    /\ inRemote \in [SessionIds -> 0..PerSession] /\ inServer \in [SessionIds -> 0..PerSession]
    /\ shutdowns \in 0..MaxIds
    /\ remotePool \in PoolType /\ serverPool \in PoolType
    /\ {needsFlush, wrote, readEnd, writeEnd, timer, quiet, done} \subseteq BOOLEAN

Entries(q, i) == Cardinality({k \in DOMAIN q : q[k] = i})

(* Every buffer a pool has made is idle or in a queue, on each of the ways a
   datagram can leave its queue (written, failed, session gone, write side
   ended): a leaked buffer is backpressure that never ends. *)
BuffersAccounted ==
    /\ remotePool.created = remotePool.idle + Len(remoteQ)
    /\ serverPool.created = serverPool.idle + Len(serverQ)

(* The counters that throttle a session are the numbers of its queued datagrams,
   whatever became of the others; those of responses until the write side ends. *)
CountersAccounted ==
    \A i \in sessions :
        /\ inRemote[i] = Entries(remoteQ, i)
        /\ writeEnd \/ inServer[i] = Entries(serverQ, i)

(* A flow is known as being created, or by its one live session, or not at all:
   an eviction, an expiry or a failure never leaves a stale entry behind, which
   would silence the flow for good. *)
LookupAgrees ==
    /\ \A i \in sessions : lookup[flowOf[i]] = i
    /\ \A f \in Flows : lookup[f] # 0 => lookup[f] \in sessions /\ f \notin creating
    /\ Cardinality(sessions) <= SessionCap

(* A session that died and has no response queued is marked for removal. *)
DeadIsMarked ==
    \A i \in sessions \cap (deadRead \cup deadWrite) :
        inServer[i] = 0 => i \in toRemove \/ writeEnd

(* A router that finishes while its client can still be written to loses
   nothing: no creation with its first packet, no queued datagram. *)
FinishesEmpty ==
    done /\ ~writeEnd => creating = {} /\ remoteQ = <<>> /\ flushQ = {} /\ serverQ = <<>>

(* The shared buffers and the per-session counters of the router match its
   queues, the lookup table matches its sessions, a dead session is marked for
   removal, and a router that finishes has nothing left to send, whatever polls
   are pending between the phases of a round.  What concerns responses holds as
   long as the client can be written to. *)
RouterSafe ==
    RouterTypeOK /\ BuffersAccounted /\ CountersAccounted /\ LookupAgrees /\ DeadIsMarked /\ FinishesEmpty

(* A router whose client and remotes have fallen silent without closing ends, as
   the comment of DRAINED_IDLE_TIMEOUT_SECS says ("a silent association is
   reclaimed"): its slot of the device limit is held as long as it lives.
   Excepted is a router whose write side ended in the middle of a round: then a
   flush is remembered, or a response queued, that no later poll takes up.  Silence
   does not end, so this is ~> written with []<>. *)
SilentIsReclaimedUnlessStuck ==
    []<>(quiet => done \/ (writeEnd /\ (needsFlush \/ serverQ # <<>>)))
=============================================================================
