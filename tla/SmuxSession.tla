---------------------------- MODULE SmuxSession ----------------------------
(***************************************************************************)
(* One smux session of the server: the reader with its map of logical      *)
(* streams, the stream tasks, the forwarder of closes, the only writer,    *)
(* and the teardown.  SmuxBudget has what a payload waits for before it is *)
(* queued; here a payload is counted, not measured.                        *)
(***************************************************************************)
EXTENDS Naturals, Sequences, FiniteSets

CONSTANTS
    StreamIds,   \* ids the peer opens
    StreamLimit, \* max_concurrent_streams
    OutCapacity, \* outbound_frame_queue
    MaxPayloads, \* bound: id -> PSH frames of the stream
    MaxWrites    \* bound: id -> data commands of the stream

ASSUME SessConstants ==
    /\ StreamLimit \in Nat /\ OutCapacity \in Nat
    /\ MaxPayloads \in [StreamIds -> Nat] /\ MaxWrites \in [StreamIds -> Nat]

VARIABLES
    phase,    \* where serve_smux is
    map,      \* ids in `streams'
    task,     \* id -> "none", "running" or "ended"
    inbound,  \* id -> payloads in the stream's queue
    terminal, \* id -> "none", "finished" or "failed"
    rd,       \* id -> the read side of the VirtualStream
    wfin,     \* ids with write_finished
    dirty,    \* ids with write_dirty
    barrier,  \* id -> "idle" or "waiting"
    closing,  \* ids in the channel of drop_close permits
    outq,     \* outbound queue
    writer,   \* "running", "failed" or "done"
    forwarder,\* "running", "failed" or "done"
    wire,     \* id -> what the peer received for the stream
    sent,     \* history: id -> payloads the reader queued
    late,     \* history: ids with a payload queued between the polls of a read
    behind,   \* history: ids that queued a frame behind their own waiting barrier
    cause     \* history: why the read loop ended

sessVars == <<phase, map, task, inbound, terminal, rd, wfin, dirty, barrier, closing,
              outq, writer, forwarder, wire, sent, late, behind, cause>>
ioVars == <<wfin, dirty, barrier, behind, closing, outq, writer, forwarder, wire>>
readVars == <<map, task, inbound, terminal, rd, sent, late, cause>>

Running == {i \in StreamIds : task[i] = "running"}

(* Reserved drop_close permits: one per live stream that has not sent its FIN,
   and one per close the forwarder has not taken. *)
Permits == Cardinality(Running \ wfin) + Cardinality(closing)

Cmd(kind, i) == [kind |-> kind, id |-> i]
Behind(i) == IF barrier[i] = "waiting" THEN behind \cup {i} ELSE behind
Room == writer = "running" /\ phase # "draining" /\ Len(outq) < OutCapacity

-----------------------------------------------------------------------------
(* The read loop breaks: every stream still in the map hears why. *)
EndReading(why) ==
    /\ phase' = "ended"
    /\ cause' = why
    /\ terminal' = [i \in StreamIds |-> IF i \in map' \cap Running
                                        THEN "failed" ELSE terminal[i]]

(* The retain on SYN: a slot whose VirtualStream is gone is free again. *)
Reclaimed == map \cap Running

(* SYN: reclaim, refuse a live id or one stream too many (both end the
   session), reserve the close permit, start the task. *)
Syn(i) ==
    /\ phase = "reading" /\ task[i] = "none"
    /\ IF Cardinality(Reclaimed) >= StreamLimit
       THEN /\ map' = Reclaimed
            /\ EndReading("limit")
            /\ UNCHANGED task
       ELSE IF forwarder # "running"
       THEN /\ map' = Reclaimed
            /\ EndReading("forwarder")
            /\ UNCHANGED task
       ELSE /\ Permits < StreamLimit
            /\ map' = Reclaimed \cup {i}
            /\ task' = [task EXCEPT ![i] = "running"]
            /\ UNCHANGED <<phase, terminal, cause>>
    /\ UNCHANGED <<inbound, rd, sent, late, ioVars>>

(* PSH: queued for a stream in the map whose receiver is open, else discarded. *)
Psh(i) ==
    /\ phase = "reading" /\ sent[i] < MaxPayloads[i]
    /\ i \in map /\ i \in Running
    /\ inbound' = [inbound EXCEPT ![i] = @ + 1]
    /\ sent' = [sent EXCEPT ![i] = @ + 1]
    /\ late' = IF rd[i] = "empty" THEN late \cup {i} ELSE late
    /\ UNCHANGED <<phase, map, task, terminal, rd, cause, ioVars>>

(* FIN: the stream leaves the map and is told that its input is complete. *)
Fin(i) ==
    /\ phase = "reading" /\ i \in map
    /\ map' = map \ {i}
    /\ terminal' = [terminal EXCEPT ![i] = IF i \in Running THEN "finished" ELSE @]
    /\ UNCHANGED <<phase, task, inbound, rd, sent, late, cause, ioVars>>

(* The physical stream ends, fails or times out. *)
ReadEnds ==
    /\ phase = "reading"
    /\ UNCHANGED map
    /\ EndReading("closed")
    /\ UNCHANGED <<task, inbound, rd, sent, late, ioVars>>

(* evict_stream, for a reason that SmuxBudget details: out of the map, told of
   the failure, its task aborted. *)
Evict(i) ==
    /\ phase = "reading" /\ i \in map
    /\ map' = map \ {i}
    /\ terminal' = [terminal EXCEPT ![i] = IF i \in Running THEN "failed" ELSE @]
    /\ UNCHANGED <<phase, task, inbound, rd, sent, late, cause, ioVars>>

-----------------------------------------------------------------------------
(* poll_read, first half: a payload if there is one; else the queue is empty. *)
PollRecv(i) ==
    /\ i \in Running /\ rd[i] = "ready"
    /\ IF inbound[i] > 0
       THEN inbound' = [inbound EXCEPT ![i] = @ - 1] /\ UNCHANGED rd
       ELSE rd' = [rd EXCEPT ![i] = "empty"] /\ UNCHANGED inbound
    /\ UNCHANGED <<phase, map, task, terminal, sent, late, cause, ioVars>>

(* poll_read, second half: the terminal event, if it has arrived by now. *)
PollTerminal(i) ==
    /\ i \in Running /\ rd[i] = "empty"
    /\ rd' = [rd EXCEPT ![i] = IF terminal[i] = "none" THEN "ready" ELSE terminal[i]]
    /\ UNCHANGED <<phase, map, task, inbound, terminal, sent, late, cause, ioVars>>

(* The data commands of a stream so far. *)
DataWritten(i) == Cardinality({k \in DOMAIN outq : outq[k] = Cmd("data", i)}) + Len(wire[i])

(* poll_write: a slot of the outbound queue for the payload. *)
Write(i) ==
    /\ i \in Running \ wfin /\ Room
    /\ DataWritten(i) < MaxWrites[i]
    /\ outq' = Append(outq, Cmd("data", i))
    /\ dirty' = dirty \cup {i}
    /\ behind' = Behind(i)
    /\ UNCHANGED <<phase, wfin, barrier, closing, writer, forwarder, wire, readVars>>

(* poll_flush: a barrier, unless nothing was queued since the last one. *)
Flush(i) ==
    /\ i \in Running \cap dirty /\ barrier[i] = "idle" /\ Room
    /\ outq' = Append(outq, Cmd("barrier", i))
    /\ barrier' = [barrier EXCEPT ![i] = "waiting"]
    /\ UNCHANGED <<phase, wfin, dirty, behind, closing, writer, forwarder, wire, readVars>>

(* poll_shutdown: FIN, and the drop permit is given back; a barrier follows. *)
Shutdown(i) ==
    /\ i \in Running \ wfin /\ Room
    /\ outq' = Append(outq, Cmd("fin", i))
    /\ wfin' = wfin \cup {i}
    /\ dirty' = dirty \cup {i}
    /\ behind' = Behind(i)
    /\ UNCHANGED <<phase, barrier, closing, writer, forwarder, wire, readVars>>

(* A bug: the drop has no permit and tries the outbound queue once. *)
EndTaskTriesOnce(i) ==
    /\ i \in Running
    /\ task' = [task EXCEPT ![i] = "ended"]
    /\ outq' = IF i \notin wfin /\ Room THEN Append(outq, Cmd("fin", i)) ELSE outq
    /\ inbound' = [inbound EXCEPT ![i] = 0]
    /\ UNCHANGED <<phase, map, terminal, rd, sent, late, cause,
                   wfin, dirty, barrier, behind, closing, writer, forwarder, wire>>

(* The task ends, by itself, aborted by an eviction or cancelled by the
   teardown: the drop of an unfinished stream sends its close through the
   permit that SYN reserved. *)
EndTask(i) ==
    /\ i \in Running
    /\ task' = [task EXCEPT ![i] = "ended"]
    /\ closing' = IF i \in wfin \/ forwarder # "running" THEN closing ELSE closing \cup {i}
    /\ inbound' = [inbound EXCEPT ![i] = 0]
    /\ rd' = [rd EXCEPT ![i] = "ready"]
    /\ barrier' = [barrier EXCEPT ![i] = "idle"]
    /\ wfin' = wfin \ {i} /\ dirty' = dirty \ {i}
    /\ late' = late \ {i} /\ behind' = behind \ {i}
    /\ terminal' = [terminal EXCEPT ![i] = "none"]
    /\ UNCHANGED <<phase, map, sent, cause, outq, writer, forwarder, wire>>

(* The close forwarder moves a close into the outbound queue, waiting for room;
   a closed queue ends it. *)
ForwardClose(i) ==
    /\ forwarder = "running" /\ i \in closing
    /\ \/ /\ Room
          /\ outq' = Append(outq, Cmd("fin", i))
          /\ closing' = closing \ {i}
          /\ UNCHANGED forwarder
       \/ /\ writer # "running"
          /\ forwarder' = "failed" /\ closing' = {}
          /\ UNCHANGED outq
    /\ UNCHANGED <<phase, wfin, dirty, barrier, behind, writer, wire, readVars>>

-----------------------------------------------------------------------------
(* A barrier of the batch is answered: everything queued before it is out. *)
Answered(cmds) == {cmds[k].id : k \in {k \in DOMAIN cmds : cmds[k].kind = "barrier"}}

(* The frames of a batch that belong to a stream, by kind. *)
Carried(cmds, i) ==
    LET carried[n \in 0..Len(cmds)] ==
            IF n = 0 THEN <<>>
            ELSE IF cmds[n].id = i /\ cmds[n].kind # "barrier"
                 THEN Append(carried[n - 1], cmds[n].kind)
                 ELSE carried[n - 1]
    IN  carried[Len(cmds)]

(* A bug: the answer does not wait for the frames before the barrier. *)
WriteBatchEarly ==
    /\ writer = "running" /\ outq # <<>>
    /\ \E k \in DOMAIN outq :
         /\ outq[k].kind = "barrier"
         /\ outq' = SelectSeq(outq, LAMBDA c : c # outq[k])
         /\ barrier' = [barrier EXCEPT ![outq[k].id] = "idle"]
         /\ dirty' = dirty \ {outq[k].id}
    /\ UNCHANGED <<phase, wfin, behind, closing, writer, forwarder, wire, readVars>>

(* The writer sends a batch: frames from the head of the queue, of which only
   the last may be a barrier. *)
WriteBatch ==
    /\ writer = "running" /\ outq # <<>>
    /\ \E k \in DOMAIN outq :
         LET batch == SubSeq(outq, 1, k)
         IN  /\ \A m \in 1..(k - 1) : outq[m].kind # "barrier"
             /\ outq' = SubSeq(outq, k + 1, Len(outq))
             /\ wire' = [i \in StreamIds |-> wire[i] \o Carried(batch, i)]
             /\ barrier' = [i \in StreamIds |-> IF i \in Answered(batch) THEN "idle" ELSE barrier[i]]
             /\ dirty' = dirty \ Answered(batch)
    /\ UNCHANGED <<phase, wfin, behind, closing, writer, forwarder, readVars>>

(* The write fails or stalls for SESSION_STALL_TIMEOUT: the barriers that are
   queued hear of it and the queue is closed. *)
WriterFails ==
    /\ writer = "running"
    /\ writer' = "failed"
    /\ outq' = <<>>
    /\ barrier' = [i \in StreamIds |-> IF i \in Answered(outq) THEN "idle" ELSE barrier[i]]
    /\ UNCHANGED <<phase, wfin, dirty, behind, closing, forwarder, wire, readVars>>

(* All tasks have ended, by themselves within STREAM_SHUTDOWN_GRACE or by the
   shutdown of the JoinSet. *)
Joined ==
    /\ phase = "ended" /\ Running = {}
    /\ phase' = "joined"
    /\ UNCHANGED <<ioVars, readVars>>

(* With the permits back the forwarder ends, or is aborted after its grace;
   then the writer is told to drain its queue. *)
StartDrain ==
    /\ phase = "joined"
    /\ \/ closing = {} /\ forwarder' = IF forwarder = "running" THEN "done" ELSE forwarder
       \/ closing # {} /\ forwarder' = "failed"
    /\ closing' = {}
    /\ phase' = "draining"
    /\ UNCHANGED <<wfin, dirty, barrier, behind, outq, writer, wire, readVars>>

(* The writer is done when its closed queue is empty, or given up after 5 s. *)
Drained ==
    /\ phase = "draining"
    /\ phase' = "over"
    /\ writer' = IF writer = "running" /\ outq = <<>> THEN "done" ELSE "failed"
    /\ outq' = <<>>
    /\ UNCHANGED <<wfin, dirty, barrier, behind, closing, forwarder, wire, readVars>>

SessInit ==
    /\ phase = "reading" /\ map = {}
    /\ task = [i \in StreamIds |-> "none"]
    /\ inbound = [i \in StreamIds |-> 0] /\ sent = [i \in StreamIds |-> 0]
    /\ terminal = [i \in StreamIds |-> "none"]
    /\ rd = [i \in StreamIds |-> "ready"]
    /\ barrier = [i \in StreamIds |-> "idle"]
    /\ wire = [i \in StreamIds |-> <<>>]
    /\ wfin = {} /\ dirty = {} /\ closing = {} /\ late = {} /\ behind = {}
    /\ outq = <<>> /\ writer = "running" /\ forwarder = "running" /\ cause = "none"

TaskStep(i) == PollRecv(i) \/ PollTerminal(i) \/ Write(i) \/ Flush(i) \/ Shutdown(i)

SessNext ==
    \/ \E i \in StreamIds :
         \/ Syn(i) \/ Psh(i) \/ Fin(i) \/ Evict(i)
         \/ TaskStep(i) \/ EndTask(i) \/ ForwardClose(i)
    \/ ReadEnds \/ WriteBatch \/ WriterFails \/ Joined \/ StartDrain \/ Drained

(* Ended tasks are joined, the forwarder and the writer are polled, the timeouts
   of the teardown expire; a task is cancelled only by the teardown. *)
SessFair ==
    /\ \A i \in StreamIds : WF_sessVars(phase = "ended" /\ EndTask(i))
    /\ \A i \in StreamIds : WF_sessVars(ForwardClose(i))
    /\ WF_sessVars(WriteBatch)
    /\ WF_sessVars((Joined \/ StartDrain \/ Drained))

SessSpec == SessInit /\ [][SessNext]_sessVars /\ SessFair

-----------------------------------------------------------------------------
(* The variables of SmuxSession are well formed. *)
SessTypeOK ==
    /\ phase \in {"reading", "ended", "joined", "draining", "over"}
    /\ map \cup wfin \cup dirty \cup closing \cup late \subseteq StreamIds
    /\ \A i \in StreamIds : /\ task[i] \in {"none", "running", "ended"}
                            /\ inbound[i] \in 0..MaxPayloads[i] /\ sent[i] \in 0..MaxPayloads[i]
                            /\ rd[i] \in {"ready", "empty", "finished", "failed"}
    /\ Len(outq) <= OutCapacity

(* The peer sees at most one FIN of a stream and nothing of it afterwards:
   poll_shutdown and Drop never both close, and no data overtakes the close. *)
NothingAfterFin ==
    \A i \in StreamIds : \A k \in DOMAIN wire[i] :
        wire[i][k] = "fin" => k = Len(wire[i])

(* A stream that is not write_dirty has nothing left in the queue, unless the
   writer failed (the answer then is an error): a completed flush, and a skipped
   one, mean that the frames are out.  Excepted is a stream that queued a frame
   behind its own waiting barrier, whose answer clears the flag all the same. *)
FlushMeansWritten ==
    \A i \in Running \ (dirty \cup behind) : writer = "running" =>
        \A k \in DOMAIN outq : outq[k].id = i => outq[k].kind = "barrier"

(* The concurrency limit ends a session only when that many logical streams are
   really alive; a peer that never answers a FIN does not use up the slots. *)
LimitByLive == [][cause # "limit" /\ cause' = "limit" => Cardinality(Running) >= StreamLimit]_sessVars

(* A read reports the end of its stream only after every payload queued before
   it (terminal_failed_preserves_queued_data_before_reset).  Excepted are streams
   whose payload and end both arrived between the two polls of one read, that of
   the data channel and that of the terminal: there the payload is lost. *)
DataBeforeEndUnlessLate ==
    \A i \in Running \ late : rd[i] \in {"finished", "failed"} => inbound[i] = 0

(* A stream that ends is closed at the peer while the session lives: its FIN goes
   out although the outbound queue was full when it was dropped. *)
CloseReachesPeer ==
    \A i \in StreamIds :
        task[i] = "ended" ~> \/ "fin" \in {wire[i][k] : k \in DOMAIN wire[i]}
                             \/ writer # "running" \/ phase \in {"draining", "over"}

(* Once reading has ended the session is torn down, whatever the state of its
   streams, its forwarder and its writer. *)
TeardownEnds == phase = "ended" ~> phase = "over"

(* A virtual stream sends nothing behind its FIN, a completed flush means that
   the session's writer has written its frames (except those queued behind the
   barrier of that flush), and a reader gets all received data before the end of
   the stream, unless both arrive between the two polls of one poll_read. *)
StreamPromise ==
    SessTypeOK /\ NothingAfterFin /\ FlushMeansWritten /\ DataBeforeEndUnlessLate

(* The stream limit counts tasks that live and not ids, the close of a stream
   reaches the peer once its handler has ended, and a session whose reading has
   ended is torn down even while its forwarder or its writer is busy. *)
SessionPromise == LimitByLive /\ CloseReachesPeer /\ TeardownEnds
=============================================================================
