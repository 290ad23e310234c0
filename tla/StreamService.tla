--------------------------- MODULE StreamService ---------------------------
(***************************************************************************)
(* The life of a served stream (tcp/tcp_server.rs): admission to the       *)
(* process, the inbound handshake, admission of the device, sniffing, the  *)
(* dial, what must reach either end before the relay, the relay, and the   *)
(* release of everything the stream held.  The relay itself is Relay and   *)
(* UdpRouter, the device slot is DeviceLimit's, the report TrafficTracker's. *)
(***************************************************************************)
EXTENDS Naturals, Sequences, FiniteSets, SequencesExt

CONSTANTS
    Streams,    \* accepted sockets and logical streams of multiplexed ones
    MaxStreams, \* SHOES_MAX_CONCURRENT_STREAMS
    MaxSniff,   \* PROTOCOL_SNIFF_MAX_BYTES
    MaxSent     \* bound: bytes of one client

ASSUME ServiceConstants == IsFiniteSet(Streams) /\ MaxStreams \in Nat

VARIABLES
    liveStreams, \* LIVE_STREAMS
    st           \* stream -> what it holds, has read, counted and written

serviceVars == <<liveStreams, st>>

Results == [kind : {"tcp", "udp"}, auth : BOOLEAN, pre : {0, 1}, response : BOOLEAN]
           \cup [kind : {"routed"}, auth : BOOLEAN, pre : {0}, response : {FALSE}]
           \cup [kind : {"task"}, auth : {FALSE}, pre : {0}, response : {FALSE}]

(* Datagrams have neither initial data nor a response. *)
SetupResults == {r \in Results : r.kind = "udp" => r.pre = 0 /\ ~r.response}

NoResult == [kind |-> "none", auth |-> FALSE, pre |-> 0, response |-> FALSE]

(* result: the handshake's outcome; live, slot, meter: the guards held; initial:
   initial_remote_data; read: bytes read from the client's stream; counted, reported:
   the upload counter and what was moved out of it; up, down: what went to the
   target and to the client; early: the upstream's early data. *)
NewStream ==
    [pc |-> "new", logical |-> FALSE, result |-> NoResult, live |-> FALSE, slot |-> FALSE,
     meter |-> FALSE, initial |-> <<>>, read |-> 0, counted |-> 0, reported |-> 0,
     up |-> <<>>, down |-> <<>>, early |-> FALSE]

Finished == [NewStream EXCEPT !.pc = "done"]
InPc(s, pcs) == st[s].pc \in pcs
Onward(s, pc) == st' = [st EXCEPT ![s].pc = pc] /\ UNCHANGED liveStreams

-----------------------------------------------------------------------------
AtStreamLimit == liveStreams >= MaxStreams

(* A socket is accepted: LiveStreamGuard, then the handshake. *)
Accept(s) ==
    /\ InPc(s, {"new"})
    /\ IF AtStreamLimit THEN st' = [st EXCEPT ![s] = Finished] /\ UNCHANGED liveStreams
       ELSE /\ liveStreams' = liveStreams + 1
            /\ st' = [st EXCEPT ![s].pc = "setup", ![s].live = TRUE]

(* The result of a handshake: with it come the bytes read beyond the header. *)
WithResult(x, r) ==
    [x EXCEPT !.pc = IF r.kind = "task" THEN "relay" ELSE "admit",
              !.result = r, !.initial = [i \in 1..r.pre |-> i]]

(* A logical stream enters with the result of its own handshake. *)
AcceptLogical(s, r) ==
    /\ InPc(s, {"new"})
    /\ IF AtStreamLimit THEN st' = [st EXCEPT ![s] = Finished] /\ UNCHANGED liveStreams
       ELSE /\ liveStreams' = liveStreams + 1
            /\ st' = [st EXCEPT ![s] =
                  WithResult([NewStream EXCEPT !.live = TRUE, !.logical = TRUE], r)]

SetupDone(s, r) ==
    /\ InPc(s, {"setup"})
    /\ st' = [st EXCEPT ![s] = WithResult(@, r)] /\ UNCHANGED liveStreams

SetupFails(s) == InPc(s, {"setup"}) /\ Onward(s, "dropping")

(* Sixty seconds for the handshake. *)
SetupTimeout(s) == InPc(s, {"setup"}) /\ Onward(s, "dropping")

-----------------------------------------------------------------------------
(* check_device_limit, and then the counters of the connection; a user that is not
   authenticated has neither. *)
Admit(s, sniff) ==
    /\ InPc(s, {"admit"})
    /\ st[s].result.kind = "routed" => ~sniff
    /\ st' = [st EXCEPT ![s].pc = IF st[s].result.kind = "routed" THEN "relay"
                                  ELSE IF sniff THEN "sniff" ELSE "dial",
                        ![s].slot = st[s].result.auth,
                        ![s].meter = st[s].result.auth]
    /\ UNCHANGED liveStreams

(* Too many devices: a TCP client's stream is shut down first, without a limit of
   time. *)
AdmitFails(s) ==
    /\ InPc(s, {"admit"}) /\ st[s].result.auth
    /\ Onward(s, IF st[s].result.kind = "tcp" THEN "closing" ELSE "dropping")

(* The next byte of the client, through MeteredStream. *)
Metered(x) == [x EXCEPT !.read = @ + 1, !.counted = IF x.result.auth THEN @ + 1 ELSE @]
NextByte(x) == x.result.pre + x.read + 1

(* A read while sniffing; of datagrams only the first is looked at. *)
SniffRead(s, known) ==
    LET x == st[s] IN
    /\ InPc(s, {"sniff"}) /\ Len(x.initial) < MaxSniff /\ NextByte(x) <= MaxSent
    /\ st' = [st EXCEPT ![s] =
          [Metered(x) EXCEPT !.initial = Append(@, NextByte(x)),
                             !.pc = IF known \/ x.result.kind = "udp" THEN "dial" ELSE "sniff"]]
    /\ UNCHANGED liveStreams

(* Recognised without a read, full, at the end of the stream, or half a second
   has gone. *)
SniffEnd(s) == InPc(s, {"sniff"}) /\ Onward(s, "dial")

SniffFails(s) == InPc(s, {"sniff"}) /\ Onward(s, "dropping")

DialDone(s, early) ==
    /\ InPc(s, {"dial"}) /\ (early => st[s].result.kind = "tcp")
    /\ st' = [st EXCEPT ![s].pc = IF st[s].result.kind = "tcp" THEN "respond" ELSE "initial",
                        ![s].early = early]
    /\ UNCHANGED liveStreams

(* Blocked, or an error of the dial. *)
DialFails(s) ==
    /\ InPc(s, {"dial"})
    /\ Onward(s, IF st[s].result.kind = "tcp" THEN "closing" ELSE "dropping")

(* Sixty seconds for the dial; for datagrams the judgement before it has the
   timeouts of the resolver instead. *)
DialTimeout(s) == DialFails(s)

Tell(s, what, cond, pc) ==
    /\ st' = [st EXCEPT ![s].down = IF cond THEN Append(@, what) ELSE @, ![s].pc = pc]
    /\ UNCHANGED liveStreams

(* The protocol's response, then the target's first bytes. *)
Respond(s) == InPc(s, {"respond"}) /\ Tell(s, "response", st[s].result.response, "early")
WriteEarly(s) == InPc(s, {"early"}) /\ Tell(s, "early", st[s].early, "initial")

(* A bug: sniffed bytes, which the metered stream has counted, are counted again. *)
CountInitialAll(s) ==
    LET x == st[s] IN
    /\ InPc(s, {"initial"})
    /\ st' = [st EXCEPT ![s].counted = IF x.result.auth THEN @ + Len(x.initial) ELSE @,
                        ![s].pc = IF x.initial = <<>> THEN "relay" ELSE "upload"]
    /\ UNCHANGED liveStreams

(* What came with the handshake is counted here, after the delay the speed limit
   asks for and before it is sent. *)
CountInitial(s) ==
    LET x == st[s] IN
    /\ InPc(s, {"initial"})
    /\ st' = [st EXCEPT ![s].counted = IF x.result.auth THEN @ + x.result.pre ELSE @,
                        ![s].pc = IF x.initial = <<>> THEN "relay" ELSE "upload"]
    /\ UNCHANGED liveStreams

WriteInitial(s) ==
    /\ InPc(s, {"upload"})
    /\ st' = [st EXCEPT ![s].up = @ \o st[s].initial, ![s].initial = <<>>, ![s].pc = "relay"]
    /\ UNCHANGED liveStreams

(* A write before the relay fails. *)
EarlyWriteFails(s) == InPc(s, {"respond", "early", "upload"}) /\ Onward(s, "dropping")

-----------------------------------------------------------------------------
(* The relay: a byte is read, counted and sent on; the target answers. *)
RelayUp(s) ==
    LET x == st[s] IN
    /\ InPc(s, {"relay"}) /\ x.result.kind # "task" /\ NextByte(x) <= MaxSent
    /\ st' = [st EXCEPT ![s] = [Metered(x) EXCEPT !.up = Append(@, NextByte(x))]]
    /\ UNCHANGED liveStreams

RelayDown(s) ==
    /\ InPc(s, {"relay"}) /\ st[s].result.kind # "task" /\ ~Contains(st[s].down, "data")
    /\ st' = [st EXCEPT ![s].down = Append(@, "data")] /\ UNCHANGED liveStreams

(* The end of the relay; a pair of streams is shut down, a router's is not. *)
RelayEnds(s) ==
    /\ InPc(s, {"relay"})
    /\ Onward(s, IF st[s].result.kind \in {"tcp", "udp"} THEN "shutdown" ELSE "dropping")

ShutdownDone(s) == InPc(s, {"shutdown"}) /\ Onward(s, "dropping")

(* A bug: the last shutdown is awaited as the others are. *)
ShutdownTimeoutNever(s) == FALSE /\ Onward(s, "dropping")

(* TCP_STREAM_SHUTDOWN_TIMEOUT. *)
ShutdownTimeout(s) == InPc(s, {"shutdown"}) /\ Onward(s, "dropping")

(* The shutdown of a stream whose setup failed. *)
CloseDone(s) == InPc(s, {"closing"}) /\ Onward(s, "dropping")

(* A multiplexed session ends and drops the future of its stream. *)
AbortLogical(s) ==
    /\ st[s].logical /\ ~InPc(s, {"dropping", "done"})
    /\ Onward(s, "dropping")

-----------------------------------------------------------------------------
(* The sweeper moves what a live connection has counted. *)
SweepStream(s) ==
    /\ st[s].meter /\ st[s].counted > 0
    /\ st' = [st EXCEPT ![s].reported = @ + st[s].counted, ![s].counted = 0]
    /\ UNCHANGED liveStreams

(* The guards are dropped in this order: the traffic report, the device slot, the
   place in the process. *)
DropMeter(s) ==
    /\ InPc(s, {"dropping"}) /\ st[s].meter
    /\ st' = [st EXCEPT ![s].meter = FALSE, ![s].reported = @ + st[s].counted,
                        ![s].counted = 0]
    /\ UNCHANGED liveStreams

DropSlot(s) ==
    /\ InPc(s, {"dropping"}) /\ ~st[s].meter /\ st[s].slot
    /\ st' = [st EXCEPT ![s].slot = FALSE] /\ UNCHANGED liveStreams

DropLive(s) ==
    /\ InPc(s, {"dropping"}) /\ ~st[s].meter /\ ~st[s].slot
    /\ liveStreams' = liveStreams - 1
    /\ st' = [st EXCEPT ![s] = Finished]

ServiceInit == liveStreams = 0 /\ st = [s \in Streams |-> NewStream]

ServiceNext ==
    \E s \in Streams :
        \/ Accept(s) \/ SetupFails(s) \/ SetupTimeout(s) \/ AdmitFails(s)
        \/ \E r \in SetupResults : AcceptLogical(s, r) \/ SetupDone(s, r)
        \/ \E b \in BOOLEAN : Admit(s, b) \/ SniffRead(s, b) \/ DialDone(s, b)
        \/ SniffEnd(s) \/ SniffFails(s) \/ DialFails(s) \/ DialTimeout(s)
        \/ Respond(s) \/ WriteEarly(s) \/ CountInitial(s) \/ WriteInitial(s)
        \/ EarlyWriteFails(s) \/ RelayUp(s) \/ RelayDown(s) \/ RelayEnds(s)
        \/ ShutdownDone(s) \/ ShutdownTimeout(s) \/ CloseDone(s) \/ AbortLogical(s)
        \/ SweepStream(s) \/ DropMeter(s) \/ DropSlot(s) \/ DropLive(s)

ServiceSpec == ServiceInit /\ [][ServiceNext]_serviceVars

(* Timers fire and code that awaits nobody goes on.  No peer has to answer, to
   send or to take what is written to it. *)
ServiceFair ==
    \A s \in Streams :
        /\ WF_serviceVars(SetupTimeout(s)) /\ WF_serviceVars(SniffEnd(s))
        /\ WF_serviceVars(DialTimeout(s)) /\ WF_serviceVars(ShutdownTimeout(s))
        /\ WF_serviceVars(\E b \in BOOLEAN : Admit(s, b))
        /\ WF_serviceVars(CountInitial(s))
        /\ WF_serviceVars(DropMeter(s) \/ DropSlot(s) \/ DropLive(s))

-----------------------------------------------------------------------------
(* What a client may see: the protocol's response before the target's bytes. *)
ClientSees(x) ==
    (IF x.result.response THEN <<"response">> ELSE <<>>)
    \o (IF x.early THEN <<"early">> ELSE <<>>) \o <<"data">>

(* The process serves no more streams than it may, and knows how many.  Upstream,
   a client's bytes arrive in order, those of the handshake and the sniffed ones
   first.  Nothing reaches the target of an authenticated user that is not counted,
   no byte is counted twice, and a byte that is relayed belongs to a device that
   was admitted.  The client gets the response, then what the target said early,
   then the rest. *)
StreamsServed ==
    /\ liveStreams = Cardinality({s \in Streams : st[s].live}) /\ liveStreams <= MaxStreams
    /\ \A s \in Streams :
         LET x == st[s]
             billed == x.counted + x.reported
         IN /\ x.up = [i \in 1..Len(x.up) |-> i]
            /\ IsPrefix(x.down, ClientSees(x))
            /\ billed <= x.result.pre + x.read
            /\ x.result.auth => Len(x.up) <= billed
            /\ x.result.auth /\ x.pc = "relay" => Len(x.up) = billed /\ x.slot /\ x.meter
            /\ x.slot => x.live
            /\ ~x.meter => x.counted = 0

(* Whatever the peers do, no stream stays where only a timer helps: in the end
   each is relayed, is over, or awaits a write to a peer before the relay, where
   the code has no timer.  A relay that has ended gives its place back. *)
StreamsEnd ==
    <>[](\A s \in Streams :
            InPc(s, {"new", "relay", "done", "closing", "respond", "early", "upload"}))
=============================================================================
