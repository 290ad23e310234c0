------------------------------- MODULE AnyTls -------------------------------
(***************************************************************************)
(* One AnyTLS session of the server: the receive loop with its map of      *)
(* stream senders, the stream handlers and the map of their JoinHandles,   *)
(* the task that drains the outgoing channel, and close().  Both maps are  *)
(* keyed by the id the peer chose; every opening of a stream has a number  *)
(* here, so that a stream can be told from a later one with the same id.   *)
(***************************************************************************)
EXTENDS Naturals, Sequences, FiniteSets

CONSTANTS
    AnyIds,     \* stream ids the peer uses
    MaxOpens,   \* bound: SYN frames
    Numberings, \* which id the peer gives to each stream it opens, in order
    AnyLimit,   \* MAX_CONCURRENT_STREAMS
    InCapacity, \* STREAM_CHANNEL_BUFFER
    AnyOutCap,  \* capacity of the outgoing channel
    MaxData     \* bound: PSH frames and writes of the handlers

Opens == 1..MaxOpens
NoOpen == 0

ASSUME AnyConstants ==
    /\ MaxOpens \in Nat /\ AnyLimit \in Nat /\ InCapacity \in Nat /\ AnyOutCap \in Nat
    /\ MaxData \in Nat /\ Numberings \subseteq [Opens -> AnyIds]

VARIABLES
    settings,  \* received_client_settings
    opened,    \* number of streams opened
    owner,     \* opening -> id, as the peer numbers them
    streams,   \* id -> opening whose sender is in the map, or NoOpen
    tasks,     \* id -> opening whose handle is in stream_tasks, or NoOpen
    handler,   \* opening -> state of its task
    aborted,   \* openings whose task close() aborted
    chan,      \* opening -> its data channel
    readEof,   \* openings that have seen the end of their input
    shut,      \* openings with stream_closed
    outgoing,  \* channel of <<opening, "data" or "fin">>
    outTask,   \* process_outgoing: "idle", "forgetting" or "stopped"
    finOut,    \* the opening whose FIN it wrote last
    recv,      \* receive loop: "frames", "sending", "ended" or "over"
    sending,   \* what a blocked receive loop sends
    anyClosed, \* is_closed
    peerFin,   \* history: openings the peer has finished
    anyWire,   \* history: what the peer was sent
    pushed,    \* history: PSH frames handled
    afterClose       \* history: openings after close() took the handles

anyVars == <<settings, opened, owner, streams, tasks, handler, aborted, chan, readEof, shut,
             outgoing, outTask, finOut, recv, sending, anyClosed, peerFin, anyWire, pushed, afterClose>>

Alive == {o \in Opens : handler[o] = "running"}
Entries == {i \in AnyIds : streams[i] # NoOpen}
InWire(o, kind) == \E k \in DOMAIN anyWire : anyWire[k] = <<o, kind>>

(* A peer that reuses an id does so when both sides have finished it. *)
FreeSlot(i) == \A o \in 1..opened : owner[o] = i => o \in peerFin /\ InWire(o, "fin")

rest == <<settings, opened, owner, handler, aborted, readEof, shut, outgoing, outTask, finOut,
          anyClosed, anyWire, afterClose>>

-----------------------------------------------------------------------------
(* SETTINGS: version 1 of the answer or none, the state is the flag. *)
AnySettings ==
    /\ recv = "frames" /\ ~settings
    /\ settings' = TRUE
    /\ UNCHANGED <<opened, owner, streams, tasks, handler, aborted, chan, readEof, shut,
                   outgoing, outTask, finOut, recv, sending, anyClosed, peerFin, anyWire, pushed, afterClose>>

Written == Cardinality({k \in DOMAIN outgoing : outgoing[k][2] = "data"})
             + Cardinality({k \in DOMAIN anyWire : anyWire[k][2] = "data"})

(* A bug: the task is started first and its handle stored when it has run. *)
AnySynHandleLate(i) ==
    /\ recv = "frames" /\ settings /\ opened < MaxOpens /\ i = owner[opened + 1] /\ FreeSlot(i)
    /\ Cardinality(Entries) < AnyLimit /\ streams[i] = NoOpen
    /\ LET o == opened + 1
       IN  /\ opened' = o
           /\ streams' = [streams EXCEPT ![i] = o]
           /\ tasks' = [tasks EXCEPT ![i] = o]
           /\ \E s \in {"running", "cleaned"} : handler' = [handler EXCEPT ![o] = s]
           /\ afterClose' = IF anyClosed THEN afterClose \cup {o} ELSE afterClose
    /\ UNCHANGED <<settings, owner, aborted, chan, readEof, shut, outgoing, outTask, finOut, recv, sending,
                   anyClosed, peerFin, anyWire, pushed>>

(* SYN: an alert and the end of the session without settings; refused at the
   limit, ignored for an id in the map; else the sender is stored, the task
   started and its handle stored before the task can reach its cleanup. *)
AnySyn(i) ==
    /\ recv = "frames" /\ opened < MaxOpens /\ i = owner[opened + 1] /\ FreeSlot(i)
    /\ IF ~settings
       THEN /\ recv' = "ended"
            /\ UNCHANGED <<opened, streams, tasks, handler, afterClose>>
       ELSE /\ Cardinality(Entries) < AnyLimit /\ streams[i] = NoOpen
            /\ LET o == opened + 1
               IN  /\ opened' = o
                   /\ streams' = [streams EXCEPT ![i] = o]
                   /\ tasks' = [tasks EXCEPT ![i] = o]
                   /\ handler' = [handler EXCEPT ![o] = "running"]
                   /\ afterClose' = IF anyClosed THEN afterClose \cup {o} ELSE afterClose
            /\ UNCHANGED recv
    /\ UNCHANGED <<settings, owner, aborted, chan, readEof, shut, outgoing, outTask, finOut, sending,
                   anyClosed, peerFin, anyWire, pushed>>

(* PSH: the sender is cloned, and the receive loop waits on its channel. *)
AnyPsh(i) ==
    /\ recv = "frames" /\ pushed + Written < MaxData /\ streams[i] # NoOpen
    /\ recv' = "sending" /\ sending' = <<streams[i], "data">>
    /\ pushed' = pushed + 1
    /\ UNCHANGED <<streams, tasks, chan, peerFin, rest>>

(* FIN: the entry leaves the map, then the end of input is sent. *)
AnyFin(i) ==
    /\ recv = "frames" /\ streams[i] # NoOpen
    /\ streams' = [streams EXCEPT ![i] = NoOpen]
    /\ recv' = "sending" /\ sending' = <<streams[i], "eof">>
    /\ peerFin' = peerFin \cup {streams[i]}
    /\ UNCHANGED <<tasks, chan, pushed, rest>>

(* FIN for an id that has no entry: its stream is finished already. *)
AnyFinUnknown(i) ==
    /\ recv = "frames" /\ streams[i] = NoOpen
    /\ \E o \in 1..opened : owner[o] = i /\ o \notin peerFin /\ peerFin' = peerFin \cup {o}
    /\ UNCHANGED <<streams, tasks, chan, recv, sending, pushed, rest>>

(* A bug: the send does not notice that the receiver is gone. *)
AnyDeliverWaits ==
    /\ recv = "sending"
    /\ Len(chan[sending[1]]) < InCapacity /\ sending[1] \in Alive
    /\ chan' = [chan EXCEPT ![sending[1]] = Append(@, sending[2])]
    /\ recv' = "frames" /\ sending' = <<>>
    /\ UNCHANGED <<streams, tasks, peerFin, pushed, rest>>

(* The send completes when there is room, or fails once the receiver is gone. *)
AnyDeliver ==
    LET o == sending[1] IN
    /\ recv = "sending"
    /\ \/ o \in Alive /\ Len(chan[o]) < InCapacity
          /\ chan' = [chan EXCEPT ![o] = Append(@, sending[2])]
       \/ o \notin Alive /\ UNCHANGED chan
    /\ recv' = "frames" /\ sending' = <<>>
    /\ UNCHANGED <<streams, tasks, peerFin, pushed, rest>>

(* The connection ends, an alert arrives, or the loop sees is_closed. *)
AnyRecvEnds ==
    /\ recv = "frames"
    /\ recv' = "ended"
    /\ UNCHANGED <<streams, tasks, chan, sending, peerFin, pushed, rest>>

-----------------------------------------------------------------------------
(* poll_read: the next item; an empty one is the end of the input. *)
AnyRead(o) ==
    /\ o \in Alive \ (shut \cup readEof) /\ chan[o] # <<>>
    /\ chan' = [chan EXCEPT ![o] = Tail(@)]
    /\ readEof' = IF Head(chan[o]) = "eof" THEN readEof \cup {o} ELSE readEof
    /\ UNCHANGED <<settings, opened, owner, streams, tasks, handler, aborted, shut, outgoing,
                   outTask, finOut, recv, sending, anyClosed, peerFin, anyWire, pushed, afterClose>>

outRest == <<settings, opened, owner, streams, tasks, aborted, readEof, outTask, finOut,
             recv, sending, anyClosed, peerFin, anyWire, pushed, afterClose>>

(* poll_write: waits for room in the outgoing channel. *)
AnyWrite(o) ==
    /\ o \in Alive \ shut /\ ~anyClosed
    /\ pushed + Written < MaxData /\ Len(outgoing) < AnyOutCap
    /\ outgoing' = Append(outgoing, <<o, "data">>)
    /\ UNCHANGED <<shut, handler, chan, outRest>>

(* poll_shutdown: the FIN waits for room behind the data; none once closed. *)
AnyShutdown(o) ==
    /\ o \in Alive \ shut
    /\ anyClosed \/ Len(outgoing) < AnyOutCap
    /\ outgoing' = IF anyClosed THEN outgoing ELSE Append(outgoing, <<o, "fin">>)
    /\ shut' = shut \cup {o}
    /\ UNCHANGED <<handler, chan, outRest>>

(* The stream is dropped: a FIN if there is room, when none was sent. *)
Drop(o, state) ==
    /\ outgoing' = IF o \in shut \/ Len(outgoing) >= AnyOutCap \/ recv = "over"
                   THEN outgoing ELSE Append(outgoing, <<o, "fin">>)
    /\ shut' = shut \cup {o}
    /\ chan' = [chan EXCEPT ![o] = <<>>]
    /\ handler' = [handler EXCEPT ![o] = state]

(* The handler returns, fails or times out. *)
AnyFinish(o) ==
    /\ o \in Alive /\ o \notin aborted
    /\ Drop(o, "finished")
    /\ UNCHANGED outRest

(* An aborted task is dropped where it stands, before any cleanup that is left. *)
AnyAborts(o) ==
    /\ o \in aborted /\ handler[o] # "ended"
    /\ IF o \in Alive THEN Drop(o, "ended")
       ELSE handler' = [handler EXCEPT ![o] = "ended"] /\ UNCHANGED <<outgoing, shut, chan>>
    /\ UNCHANGED outRest

cleanRest == <<settings, opened, owner, aborted, chan, readEof, shut, outgoing, outTask, finOut,
               recv, sending, anyClosed, peerFin, anyWire, pushed, afterClose>>

(* Cleanup of a finished task, first half: its id leaves stream_tasks. *)
AnyCleanTask(o) ==
    /\ handler[o] = "finished" /\ o \notin aborted
    /\ handler' = [handler EXCEPT ![o] = "cleaned"]
    /\ tasks' = [tasks EXCEPT ![owner[o]] = NoOpen]
    /\ UNCHANGED <<streams, cleanRest>>

(* Second half: the entry of the id is removed if it is this stream's. *)
AnyCleanStream(o) ==
    /\ handler[o] = "cleaned" /\ o \notin aborted
    /\ handler' = [handler EXCEPT ![o] = "ended"]
    /\ streams' = [streams EXCEPT ![owner[o]] = IF @ = o THEN NoOpen ELSE @]
    /\ UNCHANGED <<tasks, cleanRest>>

-----------------------------------------------------------------------------
wireRest == <<settings, opened, owner, tasks, handler, aborted, chan, readEof, shut,
              recv, sending, anyClosed, peerFin, pushed, afterClose>>

(* process_outgoing takes the head of the channel.  A FIN is followed by the
   removal of its entry, written or not; a data frame that cannot be written,
   or is_closed, ends the task. *)
AnySend ==
    /\ outTask = "idle" /\ outgoing # <<>>
    /\ outgoing' = Tail(outgoing)
    /\ LET m == Head(outgoing)  out == Append(anyWire, m)
       IN  \/ ~anyClosed /\ m[2] = "fin"
              /\ outTask' = "forgetting" /\ finOut' = m[1] /\ anyWire' \in {anyWire, out}
           \/ ~anyClosed /\ m[2] = "data"
              /\ anyWire' = out /\ UNCHANGED <<outTask, finOut>>
           \/ (anyClosed \/ m[2] = "data")
              /\ outTask' = "stopped" /\ UNCHANGED <<anyWire, finOut>>
    /\ UNCHANGED <<streams, wireRest>>

(* After the FIN, the entry of its id leaves the map. *)
AnyForget ==
    /\ outTask = "forgetting"
    /\ streams' = [streams EXCEPT ![owner[finOut]] = NoOpen]
    /\ outTask' = "idle" /\ finOut' = NoOpen
    /\ UNCHANGED <<outgoing, anyWire, wireRest>>

(* close(), for the first caller: the handles are taken and their tasks
   aborted, the senders dropped. *)
CloseNow ==
    /\ anyClosed' = TRUE
    /\ aborted' = aborted \cup ({tasks[i] : i \in AnyIds} \ {NoOpen})
    /\ tasks' = [i \in AnyIds |-> NoOpen]
    /\ streams' = [i \in AnyIds |-> NoOpen]

(* A control frame that a handler writes (a SYNACK) times out: it closes the
   session while the receive loop is elsewhere. *)
AnyHandlerCloses(o) ==
    /\ o \in Alive /\ ~anyClosed
    /\ CloseNow
    /\ UNCHANGED <<settings, opened, owner, handler, chan, readEof, shut, outgoing, outTask, finOut,
                   recv, sending, peerFin, anyWire, pushed, afterClose>>

(* run() after its receive loop: close, unless it was closed before, and stop
   the outgoing task; nobody takes what its channel holds. *)
AnyRunEnds ==
    /\ recv = "ended"
    /\ IF anyClosed THEN UNCHANGED <<anyClosed, aborted, tasks, streams>> ELSE CloseNow
    /\ recv' = "over" /\ outTask' = "stopped" /\ finOut' = NoOpen
    /\ outgoing' = <<>> /\ anyWire' = <<>>
    /\ UNCHANGED <<settings, opened, owner, handler, chan, readEof, shut, sending, peerFin,
                   pushed, afterClose>>

AnyInit ==
    /\ settings = FALSE /\ opened = 0 /\ pushed = 0
    /\ owner \in Numberings
    /\ streams = [i \in AnyIds |-> NoOpen] /\ tasks = [i \in AnyIds |-> NoOpen]
    /\ handler = [o \in Opens |-> "none"]
    /\ chan = [o \in Opens |-> <<>>]
    /\ aborted = {} /\ readEof = {} /\ shut = {} /\ peerFin = {} /\ afterClose = {}
    /\ outgoing = <<>> /\ anyWire = <<>> /\ outTask = "idle" /\ finOut = NoOpen
    /\ recv = "frames" /\ sending = <<>> /\ anyClosed = FALSE

AnyNext ==
    \/ AnySettings \/ AnyDeliver \/ AnyRecvEnds \/ AnySend \/ AnyForget \/ AnyRunEnds
    \/ \E i \in AnyIds : AnySyn(i) \/ AnyPsh(i) \/ AnyFin(i) \/ AnyFinUnknown(i)
    \/ \E o \in Opens :
         \/ AnyRead(o) \/ AnyWrite(o) \/ AnyShutdown(o) \/ AnyFinish(o) \/ AnyAborts(o)
         \/ AnyCleanTask(o) \/ AnyCleanStream(o) \/ AnyHandlerCloses(o)

(* Every handler ends, by itself or by STREAM_HANDLER_TIMEOUT, and what it left
   behind is cleaned up; the other tasks are polled. *)
AnyFair ==
    /\ \A o \in Opens : /\ WF_anyVars(AnyFinish(o)) /\ WF_anyVars(AnyAborts(o))
                        /\ WF_anyVars(AnyCleanTask(o)) /\ WF_anyVars(AnyCleanStream(o))
    /\ WF_anyVars(AnyDeliver)

AnySafetySpec == AnyInit /\ [][AnyNext]_anyVars
AnySpec == AnySafetySpec /\ AnyFair

-----------------------------------------------------------------------------
(* The variables of AnyTls are well formed and the channels within capacity. *)
AnyTypeOK ==
    /\ opened \in 0..MaxOpens
    /\ \A i \in AnyIds : streams[i] \in 0..opened /\ tasks[i] \in 0..opened
    /\ \A o \in Opens : handler[o] \in {"none", "running", "finished", "cleaned", "ended"}
    /\ \A o \in Opens : Len(chan[o]) <= InCapacity
    /\ Len(outgoing) <= AnyOutCap

(* Nothing follows the end of a stream's input, or its FIN to the peer. *)
EndIsLast ==
    /\ \A o \in Opens : \A k \in DOMAIN chan[o] : chan[o][k] = "eof" => k = Len(chan[o])
    /\ \A o \in readEof : chan[o] = <<>>
    /\ \A j, k \in DOMAIN anyWire :
         anyWire[j][2] = "fin" /\ anyWire[k][1] = anyWire[j][1] => k <= j

(* An ended stream leaves neither its sender nor its handle behind in a session
   that is open ("do not leave its sender in `streams' forever"). *)
NothingLeftBehind ==
    ~anyClosed => \A o \in Opens : handler[o] = "ended" =>
                     \A i \in AnyIds : streams[i] # o /\ tasks[i] # o

(* A stream is reachable until one side has finished it, when its id was not
   used before and the session is open: only its own FIN, its peer's or its own
   cleanup takes the sender out of the map.  A stream with a reused id is
   excepted: the FIN that process_outgoing sends for its predecessor removes the
   entry by id, whoever is behind it. *)
Reused(o) == \E p \in 1..(o - 1) : owner[p] = owner[o]
ReachableUntilFin ==
    ~anyClosed => \A o \in 1..opened :
        o \in Alive \ (peerFin \cup shut) /\ ~Reused(o) => streams[owner[o]] = o

(* After run() no handler is left to itself: close() aborted it, unless its id
   was reused or it was opened after close() took the handles. *)
CloseAborts ==
    recv = "over" => \A o \in Alive :
        o \in aborted \/ o \in afterClose \/ \E p \in Opens \ {o} : p <= opened /\ owner[p] = owner[o]

(* Whatever order handlers end, FINs arrive and close() runs in: no data follows
   an end or a FIN, an open session keeps neither sender nor handle of an ended
   stream, a stream whose id was not used before can be reached until its FIN,
   and close() aborts every handler whose id was not reused and that was opened
   before it took the handles. *)
AnySafe == AnyTypeOK /\ EndIsLast /\ NothingLeftBehind /\ ReachableUntilFin /\ CloseAborts

(* A receive loop that is blocked on one stream's full channel goes on, since
   that stream's handler reads or ends. *)
RecvGoesOn == recv = "sending" ~> recv # "sending"
=============================================================================
