------------------------------- MODULE QuicUdp -------------------------------
(***************************************************************************)
(* The UDP sessions of one TUIC or Hysteria2 connection: packets of an     *)
(* association find or dial its session, wait for room in the session's    *)
(* channel, and the session's loop writes them upstream, where a write may *)
(* stall for ever.  The loop also sends what upstream answers, and while   *)
(* it does it neither takes a packet nor sees its cancelled token.         *)
(*                                                                         *)
(* TUIC forwards packets from its datagram loop and from one task per      *)
(* unidirectional stream, over a shared map, and has a cleanup task.       *)
(* Hysteria2 has one loop that forwards the packets, owns the map and does *)
(* the cleanup between two packets.                                        *)
(***************************************************************************)
EXTENDS Naturals, FiniteSets

CONSTANTS
    Assocs,       \* association (session) ids of the client
    Forwarders,   \* tasks that may forward packets at a time
    MaxDials,     \* bound: sessions dialed
    MaxSessions,  \* MAX_UDP_SESSIONS
    PacketCap     \* capacity of a session's packet channel

ASSUME QuicConstants ==
    /\ IsFiniteSet(Assocs) /\ IsFiniteSet(Forwarders) /\ Forwarders # {}
    /\ MaxDials \in Nat /\ MaxSessions \in Nat /\ PacketCap \in Nat

Sessions == 1..MaxDials
NoSession == 0
Loop == CHOOSE w \in Forwarders : TRUE  \* the datagram loop

VARIABLES
    quic,      \* "tuic" or "hysteria2"
    live,      \* the connection's loops run
    sessionMap,\* association -> its session, or NoSession
    dials,     \* sessions dialed so far
    assocOf,   \* session -> its association
    cancelled, \* sessions whose token is cancelled
    byStream,  \* sessions dialed for a packet of a unidirectional stream
    loopState, \* session -> "none", "running", "writing", "sending" or "ended"
    packets,   \* session -> packets in its channel
    fwd,       \* forwarder -> [pc, a, n]: place, association, session it has
    slots      \* free permits of udp_session_slots

quicVars == <<quic, live, sessionMap, dials, assocOf, byStream, cancelled, loopState, packets, fwd, slots>>

FwdIdle == [pc |-> "idle", a |-> CHOOSE a \in Assocs : TRUE, n |-> NoSession]
At(w, pc) == fwd[w].pc = pc
Goes(w, pc, n) == fwd' = [fwd EXCEPT ![w].pc = pc, ![w].n = n]
Rests(w) == fwd' = [fwd EXCEPT ![w] = FwdIdle]
Busy == {w \in Forwarders : ~At(w, "idle")}

(* The forwarders of a protocol: Hysteria2 has only its loop. *)
Works(w) == quic = "tuic" \/ w = Loop

(* Dropping a map entry or a session that was never inserted stops its task. *)
Dropped(n) == cancelled \cup ({n} \ {NoSession})

-----------------------------------------------------------------------------
(* A packet arrives: its session's channel, a permit for a new session, or it is
   dropped at the limit.  A permit of Hysteria2 is a free place in its map. *)
Lookup(w, a) ==
    /\ live /\ Works(w) /\ At(w, "idle")
    /\ \/ /\ sessionMap[a] # NoSession
          /\ fwd' = [fwd EXCEPT ![w] = [pc |-> "send", a |-> a, n |-> sessionMap[a]]]
          /\ UNCHANGED slots
       \/ /\ sessionMap[a] = NoSession /\ slots > 0
          /\ slots' = slots - 1
          /\ fwd' = [fwd EXCEPT ![w] = [pc |-> "dial", a |-> a, n |-> NoSession]]
    /\ UNCHANGED <<quic, live, sessionMap, dials, assocOf, byStream, cancelled, loopState, packets>>

(* The destination is blocked, cannot be resolved or cannot be reached. *)
DialFails(w) ==
    /\ At(w, "dial")
    /\ Rests(w)
    /\ slots' = slots + 1
    /\ UNCHANGED <<quic, live, sessionMap, dials, assocOf, byStream, cancelled, loopState, packets>>

(* A bug: the session that lost the race replaces the one in the map. *)
DialedReplaces(w) ==
    /\ At(w, "dial") /\ dials < MaxDials
    /\ LET n == dials + 1
           a == fwd[w].a
       IN  /\ dials' = n
           /\ assocOf' = [assocOf EXCEPT ![n] = a]
           /\ byStream' = IF w = Loop THEN byStream ELSE byStream \cup {n}
           /\ loopState' = [loopState EXCEPT ![n] = IF live THEN "running" ELSE "ended"]
           /\ sessionMap' = [sessionMap EXCEPT ![a] = n]
           /\ Goes(w, "send", n)
           /\ UNCHANGED <<slots, cancelled>>
    /\ UNCHANGED <<quic, live, packets>>

(* The session is started and, if no other packet of the association was
   faster, inserted; else it is dropped and the other one used.  It answers the
   way the packet that made it came: by streams or by datagrams. *)
Dialed(w) ==
    /\ At(w, "dial") /\ dials < MaxDials
    /\ LET n == dials + 1
           a == fwd[w].a
       IN  /\ dials' = n
           /\ assocOf' = [assocOf EXCEPT ![n] = a]
           /\ byStream' = IF w = Loop THEN byStream ELSE byStream \cup {n}
           /\ loopState' = [loopState EXCEPT ![n] = IF live THEN "running" ELSE "ended"]
           /\ IF sessionMap[a] = NoSession
              THEN /\ sessionMap' = [sessionMap EXCEPT ![a] = n]
                   /\ Goes(w, "send", n)
                   /\ UNCHANGED <<slots, cancelled>>
              ELSE /\ cancelled' = Dropped(n)
                   /\ slots' = slots + 1
                   /\ Goes(w, "send", sessionMap[a])
                   /\ UNCHANGED sessionMap
    /\ UNCHANGED <<quic, live, packets>>

(* The send waits for room in the channel. *)
SendPacket(w) ==
    /\ At(w, "send")
    /\ loopState[fwd[w].n] # "ended" /\ packets[fwd[w].n] < PacketCap
    /\ packets' = [packets EXCEPT ![fwd[w].n] = @ + 1]
    /\ Rests(w)
    /\ UNCHANGED <<quic, live, sessionMap, dials, assocOf, byStream, cancelled, loopState, slots>>

(* The receiver is gone: the send fails. *)
SendFails(w) ==
    /\ At(w, "send") /\ loopState[fwd[w].n] = "ended"
    /\ Goes(w, "failed", fwd[w].n)
    /\ UNCHANGED <<quic, live, sessionMap, dials, assocOf, byStream, cancelled, loopState, packets, slots>>

(* An entry leaves the map: its task is cancelled and its permit returned. *)
RemoveSession(a) ==
    /\ sessionMap' = [sessionMap EXCEPT ![a] = NoSession]
    /\ cancelled' = Dropped(sessionMap[a])
    /\ slots' = IF sessionMap[a] = NoSession THEN slots ELSE slots + 1

(* After a failed send the entry of the association is removed, whichever
   session it holds by then. *)
RemoveFailed(w) ==
    /\ At(w, "failed")
    /\ RemoveSession(fwd[w].a)
    /\ Rests(w)
    /\ UNCHANGED <<quic, live, dials, assocOf, byStream, loopState, packets>>

(* DISSOCIATE of TUIC. *)
Dissociate(a) ==
    /\ quic = "tuic" /\ live /\ sessionMap[a] # NoSession
    /\ RemoveSession(a)
    /\ UNCHANGED <<quic, live, dials, assocOf, byStream, loopState, packets, fwd>>

(* A bug: the cleanup of TUIC is left to the datagram loop. *)
ReapInLoop(a) ==
    /\ live /\ sessionMap[a] # NoSession
    /\ Loop \notin Busy
    /\ RemoveSession(a)
    /\ UNCHANGED <<quic, live, dials, assocOf, byStream, loopState, packets, fwd>>

(* The cleanup finds the association idle for IDLE_TIMEOUT.  The loop of
   Hysteria2 does it between two packets; TUIC has a task for it. *)
Reap(a) ==
    /\ live /\ sessionMap[a] # NoSession
    /\ quic = "tuic" \/ Loop \notin Busy
    /\ RemoveSession(a)
    /\ UNCHANGED <<quic, live, dials, assocOf, byStream, loopState, packets, fwd>>

-----------------------------------------------------------------------------
loopRest == <<quic, live, sessionMap, dials, assocOf, byStream, cancelled, fwd, slots>>

(* The session loop takes a packet and writes it upstream; select! may choose
   this arm, or the next one, when the token is cancelled as well. *)
TakePacket(n) ==
    /\ loopState[n] = "running" /\ packets[n] > 0
    /\ packets' = [packets EXCEPT ![n] = @ - 1]
    /\ loopState' = [loopState EXCEPT ![n] = "writing"]
    /\ UNCHANGED loopRest

(* The upstream accepts the packet. *)
PacketWritten(n) ==
    /\ loopState[n] = "writing"
    /\ loopState' = [loopState EXCEPT ![n] = "running"]
    /\ UNCHANGED <<packets, loopRest>>

(* Upstream has an answer: the loop waits for the download limits and then, in a
   session of streams, for a stream and for its flow control. *)
ReadDownload(n) ==
    /\ loopState[n] = "running"
    /\ loopState' = [loopState EXCEPT ![n] = "sending"]
    /\ UNCHANGED <<packets, loopRest>>

(* The answer is sent: the loop is back at its select!. *)
DownloadSent(n) ==
    /\ loopState[n] = "sending"
    /\ loopState' = [loopState EXCEPT ![n] = "running"]
    /\ UNCHANGED <<packets, loopRest>>

(* The loop sees its cancelled token, in the middle of a write upstream too, but
   not in the middle of a download. *)
LoopCancelled(n) ==
    /\ loopState[n] \in {"running", "writing"} /\ n \in cancelled
    /\ loopState' = [loopState EXCEPT ![n] = "ended"]
    /\ packets' = [packets EXCEPT ![n] = 0]
    /\ UNCHANGED loopRest

(* The upstream ends or fails: the entry stays in the map. *)
UpstreamEnds(n) ==
    /\ loopState[n] \in {"running", "writing"}
    /\ loopState' = [loopState EXCEPT ![n] = "ended"]
    /\ packets' = [packets EXCEPT ![n] = 0]
    /\ UNCHANGED loopRest

(* The answer cannot be sent: it is too large, or the connection is closed. *)
DownloadFails(n) ==
    /\ loopState[n] = "sending"
    /\ loopState' = [loopState EXCEPT ![n] = "ended"]
    /\ packets' = [packets EXCEPT ![n] = 0]
    /\ UNCHANGED loopRest

(* A loop of the connection ends and with it the others: the connection's token
   cancels every session, dialed later ones too. *)
ConnectionEnds ==
    /\ live
    /\ live' = FALSE
    /\ cancelled' = cancelled \cup 1..dials
    /\ fwd' = [w \in Forwarders |-> IF w = Loop THEN FwdIdle ELSE fwd[w]]
    /\ slots' = IF At(Loop, "dial") THEN slots + 1 ELSE slots
    /\ UNCHANGED <<quic, sessionMap, dials, assocOf, byStream, loopState, packets>>

QuicInit ==
    /\ quic \in {"tuic", "hysteria2"} /\ live = TRUE
    /\ sessionMap = [a \in Assocs |-> NoSession]
    /\ dials = 0 /\ byStream = {} /\ cancelled = {} /\ slots = MaxSessions
    /\ assocOf = [n \in Sessions |-> CHOOSE a \in Assocs : TRUE]
    /\ loopState = [n \in Sessions |-> "none"]
    /\ packets = [n \in Sessions |-> 0]
    /\ fwd = [w \in Forwarders |-> FwdIdle]

QuicNext ==
    \/ \E w \in Forwarders :
         \/ \E a \in Assocs : Lookup(w, a)
         \/ DialFails(w) \/ Dialed(w) \/ SendPacket(w) \/ SendFails(w) \/ RemoveFailed(w)
    \/ \E a \in Assocs : Dissociate(a) \/ Reap(a)
    \/ \E n \in Sessions : \/ TakePacket(n) \/ PacketWritten(n) \/ LoopCancelled(n)
                           \/ UpstreamEnds(n)
                           \/ ReadDownload(n) \/ DownloadSent(n) \/ DownloadFails(n)
    \/ ConnectionEnds

(* An association whose session cannot take a packet has no activity, so that
   the cleanup reaches it. *)
Stuck(a) ==
    /\ sessionMap[a] # NoSession
    /\ packets[sessionMap[a]] = PacketCap
    /\ loopState[sessionMap[a]] \in {"writing", "sending"}

(* The permits of a channel are handed out first come, first served, and select!
   takes any of its ready arms, so that answers do not keep it from packets and
   token for ever: strong fairness.  The download limits let every waiter through,
   and a datagram is sent or dropped at once; a stream waits for its client, until
   the connection is closed.  Nothing makes a write upstream complete. *)
QuicFair ==
    /\ \A w \in Forwarders : SF_quicVars(SendPacket(w) \/ SendFails(w) \/ RemoveFailed(w))
    /\ \A n \in Sessions :
         /\ SF_quicVars(TakePacket(n) \/ LoopCancelled(n))
         /\ WF_quicVars((n \notin byStream /\ DownloadSent(n)) \/ (~live /\ DownloadFails(n)))
    /\ \A a \in Assocs : WF_quicVars(Stuck(a) /\ Reap(a))

QuicSafetySpec == QuicInit /\ [][QuicNext]_quicVars

QuicSpec == QuicSafetySpec /\ QuicFair

-----------------------------------------------------------------------------
(* The variables of QuicUdp are well formed. *)
QuicTypeOK ==
    /\ slots \in 0..MaxSessions /\ dials \in 0..MaxDials
    /\ \A a \in Assocs : sessionMap[a] \in 0..dials
    /\ \A w \in Forwarders : fwd[w].pc \in {"idle", "dial", "send", "failed"}
    /\ \A n \in Sessions : /\ loopState[n] \in {"none", "running", "writing", "sending", "ended"}
                           /\ packets[n] \in 0..PacketCap

(* Every permit is free, held by a dial or by an entry of the map: the race of
   two packets, a failed dial and a failed send all give theirs back. *)
SlotsAccounted ==
    slots + Cardinality({w \in Forwarders : At(w, "dial")})
          + Cardinality({a \in Assocs : sessionMap[a] # NoSession}) = MaxSessions

(* A session loop that is not in the map is told to stop ("that path cannot leak
   a socket"), and the map holds a session under its own association. *)
NoOrphanLoop ==
    /\ \A n \in 1..dials : loopState[n] # "ended" =>
          n \in cancelled \/ sessionMap[assocOf[n]] = n
    /\ \A a \in Assocs : sessionMap[a] # NoSession => assocOf[sessionMap[a]] = a

(* Every slot of a QUIC connection's UDP sessions is free, held by one dial or by
   one entry of the map, and no session loop is left that is neither in the map
   nor cancelled, while dials, idle expiry, dissociation and failed sends
   interleave (tuic_server.rs, hysteria2_server.rs). *)
UdpSessionsSafe == QuicTypeOK /\ SlotsAccounted /\ NoOrphanLoop

(* What may keep a forwarder waiting: in TUIC a client that takes no stream of
   the answers of its own session; in Hysteria2 an upstream that takes no packet,
   since the cleanup that would cancel the session is a branch of the loop that
   waits. *)
HeldUp(w) ==
    /\ At(w, "send")
    /\ IF quic = "tuic"
       THEN fwd[w].n \in byStream /\ loopState[fwd[w].n] = "sending"
       ELSE loopState[fwd[w].n] = "writing"

(* "a stalled upstream write must not wedge the session loop (and with it the
   whole connection's datagram forwarding) forever": a packet that waits for room
   in a session's channel is sent or dropped in the end, while the session's loop
   may be writing upstream, sending an answer, cancelled or over, unless the wait
   comes to rest behind what HeldUp names.  In TUIC the stalled upstream write is
   not among it: the cleanup has a task of its own (run_unidirectional_loop) and
   the write watches the token. *)
UdpForwardingGoesOn ==
    \A w \in Forwarders : []<>~At(w, "send") \/ <>[]HeldUp(w)
=============================================================================
