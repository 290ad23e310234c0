--------------------------- MODULE ForwardProofs ---------------------------
(***************************************************************************)
(* TLAPS proofs about what forwards bytes and datagrams, each for every    *)
(* value of the constants: UdpSessionsSafe of QuicUdp, KcptunSafe of       *)
(* Kcptun, RelaySafe of Relay, XhttpSafe of Xhttp and ReassemblySafe of    *)
(* Reassembly, in this order.                                              *)
(***************************************************************************)
EXTENDS Relay, QuicUdp, Xhttp, Kcptun, Reassembly, FoldTheorems

FwdRecord == [pc : {"idle", "dial", "send", "failed"}, a : Assocs \cup {FwdIdle.a}, n : Nat]

QuicTypes ==
    /\ quic \in {"tuic", "hysteria2"} /\ live \in BOOLEAN
    /\ slots \in Nat /\ dials \in 0..MaxDials
    /\ sessionMap \in [Assocs -> 0..dials]
    /\ assocOf \in [Sessions -> Assocs \cup {FwdIdle.a}]
    /\ loopState \in [Sessions -> {"none", "running", "writing", "sending", "ended"}]
    /\ packets \in [Sessions -> 0..PacketCap]
    /\ fwd \in [Forwarders -> FwdRecord]

(* A forwarder at work has an association, and a dialed session behind it. *)
ForwardersKnow ==
    \A w \in Forwarders :
        /\ ~At(w, "idle") => fwd[w].a \in Assocs
        /\ At(w, "send") \/ At(w, "failed") => fwd[w].n \in 1..dials

Dialing == {w \in Forwarders : At(w, "dial")}
Mapped == {a \in Assocs : sessionMap[a] # NoSession}

QuicIInv == QuicTypes /\ ForwardersKnow /\ SlotsAccounted /\ NoOrphanLoop

(* The holders of permits are finitely many. *)
LEMMA HoldersFinite ==
  /\ IsFiniteSet(Dialing) /\ Cardinality(Dialing) \in Nat
  /\ IsFiniteSet(Mapped) /\ Cardinality(Mapped) \in Nat
<1>1. Dialing \in SUBSET Forwarders /\ Mapped \in SUBSET Assocs
  BY DEF Dialing, Mapped
<1> QED
  BY <1>1, QuicConstants, FS_Subset, FS_CardinalityType

LEMMA QuicInitial == QuicInit => QuicIInv
<1> SUFFICES ASSUME QuicInit PROVE QuicIInv
  OBVIOUS
<1>1. FwdIdle \in FwdRecord /\ FwdIdle.pc = "idle"
  BY DEF FwdIdle, FwdRecord, NoSession
<1>2. FwdIdle.a = CHOOSE a \in Assocs : TRUE
  BY DEF FwdIdle
<1>3. QuicTypes
  <2>1. assocOf \in [Sessions -> Assocs \cup {FwdIdle.a}]
    BY <1>2 DEF QuicInit
  <2>2. /\ sessionMap \in [Assocs -> 0..dials] /\ packets \in [Sessions -> 0..PacketCap]
        /\ slots \in Nat /\ dials \in 0..MaxDials
    BY QuicConstants DEF QuicInit, NoSession
  <2> QED
    BY <1>1, <2>1, <2>2 DEF QuicInit, QuicTypes
<1>4. ForwardersKnow
  BY <1>1 DEF QuicInit, ForwardersKnow, At
<1>5. Dialing = {} /\ Mapped = {}
  BY <1>1 DEF QuicInit, Dialing, Mapped, At
<1>6. SlotsAccounted
  <2>1. Cardinality(Dialing) = 0 /\ Cardinality(Mapped) = 0
    BY <1>5, FS_EmptySet
  <2> QED
    BY <2>1, QuicConstants DEF QuicInit, SlotsAccounted, Dialing, Mapped
<1>7. NoOrphanLoop
  BY DEF QuicInit, NoOrphanLoop
<1> QED
  BY <1>3, <1>4, <1>6, <1>7 DEF QuicIInv

(* A forwarder that moves without a permit changing hands. *)
LEMMA ForwarderMoves ==
  ASSUME QuicIInv, NEW w \in Forwarders, NEW f \in FwdRecord, fwd' = [fwd EXCEPT ![w] = f],
         f.pc # "dial", ~At(w, "dial"),
         f.pc # "idle" => f.a \in Assocs /\ f.n \in 1..dials,
         UNCHANGED <<sessionMap, slots, dials>>
  PROVE  /\ fwd' \in [Forwarders -> FwdRecord] /\ ForwardersKnow' /\ SlotsAccounted'
         /\ Dialing' = Dialing
<1>1. fwd' \in [Forwarders -> FwdRecord] /\ \A v \in Forwarders : fwd'[v] = IF v = w THEN f ELSE fwd[v]
  BY DEF QuicIInv, QuicTypes
<1>2. ForwardersKnow'
  BY <1>1 DEF QuicIInv, ForwardersKnow, At, FwdRecord
<1>3. Dialing' = Dialing /\ Mapped' = Mapped
  BY <1>1 DEF Dialing, Mapped, At
<1> QED
  BY <1>1, <1>2, <1>3 DEF QuicIInv, SlotsAccounted, Dialing, Mapped

LEMMA LookupKeeps ==
  ASSUME QuicIInv, NEW w \in Forwarders, NEW a \in Assocs, Lookup(w, a)
  PROVE  QuicIInv'
<1>1. UNCHANGED <<quic, live, sessionMap, dials, assocOf, byStream, cancelled, loopState, packets>>
      /\ At(w, "idle")
  BY DEF Lookup
<1>2. NoOrphanLoop'
  BY <1>1 DEF QuicIInv, NoOrphanLoop
<1>3. CASE sessionMap[a] # NoSession /\ UNCHANGED slots
           /\ fwd' = [fwd EXCEPT ![w] = [pc |-> "send", a |-> a, n |-> sessionMap[a]]]
  <2> DEFINE f == [pc |-> "send", a |-> a, n |-> sessionMap[a]]
  <2>1. f \in FwdRecord /\ f.pc = "send" /\ f.a = a /\ f.n \in 1..dials
    BY <1>3 DEF QuicIInv, QuicTypes, FwdRecord, NoSession
  <2>2. fwd' = [fwd EXCEPT ![w] = f] /\ ~At(w, "dial")
    BY <1>1, <1>3 DEF At
  <2> HIDE DEF f
  <2>3. fwd' \in [Forwarders -> FwdRecord] /\ ForwardersKnow' /\ SlotsAccounted'
    BY <1>1, <1>3, <2>1, <2>2, ForwarderMoves
  <2> QED
    BY <1>1, <1>2, <1>3, <2>3 DEF QuicIInv, QuicTypes
<1>4. CASE /\ sessionMap[a] = NoSession /\ slots > 0 /\ slots' = slots - 1
           /\ fwd' = [fwd EXCEPT ![w] = [pc |-> "dial", a |-> a, n |-> NoSession]]
  <2> DEFINE f == [pc |-> "dial", a |-> a, n |-> NoSession]
  <2>1. f \in FwdRecord /\ f.pc = "dial" /\ f.a = a
    BY DEF FwdRecord, NoSession
  <2>2. fwd' \in [Forwarders -> FwdRecord]
        /\ \A v \in Forwarders : fwd'[v] = IF v = w THEN f ELSE fwd[v]
    BY <1>4, <2>1 DEF QuicIInv, QuicTypes
  <2> HIDE DEF f
  <2>3. ForwardersKnow'
    BY <1>1, <2>1, <2>2 DEF QuicIInv, ForwardersKnow, At
  <2>4. Dialing' = Dialing \cup {w} /\ w \notin Dialing /\ Mapped' = Mapped
    BY <1>1, <2>1, <2>2 DEF Dialing, Mapped, At
  <2>5. Cardinality(Dialing') = Cardinality(Dialing) + 1 /\ Cardinality(Mapped') = Cardinality(Mapped)
    BY <2>4, HoldersFinite, FS_AddElement
  <2>6. slots \in Nat /\ slots' \in Nat /\ slots' = slots - 1
    BY <1>4 DEF QuicIInv, QuicTypes
  <2>7. SlotsAccounted'
    BY <2>5, <2>6, HoldersFinite, QuicConstants DEF QuicIInv, SlotsAccounted, Dialing, Mapped
  <2> QED
    BY <1>1, <1>2, <2>2, <2>3, <2>6, <2>7 DEF QuicIInv, QuicTypes
<1> QED
  BY <1>3, <1>4 DEF Lookup

(* A forwarder at rest is at "idle". *)
LEMMA RestsShape ==
  ASSUME QuicIInv, NEW w \in Forwarders, Rests(w)
  PROVE  \E f \in FwdRecord : /\ f.pc = "idle" /\ fwd' = [fwd EXCEPT ![w] = f]
                              /\ fwd' \in [Forwarders -> FwdRecord]
                              /\ \A v \in Forwarders : fwd'[v] = IF v = w THEN f ELSE fwd[v]
<1>1. FwdIdle \in FwdRecord /\ FwdIdle.pc = "idle"
  BY DEF FwdIdle, FwdRecord, NoSession
<1> QED
  BY <1>1 DEF QuicIInv, QuicTypes, Rests

(* Goes gives a forwarder another place and session and keeps its association. *)
LEMMA GoesShape ==
  ASSUME QuicIInv, NEW w \in Forwarders, NEW pc \in {"idle", "dial", "send", "failed"},
         NEW n \in Nat, Goes(w, pc, n)
  PROVE  \E f \in FwdRecord : /\ f.pc = pc /\ f.n = n /\ f.a = fwd[w].a
                              /\ fwd' = [fwd EXCEPT ![w] = f]
                              /\ fwd' \in [Forwarders -> FwdRecord]
                              /\ \A v \in Forwarders : fwd'[v] = IF v = w THEN f ELSE fwd[v]
<1> DEFINE f == [fwd[w] EXCEPT !.pc = pc, !.n = n]
<1>1. fwd[w] \in FwdRecord
  BY DEF QuicIInv, QuicTypes
<1>2. f \in FwdRecord /\ f.pc = pc /\ f.n = n /\ f.a = fwd[w].a
  BY <1>1 DEF FwdRecord
<1>3. fwd' = [fwd EXCEPT ![w] = f]
  BY DEF Goes
<1> HIDE DEF f
<1>4. fwd' \in [Forwarders -> FwdRecord] /\ \A v \in Forwarders : fwd'[v] = IF v = w THEN f ELSE fwd[v]
  BY <1>2, <1>3 DEF QuicIInv, QuicTypes
<1> QED
  BY <1>2, <1>3, <1>4

LEMMA DialFailsKeeps ==
  ASSUME QuicIInv, NEW w \in Forwarders, DialFails(w)
  PROVE  QuicIInv'
<1>1. UNCHANGED <<quic, live, sessionMap, dials, assocOf, byStream, cancelled, loopState, packets>>
      /\ At(w, "dial") /\ slots' = slots + 1
  BY DEF DialFails
<1>2. PICK f \in FwdRecord : /\ f.pc = "idle" /\ fwd' \in [Forwarders -> FwdRecord]
                             /\ \A v \in Forwarders : fwd'[v] = IF v = w THEN f ELSE fwd[v]
  BY RestsShape DEF DialFails
<1>3. ForwardersKnow' /\ NoOrphanLoop'
  BY <1>1, <1>2 DEF QuicIInv, ForwardersKnow, NoOrphanLoop, At
<1>4. Dialing' = Dialing \ {w} /\ w \in Dialing /\ Mapped' = Mapped
  BY <1>1, <1>2 DEF Dialing, Mapped, At
<1>5. Cardinality(Dialing') = Cardinality(Dialing) - 1 /\ Cardinality(Mapped') = Cardinality(Mapped)
  BY <1>4, HoldersFinite, FS_RemoveElement
<1>6. slots \in Nat /\ slots' \in Nat
  BY <1>1 DEF QuicIInv, QuicTypes
<1>7. SlotsAccounted'
  BY <1>1, <1>5, <1>6, HoldersFinite, QuicConstants DEF QuicIInv, SlotsAccounted, Dialing, Mapped
<1> QED
  BY <1>1, <1>2, <1>3, <1>6, <1>7 DEF QuicIInv, QuicTypes

LEMMA DialedKeeps ==
  ASSUME QuicIInv, NEW w \in Forwarders, Dialed(w)
  PROVE  QuicIInv'
<1> DEFINE n == dials + 1
           a == fwd[w].a
<1>1. /\ At(w, "dial") /\ dials < MaxDials /\ dials' = n
      /\ assocOf' = [assocOf EXCEPT ![n] = a]
      /\ loopState' = [loopState EXCEPT ![n] = IF live THEN "running" ELSE "ended"]
      /\ UNCHANGED <<quic, live, packets>>
  BY DEF Dialed
<1>2. /\ dials \in Nat /\ n \in Sessions /\ n \in Nat /\ n > 0 /\ dials' \in 0..MaxDials
      /\ 1..n = 1..dials \cup {n} /\ n \notin 1..dials /\ 1..dials \subseteq 1..n
      /\ 0..dials \subseteq 0..n
  BY <1>1, QuicConstants DEF QuicIInv, QuicTypes, Sessions
<1>3. a \in Assocs
  BY <1>1 DEF QuicIInv, ForwardersKnow, At
<1>4. \A m \in 1..dials : m \in Sessions /\ m # n
  BY <1>2, QuicConstants DEF QuicIInv, QuicTypes, Sessions
<1>5. /\ assocOf'[n] = a /\ \A m \in 1..dials : assocOf'[m] = assocOf[m]
      /\ live => loopState'[n] = "running"
      /\ ~live => loopState'[n] = "ended"
      /\ \A m \in 1..dials : loopState'[m] = loopState[m]
  BY <1>1, <1>2, <1>4 DEF QuicIInv, QuicTypes
<1>6. /\ assocOf' \in [Sessions -> Assocs \cup {FwdIdle.a}]
      /\ loopState' \in [Sessions -> {"none", "running", "writing", "sending", "ended"}]
  BY <1>1, <1>3 DEF QuicIInv, QuicTypes
<1>7. /\ sessionMap \in [Assocs -> 0..dials] /\ slots \in Nat
      /\ \A b \in Assocs : sessionMap[b] # NoSession => sessionMap[b] \in 1..dials
  BY DEF QuicIInv, QuicTypes, NoSession
<1> HIDE DEF n, a
<1>8. CASE sessionMap[a] = NoSession
  <2>1. sessionMap' = [sessionMap EXCEPT ![a] = n] /\ Goes(w, "send", n)
        /\ UNCHANGED <<slots, cancelled>>
    BY <1>8 DEF Dialed, n, a
  <2>2. PICK f \in FwdRecord :
           /\ f.pc = "send" /\ f.n = n /\ f.a = fwd[w].a /\ fwd' \in [Forwarders -> FwdRecord]
           /\ \A v \in Forwarders : fwd'[v] = IF v = w THEN f ELSE fwd[v]
    BY <1>2, <2>1, GoesShape
  <2>3. sessionMap' \in [Assocs -> 0..n]
        /\ \A b \in Assocs : sessionMap'[b] = IF b = a THEN n ELSE sessionMap[b]
    <3>1. n \in 0..n /\ sessionMap \in [Assocs -> 0..n]
      BY <1>2, <1>7
    <3> QED
      BY <1>3, <2>1, <3>1
  <2>4. ForwardersKnow'
    BY <1>1, <1>2, <1>3, <2>2 DEF QuicIInv, ForwardersKnow, At, a
  <2>5. NoOrphanLoop'
    <3>1. \A m \in 1..dials : loopState'[m] # "ended" =>
             m \in cancelled' \/ sessionMap'[assocOf'[m]] = m
      <4> SUFFICES ASSUME NEW m \in 1..dials, loopState'[m] # "ended", m \notin cancelled'
                   PROVE  sessionMap'[assocOf'[m]] = m
        OBVIOUS
      <4>1. sessionMap[assocOf[m]] = m /\ assocOf[m] = assocOf'[m]
        BY <1>5, <2>1 DEF QuicIInv, NoOrphanLoop
      <4>2. m # NoSession
        BY DEF NoSession
      <4>3. assocOf[m] # a
        BY <1>8, <4>1, <4>2
      <4> QED
        BY <1>7, <2>1, <4>1, <4>3
    <3>2. sessionMap'[assocOf'[n]] = n
      BY <1>3, <1>5, <2>3
    <3>3. \A b \in Assocs : sessionMap'[b] # NoSession => assocOf'[sessionMap'[b]] = b
      BY <1>5, <1>7, <2>3 DEF QuicIInv, NoOrphanLoop
    <3> QED
      BY <1>1, <1>2, <3>1, <3>2, <3>3 DEF NoOrphanLoop
  <2>6. Dialing' = Dialing \ {w} /\ w \in Dialing
    BY <1>1, <2>2 DEF Dialing, At
  <2>7. Mapped' = Mapped \cup {a} /\ a \notin Mapped
    BY <1>2, <1>3, <1>8, <2>3 DEF Mapped, NoSession
  <2>8. /\ Cardinality(Dialing') = Cardinality(Dialing) - 1
        /\ Cardinality(Mapped') = Cardinality(Mapped) + 1
    BY <2>6, <2>7, HoldersFinite, FS_RemoveElement, FS_AddElement
  <2>9. SlotsAccounted'
    BY <1>7, <2>1, <2>8, HoldersFinite, QuicConstants DEF QuicIInv, SlotsAccounted, Dialing, Mapped
  <2> QED
    BY <1>1, <1>2, <1>6, <2>1, <2>2, <2>3, <2>4, <2>5, <2>9 DEF QuicIInv, QuicTypes
<1>9. CASE sessionMap[a] # NoSession
  <2>1. /\ cancelled' = Dropped(n) /\ slots' = slots + 1 /\ Goes(w, "send", sessionMap[a])
        /\ UNCHANGED sessionMap
    BY <1>9 DEF Dialed, n, a
  <2>2. sessionMap[a] \in 1..dials /\ sessionMap[a] \in Nat
    BY <1>2, <1>3, <1>7, <1>9
  <2>3. PICK f \in FwdRecord :
           /\ f.pc = "send" /\ f.n = sessionMap[a] /\ f.a = fwd[w].a
           /\ fwd' \in [Forwarders -> FwdRecord]
           /\ \A v \in Forwarders : fwd'[v] = IF v = w THEN f ELSE fwd[v]
    BY <2>1, <2>2, GoesShape
  <2>4. ForwardersKnow'
    BY <1>1, <1>2, <1>3, <2>2, <2>3 DEF QuicIInv, ForwardersKnow, At, a
  <2>5. NoOrphanLoop'
    <3>1. n \in cancelled' /\ cancelled \subseteq cancelled'
      BY <1>2, <2>1 DEF Dropped, NoSession
    <3>2. \A m \in 1..dials : loopState'[m] # "ended" =>
             m \in cancelled' \/ sessionMap'[assocOf'[m]] = m
      BY <1>5, <2>1, <3>1 DEF QuicIInv, NoOrphanLoop
    <3>3. \A b \in Assocs : sessionMap'[b] # NoSession => assocOf'[sessionMap'[b]] = b
      BY <1>5, <1>7, <2>1 DEF QuicIInv, NoOrphanLoop
    <3> QED
      BY <1>1, <1>2, <3>1, <3>2, <3>3 DEF NoOrphanLoop
  <2>6. Dialing' = Dialing \ {w} /\ w \in Dialing /\ Mapped' = Mapped
    BY <1>1, <2>1, <2>3 DEF Dialing, Mapped, At
  <2>7. Cardinality(Dialing') = Cardinality(Dialing) - 1
    BY <2>6, HoldersFinite, FS_RemoveElement
  <2>8. SlotsAccounted'
    BY <1>7, <2>1, <2>6, <2>7, HoldersFinite, QuicConstants
    DEF QuicIInv, SlotsAccounted, Dialing, Mapped
  <2>9. sessionMap' \in [Assocs -> 0..n] /\ slots' \in Nat
    BY <1>2, <1>7, <2>1
  <2> QED
    BY <1>1, <1>2, <1>6, <2>3, <2>4, <2>5, <2>8, <2>9 DEF QuicIInv, QuicTypes
<1> QED
  BY <1>8, <1>9

LEMMA SendPacketKeeps ==
  ASSUME QuicIInv, NEW w \in Forwarders, SendPacket(w)
  PROVE  QuicIInv'
<1>1. /\ At(w, "send") /\ packets[fwd[w].n] < PacketCap
      /\ packets' = [packets EXCEPT ![fwd[w].n] = @ + 1]
      /\ UNCHANGED <<quic, live, sessionMap, dials, assocOf, byStream, cancelled, loopState, slots>>
  BY DEF SendPacket
<1>2. PICK f \in FwdRecord : f.pc = "idle" /\ fwd' = [fwd EXCEPT ![w] = f]
  BY RestsShape DEF SendPacket
<1>3. fwd' \in [Forwarders -> FwdRecord] /\ ForwardersKnow' /\ SlotsAccounted'
  BY <1>1, <1>2, ForwarderMoves DEF At
<1>4. packets' \in [Sessions -> 0..PacketCap]
  <2>1. packets \in [Sessions -> 0..PacketCap] /\ fwd[w].n \in Sessions
    BY <1>1, QuicConstants DEF QuicIInv, QuicTypes, ForwardersKnow, At, Sessions
  <2>2. packets[fwd[w].n] + 1 \in 0..PacketCap
    BY <1>1, <2>1, QuicConstants
  <2> QED
    BY <1>1, <2>1, <2>2
<1>5. NoOrphanLoop'
  BY <1>1 DEF QuicIInv, NoOrphanLoop
<1> QED
  BY <1>1, <1>3, <1>4, <1>5 DEF QuicIInv, QuicTypes

LEMMA SendFailsKeeps ==
  ASSUME QuicIInv, NEW w \in Forwarders, SendFails(w)
  PROVE  QuicIInv'
<1>1. /\ At(w, "send")
      /\ UNCHANGED <<quic, live, sessionMap, dials, assocOf, byStream, cancelled, loopState, packets, slots>>
  BY DEF SendFails
<1>2. fwd[w].n \in 1..dials /\ fwd[w].a \in Assocs /\ fwd[w].n \in Nat
  BY <1>1 DEF QuicIInv, ForwardersKnow, At
<1>3. PICK f \in FwdRecord : /\ f.pc = "failed" /\ f.n = fwd[w].n /\ f.a = fwd[w].a
                             /\ fwd' = [fwd EXCEPT ![w] = f]
  BY <1>2, GoesShape DEF SendFails
<1>4. fwd' \in [Forwarders -> FwdRecord] /\ ForwardersKnow' /\ SlotsAccounted'
  BY <1>1, <1>2, <1>3, ForwarderMoves DEF At
<1>5. NoOrphanLoop'
  BY <1>1 DEF QuicIInv, NoOrphanLoop
<1> QED
  BY <1>1, <1>4, <1>5 DEF QuicIInv, QuicTypes

(* An entry that leaves the map gives its permit back and leaves no loop. *)
LEMMA RemoveSessionKeeps ==
  ASSUME QuicIInv, NEW a \in Assocs, RemoveSession(a),
         UNCHANGED <<quic, live, dials, assocOf, byStream, loopState, packets>>,
         fwd' \in [Forwarders -> FwdRecord], ForwardersKnow', Dialing' = Dialing
  PROVE  QuicIInv'
<1>1. /\ sessionMap' = [sessionMap EXCEPT ![a] = NoSession]
      /\ cancelled' = Dropped(sessionMap[a])
      /\ slots' = IF sessionMap[a] = NoSession THEN slots ELSE slots + 1
  BY DEF RemoveSession
<1>2. /\ sessionMap' \in [Assocs -> 0..dials]
      /\ \A b \in Assocs : sessionMap'[b] = IF b = a THEN NoSession ELSE sessionMap[b]
  BY <1>1 DEF QuicIInv, QuicTypes, NoSession
<1>3. slots \in Nat /\ slots' \in Nat
  BY <1>1 DEF QuicIInv, QuicTypes
<1>4. SlotsAccounted'
  <2>1. CASE sessionMap[a] = NoSession
    <3>1. Mapped' = Mapped
      BY <1>2, <2>1 DEF Mapped
    <3> QED
      BY <1>1, <2>1, <3>1 DEF QuicIInv, SlotsAccounted, Dialing, Mapped
  <2>2. CASE sessionMap[a] # NoSession
    <3>1. Mapped' = Mapped \ {a} /\ a \in Mapped
      BY <1>2, <2>2 DEF Mapped
    <3>2. Cardinality(Mapped') = Cardinality(Mapped) - 1
      BY <3>1, HoldersFinite, FS_RemoveElement
    <3>3. slots + Cardinality(Dialing) + Cardinality(Mapped) = MaxSessions
      BY DEF QuicIInv, SlotsAccounted, Dialing, Mapped
    <3>4. slots' = slots + 1
      BY <1>1, <2>2
    <3>5. Cardinality(Dialing) \in Nat /\ Cardinality(Mapped) \in Nat
      BY HoldersFinite
    <3>6. slots' + Cardinality(Dialing') + Cardinality(Mapped') = MaxSessions
      BY <1>3, <3>2, <3>3, <3>4, <3>5
    <3> QED
      BY <3>6 DEF SlotsAccounted, Dialing, Mapped
  <2> QED
    BY <2>1, <2>2
<1>5. NoOrphanLoop'
  <2>1. cancelled \subseteq cancelled' /\ (sessionMap[a] # NoSession => sessionMap[a] \in cancelled')
    BY <1>1 DEF Dropped
  <2>2. ASSUME NEW m \in 1..dials, loopState[m] # "ended", m \notin cancelled'
        PROVE  sessionMap'[assocOf[m]] = m
    <3>1. sessionMap[assocOf[m]] = m /\ m # NoSession
      BY <2>1, <2>2 DEF QuicIInv, NoOrphanLoop, NoSession
    <3>2. assocOf[m] # a
      BY <2>1, <2>2, <3>1
    <3> QED
      BY <1>1, <3>1, <3>2 DEF QuicIInv, QuicTypes
  <2>3. \A b \in Assocs : sessionMap'[b] # NoSession => assocOf[sessionMap'[b]] = b
    BY <1>2 DEF QuicIInv, NoOrphanLoop
  <2> QED
    BY <2>2, <2>3 DEF NoOrphanLoop
<1> QED
  BY <1>2, <1>3, <1>4, <1>5 DEF QuicIInv, QuicTypes

LEMMA RemoveFailedKeeps ==
  ASSUME QuicIInv, NEW w \in Forwarders, RemoveFailed(w)
  PROVE  QuicIInv'
<1>1. /\ At(w, "failed") /\ RemoveSession(fwd[w].a)
      /\ UNCHANGED <<quic, live, dials, assocOf, byStream, loopState, packets>>
  BY DEF RemoveFailed
<1>2. fwd[w].a \in Assocs
  BY <1>1 DEF QuicIInv, ForwardersKnow, At
<1>3. PICK f \in FwdRecord : /\ f.pc = "idle" /\ fwd' \in [Forwarders -> FwdRecord]
                             /\ \A v \in Forwarders : fwd'[v] = IF v = w THEN f ELSE fwd[v]
  BY RestsShape DEF RemoveFailed
<1>4. ForwardersKnow' /\ Dialing' = Dialing
  BY <1>1, <1>3 DEF QuicIInv, ForwardersKnow, Dialing, At
<1> QED
  BY <1>1, <1>2, <1>3, <1>4, RemoveSessionKeeps

(* DISSOCIATE and the cleanup of idle associations. *)
LEMMA DissociateReapKeep ==
  ASSUME QuicIInv, NEW a \in Assocs, Dissociate(a) \/ Reap(a)
  PROVE  QuicIInv'
<1>1. RemoveSession(a) /\ UNCHANGED <<quic, live, dials, assocOf, byStream, loopState, packets, fwd>>
  BY DEF Dissociate, Reap
<1>2. fwd' \in [Forwarders -> FwdRecord] /\ ForwardersKnow' /\ Dialing' = Dialing
  BY <1>1 DEF QuicIInv, QuicTypes, ForwardersKnow, Dialing, At
<1> QED
  BY <1>1, <1>2, RemoveSessionKeeps

(* The loop of a session takes, writes or ends. *)
LEMMA SessionLoopKeeps ==
  ASSUME QuicIInv, NEW n \in Sessions,
         \/ TakePacket(n) \/ PacketWritten(n) \/ LoopCancelled(n) \/ UpstreamEnds(n)
         \/ ReadDownload(n) \/ DownloadSent(n) \/ DownloadFails(n)
  PROVE  QuicIInv'
<1>1. /\ UNCHANGED <<quic, live, sessionMap, dials, assocOf, byStream, cancelled, fwd, slots>>
      /\ loopState[n] \in {"running", "writing", "sending"}
      /\ \E s \in {"running", "writing", "sending", "ended"} : loopState' = [loopState EXCEPT ![n] = s]
  BY DEF TakePacket, PacketWritten, LoopCancelled, UpstreamEnds, ReadDownload, DownloadSent,
     DownloadFails, loopRest
<1>2. packets' \in [Sessions -> 0..PacketCap]
  BY QuicConstants DEF QuicIInv, QuicTypes, TakePacket, PacketWritten, LoopCancelled,
     UpstreamEnds, ReadDownload, DownloadSent, DownloadFails
<1>3. loopState' \in [Sessions -> {"none", "running", "writing", "sending", "ended"}]
  BY <1>1 DEF QuicIInv, QuicTypes
<1>4. \A m \in 1..dials : loopState'[m] # "ended" => loopState[m] # "ended"
  BY <1>1, QuicConstants DEF QuicIInv, QuicTypes, Sessions
<1>5. NoOrphanLoop'
  BY <1>1, <1>4 DEF QuicIInv, NoOrphanLoop
<1>6. ForwardersKnow' /\ SlotsAccounted'
  BY <1>1 DEF QuicIInv, ForwardersKnow, SlotsAccounted, At
<1> QED
  BY <1>1, <1>2, <1>3, <1>5, <1>6 DEF QuicIInv, QuicTypes

LEMMA ConnectionEndsKeeps ==
  ASSUME QuicIInv, ConnectionEnds
  PROVE  QuicIInv'
<1>1. /\ live' = FALSE /\ cancelled' = cancelled \cup 1..dials
      /\ fwd' = [w \in Forwarders |-> IF w = Loop THEN FwdIdle ELSE fwd[w]]
      /\ slots' = IF At(Loop, "dial") THEN slots + 1 ELSE slots
      /\ UNCHANGED <<quic, sessionMap, dials, assocOf, byStream, loopState, packets>>
  BY DEF ConnectionEnds
<1>2. Loop \in Forwarders
  BY QuicConstants DEF Loop
<1>3. FwdIdle \in FwdRecord /\ FwdIdle.pc = "idle"
  BY DEF FwdIdle, FwdRecord, NoSession
<1>4. fwd' \in [Forwarders -> FwdRecord] /\ ForwardersKnow'
  BY <1>1, <1>3 DEF QuicIInv, QuicTypes, ForwardersKnow, At
<1>5. NoOrphanLoop'
  BY <1>1 DEF QuicIInv, NoOrphanLoop
<1>6. Dialing' = Dialing \ {Loop} /\ Mapped' = Mapped
  BY <1>1, <1>3 DEF Dialing, Mapped, At
<1>7. slots \in Nat /\ slots' \in Nat
  BY <1>1 DEF QuicIInv, QuicTypes
<1>8. SlotsAccounted'
  <2>1. CASE At(Loop, "dial")
    <3>1. Loop \in Dialing
      BY <1>2, <2>1 DEF Dialing
    <3>2. Cardinality(Dialing') = Cardinality(Dialing) - 1
      BY <1>6, <3>1, HoldersFinite, FS_RemoveElement
    <3> QED
      BY <1>1, <1>6, <1>7, <2>1, <3>2, HoldersFinite, QuicConstants
      DEF QuicIInv, SlotsAccounted, Dialing, Mapped
  <2>2. CASE ~At(Loop, "dial")
    <3>1. Dialing' = Dialing
      BY <1>6, <2>2 DEF Dialing
    <3> QED
      BY <1>1, <1>6, <2>2, <3>1 DEF QuicIInv, SlotsAccounted, Dialing, Mapped
  <2> QED
    BY <2>1, <2>2
<1> QED
  BY <1>1, <1>4, <1>5, <1>7, <1>8 DEF QuicIInv, QuicTypes

LEMMA QuicStutterKeeps == ASSUME QuicIInv, UNCHANGED quicVars PROVE QuicIInv'
  BY DEF QuicIInv, QuicTypes, ForwardersKnow, SlotsAccounted, NoOrphanLoop, At, quicVars

(* UdpSessionsSafe for any associations, forwarders, dials and limits: a permit
   is free, with a dial or with an entry of the map, and no session loop that is
   not told to stop is outside the map, however the races of packets, dials,
   cleanup, DISSOCIATE and the connection's end go. *)
THEOREM UdpSessionsAlwaysSafe == QuicSafetySpec => []UdpSessionsSafe
<1>1. QuicIInv /\ [QuicNext]_quicVars => QuicIInv'
  <2> SUFFICES ASSUME QuicIInv, [QuicNext]_quicVars PROVE QuicIInv'
    OBVIOUS
  <2> QED
    BY LookupKeeps, DialFailsKeeps, DialedKeeps, SendPacketKeeps, SendFailsKeeps,
       RemoveFailedKeeps, DissociateReapKeep, SessionLoopKeeps, ConnectionEndsKeeps,
       QuicStutterKeeps DEF QuicNext
<1>2. QuicIInv => UdpSessionsSafe
  <2> SUFFICES ASSUME QuicIInv PROVE UdpSessionsSafe
    OBVIOUS
  <2>1. slots \in 0..MaxSessions
    BY HoldersFinite, QuicConstants DEF QuicIInv, QuicTypes, SlotsAccounted, Dialing, Mapped
  <2>2. QuicTypeOK
    BY <2>1 DEF QuicIInv, QuicTypes, QuicTypeOK, FwdRecord
  <2> QED
    BY <2>2 DEF QuicIInv, UdpSessionsSafe
<1> QED
  BY <1>1, <1>2, QuicInitial, PTL DEF QuicSafetySpec

-----------------------------------------------------------------------------
(* Kcptun.  The table as a value: its parts agree with its sessions. *)
TableRecord ==
    [sess : [Keys -> Nat], peer : [Peers -> Convs \cup {0}], ip : [Ips -> Nat], active : Nat]
TaskRecord ==
    [pc : {"none", "run", "end", "done"}, key : Keys \cup {<<>>}, cancelled : BOOLEAN,
     queue : Seq(Contents), idle : BOOLEAN]

OfIp(t, i) == {k \in Live(t) : IpOf[k[1]] = i}
ConvsOf(t, p) == {c \in Convs : <<p, c>> \in Live(t)}

Exact(t) ==
    /\ \A i \in Ips : t.ip[i] = Cardinality(OfIp(t, i)) /\ t.ip[i] <= MaxPerIp
    /\ \A p \in Peers : ConvsOf(t, p) = {t.peer[p]} \ {0}
    /\ t.active = Cardinality(Live(t)) /\ t.active <= MaxTable

(* Sessions and tasks know each other: TasksKnown of any table and tasks. *)
Known(t, tasks) ==
    /\ \A g \in 1..gen :
         tasks[g].pc = "run" /\ ~tasks[g].cancelled => serving /\ t.sess[tasks[g].key] = g
    /\ \A k \in Live(t) :
         tasks[t.sess[k]].key = k /\ (tasks[t.sess[k]].pc = "done" => t.sess[k] \in ToSet(closed))

Generations(t, tasks) ==
    /\ t \in TableRecord /\ \A k \in Keys : t.sess[k] \in 0..gen
    /\ tasks \in [1..MaxGen -> TaskRecord]
    /\ \A g \in 1..gen : tasks[g].key \in Keys /\ tasks[g].pc # "none"
    /\ \A g \in 1..MaxGen : g > gen => tasks[g].pc = "none"
    /\ \A g \in ToSet(closed) : g \in 1..gen /\ tasks[g].pc = "done"

KcpIInv ==
    /\ gen \in 0..MaxGen /\ closed \in Seq(Nat) /\ serving \in BOOLEAN
    /\ Generations(table, task) /\ Exact(table) /\ Known(table, task)
    /\ serving \/ Live(table) = {}

(* A key is a peer and a conversation. *)
LEMMA KeyParts ==
  /\ \A k \in Keys : k[1] \in Peers /\ k[2] \in Convs /\ k = <<k[1], k[2]>> /\ IpOf[k[1]] \in Ips
  /\ \A p \in Peers, c \in Convs : <<p, c>> \in Keys /\ <<p, c>>[1] = p /\ <<p, c>>[2] = c
  BY DEF Keys, Ips

LEMMA SessionsFinite ==
  ASSUME NEW t, NEW i
  PROVE  /\ IsFiniteSet(Live(t)) /\ Cardinality(Live(t)) \in Nat
         /\ IsFiniteSet(OfIp(t, i)) /\ Cardinality(OfIp(t, i)) \in Nat
<1>1. IsFiniteSet(Keys)
  BY KcptunBounds, FS_Product DEF Keys
<1>2. Live(t) \in SUBSET Keys /\ OfIp(t, i) \in SUBSET Keys
  BY DEF Live, OfIp
<1> QED
  BY <1>1, <1>2, FS_Subset, FS_CardinalityType

LEMMA EmptyIsExact ==
  EmptyTable \in TableRecord /\ Exact(EmptyTable) /\ Live(EmptyTable) = {}
<1>1. EmptyTable \in TableRecord /\ Live(EmptyTable) = {}
  BY DEF EmptyTable, TableRecord, Live
<1>2. \A i \in Ips : OfIp(EmptyTable, i) = {}
  BY <1>1 DEF OfIp
<1>3. \A p \in Peers : ConvsOf(EmptyTable, p) = {}
  BY <1>1 DEF ConvsOf
<1>4. Exact(EmptyTable)
  BY <1>1, <1>2, <1>3, FS_EmptySet, KcptunBounds DEF Exact, EmptyTable
<1> QED
  BY <1>1, <1>4

(* SessionTable::remove with the decrement of active_sessions keeps the table
   exact, and leaves the peer without a conversation. *)
LEMMA DropKeepsExact ==
  ASSUME NEW t \in TableRecord, Exact(t), NEW k \in Keys, t.sess[k] # 0
  PROVE  LET u == SessionDropped(t, k)
         IN  /\ u \in TableRecord /\ Exact(u)
             /\ u.sess = [t.sess EXCEPT ![k] = 0] /\ u.peer = [t.peer EXCEPT ![k[1]] = 0]
<1> DEFINE u == SessionDropped(t, k)
           j == IpOf[k[1]]
<1>0. /\ k[1] \in Peers /\ k[2] \in Convs /\ k = <<k[1], k[2]>> /\ j \in Ips
      /\ t.sess \in [Keys -> Nat] /\ t.peer \in [Peers -> Convs \cup {0}]
      /\ t.ip \in [Ips -> Nat] /\ t.active \in Nat
  BY KeyParts DEF TableRecord
<1>1. k \in Live(t) /\ k \in OfIp(t, j)
  BY DEF Live, OfIp
<1>2. t.peer[k[1]] = k[2]
  <2>1. k[2] \in ConvsOf(t, k[1])
    BY <1>0, <1>1 DEF ConvsOf
  <2> QED
    BY <1>0, <2>1 DEF Exact
<1>3. t.ip[j] > 0 /\ t.active > 0
  <2>1. Cardinality(OfIp(t, j)) # 0 /\ Cardinality(Live(t)) # 0
    BY <1>1, SessionsFinite, FS_EmptySet
  <2> QED
    BY <1>0, <2>1, SessionsFinite DEF Exact
<1>4. /\ u.sess = [t.sess EXCEPT ![k] = 0] /\ u.peer = [t.peer EXCEPT ![k[1]] = 0]
      /\ u.ip = [t.ip EXCEPT ![j] = t.ip[j] - 1] /\ u.active = t.active - 1
  BY <1>0, <1>2, <1>3 DEF SessionDropped, Removed, TableRecord
<1>5. u \in TableRecord
  <2>1. u = [t EXCEPT !.sess = u.sess, !.peer = u.peer, !.ip = u.ip, !.active = u.active]
    BY ZenonT(40), <1>0, <1>2, <1>3 DEF TableRecord, SessionDropped, Removed
  <2>2. /\ u.sess \in [Keys -> Nat] /\ u.peer \in [Peers -> Convs \cup {0}]
        /\ u.ip \in [Ips -> Nat] /\ u.active \in Nat
    BY <1>0, <1>3, <1>4
  <2> HIDE DEF u
  <2> QED
    BY <2>1, <2>2 DEF TableRecord
<1> HIDE DEF u, j
<1>6. Live(u) = Live(t) \ {k} /\ \A i \in Ips : OfIp(u, i) = OfIp(t, i) \ {k}
  BY <1>0, <1>4 DEF Live, OfIp
<1>7. Cardinality(Live(u)) = Cardinality(Live(t)) - 1
  BY <1>1, <1>6, SessionsFinite, FS_RemoveElement
<1>8. \A i \in Ips : u.ip[i] = Cardinality(OfIp(u, i)) /\ u.ip[i] <= MaxPerIp
  <2> SUFFICES ASSUME NEW i \in Ips
               PROVE  u.ip[i] = Cardinality(OfIp(u, i)) /\ u.ip[i] <= MaxPerIp
    OBVIOUS
  <2>1. k \in OfIp(t, i) <=> i = j
    BY <1>1 DEF OfIp, j
  <2>2. Cardinality(OfIp(u, i)) = IF i = j THEN Cardinality(OfIp(t, i)) - 1
                                  ELSE Cardinality(OfIp(t, i))
    BY <1>6, <2>1, SessionsFinite, FS_RemoveElement
  <2>3. t.ip[i] = Cardinality(OfIp(t, i)) /\ t.ip[i] <= MaxPerIp /\ t.ip[i] \in Nat
    BY <1>0 DEF Exact
  <2>4. u.ip[i] = IF i = j THEN t.ip[i] - 1 ELSE t.ip[i]
    BY <1>0, <1>4
  <2> QED
    BY <2>2, <2>3, <2>4, KcptunBounds
<1>9. \A p \in Peers : ConvsOf(u, p) = {u.peer[p]} \ {0}
  <2> SUFFICES ASSUME NEW p \in Peers PROVE ConvsOf(u, p) = {u.peer[p]} \ {0}
    OBVIOUS
  <2>1. ConvsOf(t, p) = {t.peer[p]} \ {0}
    BY DEF Exact
  <2>2. ConvsOf(u, p) = IF p = k[1] THEN ConvsOf(t, p) \ {k[2]} ELSE ConvsOf(t, p)
    BY <1>0, <1>6, KeyParts DEF ConvsOf
  <2>3. u.peer[p] = IF p = k[1] THEN 0 ELSE t.peer[p]
    BY <1>0, <1>4
  <2> QED
    BY <1>2, <2>1, <2>2, <2>3
<1>10. Exact(u)
  BY <1>0, <1>3, <1>4, <1>7, <1>8, <1>9, SessionsFinite, KcptunBounds DEF Exact
<1> QED
  BY <1>4, <1>5, <1>10 DEF u

(* SessionTable::insert within the limits, with the increment of active_sessions. *)
LEMMA InsertKeepsExact ==
  ASSUME NEW t \in TableRecord, Exact(t), NEW k \in Keys, NEW g \in Nat \ {0},
         t.sess[k] = 0, t.peer[k[1]] = 0, ~Full(t, k[1])
  PROVE  LET u == [Inserted(t, k, g) EXCEPT !.active = @ + 1]
         IN  u \in TableRecord /\ Exact(u) /\ u.sess = [t.sess EXCEPT ![k] = g]
<1> DEFINE p == k[1]
           c == k[2]
           u == [Inserted(t, k, g) EXCEPT !.active = @ + 1]
           j == IpOf[p]
<1>0. /\ p \in Peers /\ c \in Convs /\ k = <<p, c>> /\ j \in Ips /\ t.peer[p] = 0
      /\ t.sess \in [Keys -> Nat] /\ t.peer \in [Peers -> Convs \cup {0}]
      /\ t.ip \in [Ips -> Nat] /\ t.active \in Nat
  BY KeyParts DEF TableRecord, Ips
<1>1. k \notin Live(t)
  BY DEF Live
<1>4. /\ u.sess = [t.sess EXCEPT ![k] = g] /\ u.peer = [t.peer EXCEPT ![p] = c]
      /\ u.ip = [t.ip EXCEPT ![j] = t.ip[j] + 1] /\ u.active = t.active + 1
  BY <1>0 DEF Inserted, TableRecord
<1>5. u \in TableRecord
  <2>1. u = [t EXCEPT !.sess = u.sess, !.peer = u.peer, !.ip = u.ip, !.active = u.active]
    BY <1>0 DEF Inserted, TableRecord
  <2>2. /\ u.sess \in [Keys -> Nat] /\ u.peer \in [Peers -> Convs \cup {0}]
        /\ u.ip \in [Ips -> Nat] /\ u.active \in Nat
    BY <1>0, <1>4
  <2> HIDE DEF u
  <2> QED
    BY <2>1, <2>2 DEF TableRecord
<1> HIDE DEF u, j, p, c
<1>6. Live(u) = Live(t) \cup {k} /\ \A i \in Ips : i # j => OfIp(u, i) = OfIp(t, i)
  BY <1>0, <1>4 DEF Live, OfIp, j, p
<1>6a. OfIp(u, j) = OfIp(t, j) \cup {k} /\ k \notin OfIp(t, j)
  BY <1>0, <1>1, <1>4 DEF Live, OfIp, j, p
<1>7. /\ Cardinality(Live(u)) = Cardinality(Live(t)) + 1
      /\ Cardinality(OfIp(u, j)) = Cardinality(OfIp(t, j)) + 1
  <2>1. IsFiniteSet(Live(t)) /\ IsFiniteSet(OfIp(t, j))
    BY SessionsFinite
  <2>2. Cardinality(Live(t) \cup {k}) = Cardinality(Live(t)) + 1
    BY <1>1, <2>1, FS_AddElement
  <2>3. Cardinality(OfIp(t, j) \cup {k}) = Cardinality(OfIp(t, j)) + 1
    BY <1>6a, <2>1, FS_AddElement
  <2> QED
    BY <1>6, <1>6a, <2>2, <2>3
<1>7a. Cardinality(Live(t)) < MaxTable /\ t.ip[j] < MaxPerIp
  <2>1. ~(Cardinality(Live(t)) >= MaxTable) /\ ~(t.ip[j] >= MaxPerIp)
    BY DEF Full, j, p
  <2>2. Cardinality(Live(t)) \in Nat /\ MaxTable \in Nat /\ t.ip[j] \in Nat /\ MaxPerIp \in Nat
    BY <1>0, SessionsFinite, KcptunBounds
  <2> QED
    BY <2>1, <2>2
<1>8. \A i \in Ips : u.ip[i] = Cardinality(OfIp(u, i)) /\ u.ip[i] <= MaxPerIp
  <2> SUFFICES ASSUME NEW i \in Ips
               PROVE  u.ip[i] = Cardinality(OfIp(u, i)) /\ u.ip[i] <= MaxPerIp
    OBVIOUS
  <2>3. t.ip[i] = Cardinality(OfIp(t, i)) /\ t.ip[i] <= MaxPerIp /\ t.ip[i] \in Nat
    BY <1>0 DEF Exact
  <2>4. u.ip[i] = IF i = j THEN t.ip[i] + 1 ELSE t.ip[i]
    BY <1>0, <1>4
  <2> QED
    BY <1>6, <1>7, <1>7a, <2>3, <2>4, KcptunBounds
<1>9. \A q \in Peers : ConvsOf(u, q) = {u.peer[q]} \ {0}
  <2> SUFFICES ASSUME NEW q \in Peers PROVE ConvsOf(u, q) = {u.peer[q]} \ {0}
    OBVIOUS
  <2>1. ConvsOf(t, q) = {t.peer[q]} \ {0}
    BY DEF Exact
  <2>2. ConvsOf(u, q) = IF q = p THEN ConvsOf(t, q) \cup {c} ELSE ConvsOf(t, q)
    BY <1>0, <1>6, KeyParts DEF ConvsOf
  <2>3. u.peer[q] = IF q = p THEN c ELSE t.peer[q]
    BY <1>0, <1>4
  <2> QED
    BY <1>0, <2>1, <2>2, <2>3, KcptunBounds
<1>10. Exact(u)
  BY <1>0, <1>4, <1>7, <1>7a, <1>8, <1>9, SessionsFinite, KcptunBounds DEF Exact
<1> QED
  BY <1>4, <1>5, <1>10 DEF u

LEMMA KcpInitial == KcpInit => KcpIInv
<1> SUFFICES ASSUME KcpInit PROVE KcpIInv
  OBVIOUS
<1>1. /\ table = EmptyTable /\ gen = 0 /\ closed = <<>> /\ serving = TRUE /\ ToSet(closed) = {}
      /\ task = [g \in 1..MaxGen |-> NoTask]
  BY DEF KcpInit, ToSet
<1>2. NoTask \in TaskRecord
  BY DEF NoTask, TaskRecord
<1>3. EmptyTable \in TableRecord /\ Exact(EmptyTable) /\ Live(EmptyTable) = {}
  BY EmptyIsExact
<1>4. Generations(table, task)
  BY <1>1, <1>2, <1>3 DEF Generations, EmptyTable, NoTask
<1>5. Known(table, task)
  BY <1>1, <1>3 DEF Known
<1> QED
  BY <1>1, <1>3, <1>4, <1>5, KcptunBounds DEF KcpIInv

(* A task that moves on keeps its key; it is not taken back, and its end is
   told to a loop that runs. *)
LEMMA TaskMoves ==
  ASSUME KcpIInv, UNCHANGED <<table, gen, serving>>,
         NEW g \in 1..MaxGen, NEW r \in TaskRecord, task' = [task EXCEPT ![g] = r],
         r.key = task[g].key, r.pc # "none",
         task[g].pc \notin {"none", "done"},
         r.pc = "run" /\ ~r.cancelled => task[g].pc = "run" /\ ~task[g].cancelled,
         closed' \in Seq(Nat),
         ToSet(closed') = ToSet(closed) \cup (IF r.pc = "done" /\ serving THEN {g} ELSE {})
  PROVE  KcpIInv'
<1>1. /\ \A h \in 1..MaxGen : task'[h] = IF h = g THEN r ELSE task[h]
      /\ task' \in [1..MaxGen -> TaskRecord] /\ gen \in 0..MaxGen
      /\ \A h \in 1..gen : h \in 1..MaxGen
  BY KcptunBounds DEF KcpIInv, Generations
<1>1a. g \in 1..gen
  BY <1>1 DEF KcpIInv, Generations
<1>2. Generations(table, task)'
  BY <1>1, <1>1a DEF KcpIInv, Generations
<1>3. \A k \in Live(table) : table.sess[k] \in 1..gen /\ serving
  BY <1>1, KcptunBounds DEF KcpIInv, Generations, Live
<1>4. Live(table') = Live(table)
  BY DEF Live
<1>5. Known(table, task)'
  BY <1>1, <1>3, <1>4 DEF KcpIInv, Known
<1>6. Exact(table)' /\ (serving \/ Live(table) = {})'
  BY <1>4 DEF KcpIInv, Exact, ConvsOf, OfIp, Live
<1> QED
  BY <1>2, <1>5, <1>6 DEF KcpIInv

(* What is appended to the channel of SessionClosed is in it, with the rest. *)
LEMMA AppendTells ==
  ASSUME NEW s \in Seq(Nat), NEW g \in Nat
  PROVE  /\ Append(s, g) \in Seq(Nat)
         /\ ToSet(Append(s, g)) = ToSet(s) \cup {g}
<1>1. /\ Append(s, g) \in Seq(Nat) /\ Len(s) \in Nat /\ DOMAIN s = 1..Len(s)
      /\ DOMAIN Append(s, g) = 1..(Len(s) + 1)
      /\ \A i \in 1..Len(s) : Append(s, g)[i] = s[i]
      /\ Append(s, g)[Len(s) + 1] = g
  BY AppendProperties, LenProperties
<1> DEFINE a == Append(s, g)
<1>2. ToSet(a) = {a[i] : i \in 1..(Len(s) + 1)} /\ ToSet(s) = {s[i] : i \in 1..Len(s)}
  BY <1>1 DEF ToSet
<1>3. 1..(Len(s) + 1) = (1..Len(s)) \cup {Len(s) + 1}
  BY <1>1
<1> HIDE DEF a
<1>4. \A i \in 1..Len(s) : a[i] = s[i]
  BY <1>1 DEF a
<1>5. a[Len(s) + 1] = g
  BY <1>1 DEF a
<1>6. ToSet(a) = ToSet(s) \cup {g}
  BY <1>2, <1>3, <1>4, <1>5
<1> QED
  BY <1>1, <1>6 DEF a

LEMMA TailTells ==
  ASSUME NEW s \in Seq(Nat), s # <<>>
  PROVE  Tail(s) \in Seq(Nat) /\ ToSet(s) = ToSet(Tail(s)) \cup {Head(s)}
<1>1. /\ Tail(s) \in Seq(Nat) /\ Len(s) \in Nat \ {0} /\ DOMAIN s = 1..Len(s)
      /\ DOMAIN Tail(s) = 1..(Len(s) - 1) /\ Head(s) = s[1]
      /\ \A i \in 1..(Len(s) - 1) : Tail(s)[i] = s[i + 1]
  BY HeadTailProperties, LenProperties, EmptySeq
<1>2. ASSUME NEW i \in 1..Len(s), i # 1 PROVE s[i] \in ToSet(Tail(s))
  <2>1. i - 1 \in DOMAIN Tail(s) /\ Tail(s)[i - 1] = s[i]
    BY <1>1, <1>2
  <2> QED
    BY <2>1 DEF ToSet
<1>3. ASSUME NEW i \in 1..(Len(s) - 1) PROVE Tail(s)[i] \in ToSet(s)
  <2>1. i + 1 \in 1..Len(s) /\ Tail(s)[i] = s[i + 1]
    BY <1>1, <1>3
  <2> QED
    BY <1>1, <2>1 DEF ToSet
<1>4. s[1] \in ToSet(s)
  BY <1>1 DEF ToSet
<1> QED
  BY <1>1, <1>2, <1>3, <1>4 DEF ToSet

LEMMA PumpKeeps ==
  ASSUME KcpIInv, NEW g \in 1..MaxGen, Pump(g) \/ GrowIdle(g) \/ EndPump(g) \/ Finish(g)
  PROVE  KcpIInv'
<1>0. UNCHANGED <<table, gen, serving>>
  BY DEF Pump, GrowIdle, EndPump, Finish
<1>1. task \in [1..MaxGen -> TaskRecord] /\ task[g] \in TaskRecord /\ closed \in Seq(Nat)
      /\ g \in Nat /\ UNCHANGED <<table, gen, serving>>
  BY <1>0 DEF KcpIInv, Generations
<1>2. CASE Pump(g)
  <2> DEFINE x == Head(task[g].queue)
             r == [task[g] EXCEPT !.queue = Tail(@), !.idle = IF x = "good" THEN FALSE ELSE @,
                                  !.pc = IF x = "fatal" THEN "end" ELSE @,
                                  !.cancelled = @ \/ x = "fatal"]
  <2>1. /\ task' = [task EXCEPT ![g] = r] /\ closed' = closed
        /\ task[g].pc = "run" /\ task[g].queue # <<>>
    BY <1>1, <1>2 DEF Pump, TaskRecord
  <2>2. Tail(task[g].queue) \in Seq(Contents)
    BY <1>1, <2>1, HeadTailProperties DEF TaskRecord
  <2>3. r \in TaskRecord /\ r.key = task[g].key
        /\ r.pc = (IF x = "fatal" THEN "end" ELSE "run") /\ (r.cancelled <=> task[g].cancelled \/ x = "fatal")
    BY <1>1, <2>1, <2>2 DEF TaskRecord
  <2> HIDE DEF r
  <2> QED
    BY <1>1, <2>1, <2>3, TaskMoves
<1>3. CASE GrowIdle(g)
  <2> DEFINE r == [task[g] EXCEPT !.idle = TRUE]
  <2>1. task' = [task EXCEPT ![g] = r] /\ closed' = closed /\ task[g].pc = "run"
    BY <1>1, <1>3 DEF GrowIdle, TaskRecord
  <2>2. /\ r \in TaskRecord /\ r.key = task[g].key /\ r.pc = "run"
        /\ r.cancelled = task[g].cancelled
    BY <1>1, <2>1 DEF TaskRecord
  <2> HIDE DEF r
  <2> QED
    BY <1>1, <2>1, <2>2, TaskMoves
<1>4. CASE EndPump(g)
  <2> DEFINE r == [task[g] EXCEPT !.pc = "end", !.cancelled = TRUE]
  <2>1. task' = [task EXCEPT ![g] = r] /\ closed' = closed /\ task[g].pc = "run"
    BY <1>1, <1>4 DEF EndPump, TaskRecord
  <2>2. r \in TaskRecord /\ r.key = task[g].key /\ r.pc = "end"
    BY <1>1 DEF TaskRecord
  <2> HIDE DEF r
  <2> QED
    BY <1>1, <2>1, <2>2, TaskMoves
<1>5. CASE Finish(g)
  <2> DEFINE r == [task[g] EXCEPT !.pc = "done", !.queue = <<>>]
  <2>1. task' = [task EXCEPT ![g] = r]
    BY <1>1, <1>5 DEF Finish, TaskRecord
  <2>2. r \in TaskRecord /\ r.key = task[g].key /\ r.pc = "done"
    BY <1>1, EmptySeq DEF TaskRecord
  <2>3. /\ closed' \in Seq(Nat) /\ task[g].pc = "end"
        /\ ToSet(closed') = ToSet(closed) \cup (IF serving THEN {g} ELSE {})
    BY <1>1, <1>5, AppendTells DEF Finish
  <2> HIDE DEF r
  <2> QED
    BY <1>1, <2>1, <2>2, <2>3, TaskMoves
<1> QED
  BY <1>2, <1>3, <1>4, <1>5

LEMMA ShutdownKeeps == ASSUME KcpIInv, Shutdown PROVE KcpIInv'
<1>1. /\ table' = EmptyTable /\ serving' = FALSE /\ UNCHANGED <<gen, closed>>
      /\ task' = [g \in 1..MaxGen |-> [task[g] EXCEPT !.cancelled = @ \/ task[g].pc # "none"]]
  BY DEF Shutdown
<1>2. \A g \in 1..MaxGen : /\ task'[g] \in TaskRecord /\ task'[g].key = task[g].key
                           /\ task'[g].pc = task[g].pc
                           /\ task[g].pc # "none" => task'[g].cancelled
  BY <1>1 DEF KcpIInv, Generations, TaskRecord
<1>3. EmptyTable \in TableRecord /\ Exact(EmptyTable) /\ Live(EmptyTable) = {}
  BY EmptyIsExact
<1>4. gen \in 0..MaxGen /\ \A g \in 1..gen : g \in 1..MaxGen
  BY KcptunBounds DEF KcpIInv
<1>5. task' \in [1..MaxGen -> TaskRecord]
  BY <1>1, <1>2
<1>6. Generations(table, task)'
  <2>1. \A k \in Keys : EmptyTable.sess[k] = 0
    BY DEF EmptyTable
  <2>2. Generations(table, task) /\ ToSet(closed') = ToSet(closed)
    BY <1>1 DEF KcpIInv
  <2>3. table' \in TableRecord /\ \A k \in Keys : table'.sess[k] \in 0..gen'
    BY <1>1, <1>3, <1>4, <2>1
  <2>4. \A g \in 1..gen' : task'[g].key \in Keys /\ task'[g].pc # "none"
    BY <1>1, <1>2, <1>4, <2>2 DEF Generations
  <2>5. /\ \A g \in 1..MaxGen : g > gen' => task'[g].pc = "none"
        /\ \A g \in ToSet(closed') : g \in 1..gen' /\ task'[g].pc = "done"
    BY <1>1, <1>2, <1>4, <2>2 DEF Generations
  <2> QED
    BY <1>5, <2>3, <2>4, <2>5 DEF Generations
<1>7. Known(table, task)'
  BY <1>1, <1>2, <1>3, <1>4 DEF KcpIInv, Generations, Known
<1> QED
  BY <1>1, <1>3, <1>6, <1>7 DEF KcpIInv

(* remove_if_generation: the session of the key goes only if it is the one that
   ended, so that whatever else is in the table still has its task. *)
LEMMA TakeClosedKeeps == ASSUME KcpIInv, TakeClosed PROVE KcpIInv'
<1> DEFINE g == Head(closed)
           k == task[g].key
<1>1. /\ closed # <<>> /\ closed' = Tail(closed) /\ table' = ClosedTable(g) /\ serving
      /\ UNCHANGED <<gen, task, serving>>
  BY DEF TakeClosed
<1>2. /\ closed \in Seq(Nat) /\ gen \in 0..MaxGen /\ Generations(table, task)
      /\ Exact(table) /\ Known(table, task) /\ table \in TableRecord
  BY DEF KcpIInv, Generations
<1>3. Tail(closed) \in Seq(Nat) /\ ToSet(closed) = ToSet(Tail(closed)) \cup {g}
  BY <1>1, <1>2, TailTells
<1>3a. g \in 1..gen /\ g # 0 /\ k \in Keys /\ task[g].pc = "done"
  BY <1>2, <1>3 DEF Generations
<1>4. \A j \in Live(table) : j \in Keys /\ table.sess[j] \in 1..gen
  BY <1>2, KcptunBounds DEF Generations, Live
<1> HIDE DEF g, k
<1>5. CASE table.sess[k] = g
  <2>1. table' = SessionDropped(table, k)
    BY <1>1, <1>5 DEF ClosedTable, k
  <2>2. /\ table' \in TableRecord /\ Exact(table') /\ table'.sess = [table.sess EXCEPT ![k] = 0]
    BY <1>2, <1>3a, <1>5, <2>1, DropKeepsExact
  <2>3. /\ \A j \in Keys : table'.sess[j] = IF j = k THEN 0 ELSE table.sess[j]
    BY <1>2, <2>2 DEF TableRecord
  <2>4. Live(table') = Live(table) \ {k}
    BY <1>5, <2>3 DEF Live
  <2>5. Generations(table, task)'
    <3>1. \A j \in Keys : table'.sess[j] \in 0..gen
      BY <1>2, <2>3 DEF Generations
    <3>2. \A h \in ToSet(closed') : h \in 1..gen /\ task[h].pc = "done"
      BY <1>1, <1>2, <1>3 DEF Generations
    <3> QED
      BY <1>1, <1>2, <2>2, <3>1, <3>2 DEF Generations
  <2>6. Known(table, task)'
    <3>1. \A j \in Live(table') : table'.sess[j] = table.sess[j] /\ table.sess[j] # g
      BY <1>2, <1>4, <1>5, <2>3, <2>4 DEF Known, k
    <3>2. \A h \in 1..gen : task[h].pc = "run" /\ ~task[h].cancelled
             => table'.sess[task[h].key] = h
      <4> SUFFICES ASSUME NEW h \in 1..gen, task[h].pc = "run" /\ ~task[h].cancelled
                   PROVE  table'.sess[task[h].key] = h
        OBVIOUS
      <4>1. table.sess[task[h].key] = h /\ task[h].key \in Keys
        BY <1>2 DEF Known, Generations
      <4>2. h # g
        BY <1>3a
      <4> QED
        BY <1>5, <2>3, <4>1, <4>2
    <3> QED
      BY <1>1, <1>2, <1>3, <2>4, <3>1, <3>2 DEF Known
  <2> QED
    BY <1>1, <1>2, <1>3, <2>2, <2>5, <2>6 DEF KcpIInv
<1>6. CASE table.sess[k] # g
  <2>1. table' = table
    BY <1>1, <1>6 DEF ClosedTable, k
  <2>2. \A j \in Live(table) : table.sess[j] # g
    BY <1>2, <1>6 DEF Known, k
  <2>3. Known(table, task)'
    BY <1>1, <1>2, <1>3, <2>1, <2>2 DEF Known
  <2>4. Generations(table, task)'
    BY <1>1, <1>2, <1>3, <2>1 DEF Generations
  <2> QED
    BY <1>1, <1>2, <1>3, <2>1, <2>3, <2>4 DEF KcpIInv
<1> QED
  BY <1>5, <1>6

(* The first half of a datagram's way: another conversation of the peer is
   dropped from the table and its task cancelled. *)
LEMMA SwitchKeeps ==
  ASSUME KcpIInv, serving, NEW p \in Peers, NEW c \in Convs
  PROVE  LET old == <<p, table.peer[p]>>
             switch == table.peer[p] \notin {0, c}
             t == IF switch THEN [SessionDropped(table, old) EXCEPT !.peer[p] = 0] ELSE table
             tasks == IF switch /\ table.sess[old] # 0
                      THEN [task EXCEPT ![table.sess[old]].cancelled = TRUE] ELSE task
         IN  /\ Generations(t, tasks) /\ Exact(t) /\ Known(t, tasks)
             /\ t.peer[p] \in {0, c}
<1> DEFINE old == <<p, table.peer[p]>>
           o == table.sess[old]
<1>1. /\ gen \in 0..MaxGen /\ Generations(table, task) /\ Exact(table) /\ Known(table, task)
      /\ table \in TableRecord /\ table.peer[p] \in Convs \cup {0} /\ table.peer \in [Peers -> Convs \cup {0}]
      /\ \A g \in 1..gen : g \in 1..MaxGen
  BY KcptunBounds DEF KcpIInv, Generations, TableRecord
<1>2. CASE table.peer[p] \notin {0, c}
  <2> DEFINE d == SessionDropped(table, old)
             t == [d EXCEPT !.peer[p] = 0]
             tasks == [task EXCEPT ![o].cancelled = TRUE]
  <2>1. old \in Keys /\ old[1] = p /\ old[2] = table.peer[p]
    BY <1>1, <1>2, KeyParts
  <2>2. o # 0
    BY <1>1, <1>2 DEF Exact, ConvsOf, Live
  <2>3. o \in 1..gen /\ o \in 1..MaxGen /\ old \in Live(table)
    BY <1>1, <2>1, <2>2 DEF Generations, Live
  <2>4. /\ d \in TableRecord /\ Exact(d) /\ d.sess = [table.sess EXCEPT ![old] = 0]
        /\ d.peer = [table.peer EXCEPT ![p] = 0]
    BY <1>1, <2>1, <2>2, DropKeepsExact
  <2> HIDE DEF d, old, o
  <2>5. d.peer[p] = 0 /\ d.peer \in [Peers -> Convs \cup {0}]
    BY <1>1, <2>4
  <2>6. t = d
    BY <2>4, <2>5 DEF TableRecord
  <2> HIDE DEF t
  <2>7. /\ tasks \in [1..MaxGen -> TaskRecord] /\ tasks[o].cancelled
        /\ \A g \in 1..MaxGen : /\ tasks[g].key = task[g].key /\ tasks[g].pc = task[g].pc
                                /\ g # o => tasks[g].cancelled = task[g].cancelled
    BY ZenonT(40), <1>1, <2>3 DEF Generations, TaskRecord
  <2> HIDE DEF tasks
  <2>8. \A k \in Keys : t.sess[k] = IF k = old THEN 0 ELSE table.sess[k]
    BY <1>1, <2>1, <2>4, <2>6 DEF TableRecord
  <2>9. Generations(t, tasks)
    BY <1>1, <2>4, <2>6, <2>7, <2>8 DEF Generations
  <2>10. Live(t) = Live(table) \ {old}
    BY <2>8 DEF Live
  <2>11. Known(t, tasks)
    <3>1. \A k \in Live(t) : k \in Keys /\ t.sess[k] = table.sess[k] /\ table.sess[k] \in 1..MaxGen
      BY <1>1, <2>8, <2>10 DEF Live, Generations
    <3>2. \A g \in 1..gen : tasks[g].pc = "run" /\ ~tasks[g].cancelled
             => serving /\ t.sess[tasks[g].key] = g
      <4> SUFFICES ASSUME NEW g \in 1..gen, tasks[g].pc = "run", ~tasks[g].cancelled
                   PROVE  serving /\ t.sess[tasks[g].key] = g
        OBVIOUS
      <4>1. g # o /\ task[g].pc = "run" /\ ~task[g].cancelled /\ tasks[g].key = task[g].key
        BY <1>1, <2>7
      <4>2. table.sess[task[g].key] = g /\ task[g].key \in Keys
        BY <1>1, <4>1 DEF Known, Generations
      <4>3. task[g].key # old
        BY <4>1, <4>2 DEF o
      <4> QED
        BY <2>8, <4>1, <4>2, <4>3
    <3>3. \A k \in Live(t) : tasks[t.sess[k]].key = k
                             /\ (tasks[t.sess[k]].pc = "done" => t.sess[k] \in ToSet(closed))
      BY <1>1, <2>7, <2>10, <3>1 DEF Known
    <3> QED
      BY <3>2, <3>3 DEF Known
  <2> QED
    BY <1>2, <2>2, <2>4, <2>5, <2>6, <2>9, <2>11 DEF t, tasks, d, old, o
<1>3. CASE table.peer[p] \in {0, c}
  BY <1>1, <1>3
<1> QED
  BY <1>2, <1>3

(* A datagram put into a session's queue is nothing to the table. *)
LEMMA QueueKeeps ==
  ASSUME NEW t, NEW tasks, Generations(t, tasks), Known(t, tasks), NEW g \in 1..gen,
         gen \in 0..MaxGen, NEW x \in Contents
  PROVE  LET new == [tasks EXCEPT ![g].queue = Append(@, x)]
         IN  Generations(t, new) /\ Known(t, new)
<1> DEFINE new == [tasks EXCEPT ![g].queue = Append(@, x)]
<1>1. g \in 1..MaxGen /\ \A h \in 1..gen : h \in 1..MaxGen
  BY KcptunBounds
<1>2. Append(tasks[g].queue, x) \in Seq(Contents)
  BY <1>1, AppendProperties DEF Generations, TaskRecord
<1>3. /\ new \in [1..MaxGen -> TaskRecord]
      /\ \A h \in 1..MaxGen : /\ new[h].key = tasks[h].key /\ new[h].pc = tasks[h].pc
                              /\ new[h].cancelled = tasks[h].cancelled
  BY <1>1, <1>2 DEF Generations, TaskRecord
<1> HIDE DEF new
<1>4. Generations(t, new)
  BY <1>1, <1>3 DEF Generations
<1>5. \A k \in Live(t) : t.sess[k] \in 1..MaxGen
  BY <1>1 DEF Live, Generations
<1>6. Known(t, new)
  BY <1>1, <1>3, <1>5 DEF Known
<1> QED
  BY <1>4, <1>6 DEF new

(* A session is created for a datagram that may open one. *)
LEMMA OpenKeeps ==
  ASSUME NEW t, NEW tasks, Generations(t, tasks), Known(t, tasks), Exact(t), serving,
         gen \in 0..MaxGen, gen < MaxGen, NEW p \in Peers, NEW c \in Convs, NEW x \in Contents,
         t.sess[<<p, c>>] = 0, t.peer[p] \in {0, c}, ~Full(t, p),
         gen' = gen + 1, table' = [Inserted(t, <<p, c>>, gen + 1) EXCEPT !.active = @ + 1],
         task' = [tasks EXCEPT ![gen + 1] =
                    [NoTask EXCEPT !.pc = "run", !.key = <<p, c>>, !.queue = <<x>>]],
         UNCHANGED <<closed, serving>>
  PROVE  Generations(table, task)' /\ Exact(table)' /\ Known(table, task)'
<1> DEFINE k == <<p, c>>
           n == gen + 1
           r == [NoTask EXCEPT !.pc = "run", !.key = k, !.queue = <<x>>]
<1>1. k \in Keys /\ n \in Nat \ {0} /\ n \in 1..MaxGen /\ t \in TableRecord
  BY KeyParts, KcptunBounds DEF Generations
<1>2. t.peer[p] = 0
  <2> SUFFICES ASSUME t.peer[p] = c PROVE FALSE
    OBVIOUS
  <2>1. c \in ConvsOf(t, p)
    BY KcptunBounds DEF Exact
  <2> QED
    BY <2>1 DEF ConvsOf, Live
<1>3. table' \in TableRecord /\ Exact(table') /\ table'.sess = [t.sess EXCEPT ![k] = n]
  <2> DEFINE u == [Inserted(t, k, n) EXCEPT !.active = @ + 1]
  <2>1. table' = u /\ t.sess[k] = 0 /\ k[1] = p
    OBVIOUS
  <2> HIDE DEF n, k
  <2>2. u \in TableRecord /\ Exact(u) /\ u.sess = [t.sess EXCEPT ![k] = n]
    BY <1>1, <1>2, <2>1, InsertKeepsExact
  <2> HIDE DEF u
  <2> QED
    BY <2>1, <2>2
<1>4. \A j \in Keys : table'.sess[j] = IF j = k THEN n ELSE t.sess[j]
  BY <1>1, <1>3 DEF TableRecord
<1>5. <<x>> \in Seq(Contents)
  OBVIOUS
<1>6. r \in TaskRecord /\ r.pc = "run" /\ r.key = k /\ ~r.cancelled
  BY <1>1, <1>5 DEF TaskRecord, NoTask
<1>7. task' = [tasks EXCEPT ![n] = r]
  OBVIOUS
<1> HIDE DEF r, k
<1>8. /\ task' \in [1..MaxGen -> TaskRecord]
      /\ \A g \in 1..MaxGen : task'[g] = IF g = n THEN r ELSE tasks[g]
  BY <1>1, <1>6, <1>7 DEF Generations
<1>9. /\ \A g \in 1..gen' : g \in 1..MaxGen /\ (g = n \/ g \in 1..gen)
      /\ \A g \in 1..gen : g # n /\ g \in 1..gen' /\ g \in 1..MaxGen
      /\ \A g \in 0..gen : g \in 0..gen'
      /\ n \in 0..gen'
  <2>1. gen \in Nat /\ MaxGen \in Nat /\ gen' = gen + 1 /\ n = gen + 1 /\ gen + 1 <= MaxGen
    BY KcptunBounds
  <2> HIDE DEF n
  <2> QED
    BY <2>1
<1> HIDE DEF n
<1>10. Generations(table, task)'
  <2>1. \A j \in Keys : table'.sess[j] \in 0..gen'
    BY <1>4, <1>9 DEF Generations, n
  <2>2. \A g \in 1..gen' : task'[g].key \in Keys /\ task'[g].pc # "none"
    <3> SUFFICES ASSUME NEW g \in 1..gen' PROVE task'[g].key \in Keys /\ task'[g].pc # "none"
      OBVIOUS
    <3>1. CASE g = n
      BY <1>1, <1>6, <1>8, <3>1 DEF n
    <3>2. CASE g # n
      BY <1>8, <1>9, <3>2 DEF Generations
    <3> QED
      BY <3>1, <3>2
  <2>3. \A g \in 1..MaxGen : g > gen' => task'[g].pc = "none"
    <3> SUFFICES ASSUME NEW g \in 1..MaxGen, g > gen' PROVE task'[g].pc = "none"
      OBVIOUS
    <3>1. g # n /\ g > gen
      BY DEF n
    <3> QED
      BY <1>8, <3>1 DEF Generations
  <2>4. \A g \in ToSet(closed') : g \in 1..gen' /\ task'[g].pc = "done"
    BY <1>8, <1>9 DEF Generations
  <2> QED
    BY <1>3, <1>8, <2>1, <2>2, <2>3, <2>4 DEF Generations
<1>11. Live(table') = Live(t) \cup {k}
  BY <1>1, <1>4 DEF Live
<1>12. \A j \in Live(t) : j \in Keys /\ j # k /\ t.sess[j] \in 1..gen
  BY DEF Live, Generations, k
<1>13. Known(table, task)'
  <2>1. \A g \in 1..gen' : task'[g].pc = "run" /\ ~task'[g].cancelled
           => serving' /\ table'.sess[task'[g].key] = g
    <3> SUFFICES ASSUME NEW g \in 1..gen', task'[g].pc = "run" /\ ~task'[g].cancelled
                 PROVE  serving' /\ table'.sess[task'[g].key] = g
      OBVIOUS
    <3>1. CASE g = n
      BY <1>1, <1>4, <1>6, <1>8, <3>1
    <3>2. CASE g # n
      <4>1. g \in 1..gen /\ task'[g] = tasks[g]
        BY <1>8, <1>9, <3>2
      <4>2. t.sess[tasks[g].key] = g /\ tasks[g].key \in Keys
        BY <4>1 DEF Known, Generations
      <4>3. tasks[g].key # k
        BY <4>1, <4>2 DEF k
      <4> QED
        BY <1>4, <4>1, <4>2, <4>3
    <3> QED
      BY <3>1, <3>2
  <2>2. \A j \in Live(table') :
           /\ task'[table'.sess[j]].key = j
           /\ task'[table'.sess[j]].pc = "done" => table'.sess[j] \in ToSet(closed')
    <3> SUFFICES ASSUME NEW j \in Live(table')
                 PROVE  /\ task'[table'.sess[j]].key = j
                        /\ task'[table'.sess[j]].pc = "done" => table'.sess[j] \in ToSet(closed')
      OBVIOUS
    <3>1. CASE j = k
      <4>1. table'.sess[j] = n /\ task'[n] = r
        BY <1>1, <1>4, <1>8, <3>1 DEF n
      <4> QED
        BY <1>6, <3>1, <4>1
    <3>2. CASE j # k
      <4>1. j \in Live(t) /\ table'.sess[j] = t.sess[j] /\ t.sess[j] \in 1..gen
        BY <1>4, <1>11, <1>12, <3>2
      <4>2. task'[t.sess[j]] = tasks[t.sess[j]]
        BY <1>8, <1>9, <4>1
      <4> QED
        BY <4>1, <4>2 DEF Known
    <3> QED
      BY <3>1, <3>2
  <2> QED
    BY <2>1, <2>2 DEF Known
<1> QED
  BY <1>3, <1>10, <1>13

LEMMA ReceiveKeeps ==
  ASSUME KcpIInv, NEW p \in Peers, NEW c \in Convs, NEW first \in BOOLEAN, NEW x \in Contents,
         Receive(p, c, first, x)
  PROVE  KcpIInv'
<1> DEFINE old == <<p, table.peer[p]>>
           switch == table.peer[p] \notin {0, c}
           t == IF switch THEN [SessionDropped(table, old) EXCEPT !.peer[p] = 0] ELSE table
           tasks == IF switch /\ table.sess[old] # 0
                    THEN [task EXCEPT ![table.sess[old]].cancelled = TRUE] ELSE task
           k == <<p, c>>
           g == t.sess[k]
<1>1. serving /\ UNCHANGED <<closed, serving>> /\ gen \in 0..MaxGen /\ closed \in Seq(Nat) /\ k \in Keys
  BY KeyParts DEF Receive, KcpIInv
<1>2. Generations(t, tasks) /\ Exact(t) /\ Known(t, tasks) /\ t.peer[p] \in {0, c}
  BY <1>1, SwitchKeeps
<1>3. \/ /\ g # 0
         /\ table' = t /\ UNCHANGED gen
         /\ task' = IF Takes(g) THEN [tasks EXCEPT ![g].queue = Append(@, x)] ELSE tasks
      \/ g = 0 /\ table' = t /\ task' = tasks /\ UNCHANGED gen
      \/ /\ g = 0 /\ ~Full(t, p) /\ gen < MaxGen
         /\ gen' = gen + 1
         /\ table' = [Inserted(t, k, gen + 1) EXCEPT !.active = @ + 1]
         /\ task' = [tasks EXCEPT ![gen + 1] =
                       [NoTask EXCEPT !.pc = "run", !.key = k, !.queue = <<x>>]]
  BY DEF Receive
<1> HIDE DEF t, tasks
<1>4. g # 0 => g \in 1..gen
  BY <1>1, <1>2 DEF Generations
<1>5. CASE g # 0 /\ Takes(g) /\ table' = t /\ UNCHANGED gen
           /\ task' = [tasks EXCEPT ![g].queue = Append(@, x)]
  <2>1. Generations(t, task') /\ Known(t, task')
    BY <1>1, <1>2, <1>4, <1>5, QueueKeeps
  <2>2. Generations(table, task)' /\ Known(table, task)'
    BY SMTT(25), <1>1, <1>5, <2>1 DEF Generations, Known
  <2> QED
    BY <1>1, <1>2, <1>5, <2>2 DEF KcpIInv
<1>6. CASE table' = t /\ task' = tasks /\ UNCHANGED gen
  <2>2. Generations(table, task)' /\ Known(table, task)'
    BY <1>1, <1>2, <1>6 DEF Generations, Known
  <2> QED
    BY <1>1, <1>2, <1>6, <2>2 DEF KcpIInv
<1>7. CASE /\ g = 0 /\ ~Full(t, p) /\ gen < MaxGen
           /\ gen' = gen + 1
           /\ table' = [Inserted(t, k, gen + 1) EXCEPT !.active = @ + 1]
           /\ task' = [tasks EXCEPT ![gen + 1] =
                         [NoTask EXCEPT !.pc = "run", !.key = k, !.queue = <<x>>]]
  <2>1. Generations(table, task)' /\ Exact(table)' /\ Known(table, task)'
    BY <1>1, <1>2, <1>7, OpenKeeps
  <2>2. gen' \in 0..MaxGen
    BY <1>1, <1>7, KcptunBounds
  <2> QED
    BY <1>1, <2>1, <2>2 DEF KcpIInv
<1> QED
  BY SMTT(30), <1>3, <1>5, <1>6, <1>7

LEMMA ReceiveParityKeeps ==
  ASSUME KcpIInv, NEW p \in Peers, NEW x \in Contents, ReceiveParity(p, x)
  PROVE  KcpIInv'
<1> DEFINE k == <<p, table.peer[p]>>
           g == table.sess[k]
<1>1. /\ serving /\ UNCHANGED <<table, gen, closed, serving>> /\ table.peer[p] # 0 /\ g # 0
      /\ task' = [task EXCEPT ![g].queue = Append(@, x)]
  BY DEF ReceiveParity
<1>2. gen \in 0..MaxGen /\ Generations(table, task) /\ Known(table, task)
  BY DEF KcpIInv
<1>3. k \in Keys
  BY <1>1, <1>2, KeyParts DEF Generations, TableRecord
<1>4. g \in 1..gen
  BY <1>1, <1>2, <1>3 DEF Generations
<1>5. Generations(table, task') /\ Known(table, task')
  BY <1>1, <1>2, <1>4, QueueKeeps
<1>6. Generations(table, task)' /\ Known(table, task)'
  BY ZenonT(40), <1>1, <1>5 DEF Generations, Known
<1>7. Exact(table)'
  BY <1>1 DEF KcpIInv
<1> QED
  BY <1>1, <1>6, <1>7 DEF KcpIInv

(* KcptunSafe for any peers, addresses, conversations, limits and numbers of
   sessions and datagrams: the index by peer, the census by address and the
   count of sessions match the table, and a task runs uncancelled only as the
   session of its key, however late the news of its end comes. *)
THEOREM KcptunAlwaysSafe == KcpSafetySpec => []KcptunSafe
<1>1. KcpIInv /\ [KcpNext]_kcpVars => KcpIInv'
  <2> SUFFICES ASSUME KcpIInv, [KcpNext]_kcpVars PROVE KcpIInv'
    OBVIOUS
  <2>1. CASE UNCHANGED kcpVars
    BY <2>1 DEF KcpIInv, Generations, Known, kcpVars
  <2> QED
    BY <2>1, ReceiveKeeps, ReceiveParityKeeps, PumpKeeps, TakeClosedKeeps, ShutdownKeeps
    DEF KcpNext
<1>2. KcpIInv => KcptunSafe
  BY DEF KcpIInv, KcptunSafe, TableExact, Exact, TasksKnown, Known, OfIp, ConvsOf
<1> QED
  BY <1>1, <1>2, KcpInitial, PTL DEF KcpSafetySpec

-----------------------------------------------------------------------------
(* Relay.  One direction: its record, its circular buffer, what it owes. *)
DirRecord ==
    [state : {"running", "shutting", "done"},
     pc : {"read", "ping", "write", "flush", "end", "parked", "flushing"},
     readPending : BOOLEAN, writePending : BOOLEAN, readDone : BOOLEAN,
     needFlush : BOOLEAN, needPing : BOOLEAN,
     start : Nat, length : Nat, size : {BaseSize, BulkSize}, bulk : BOOLEAN,
     ring : [0..(BulkSize - 1) -> Nat],
     taken : Nat, given : Nat, flushed : Nat, orderly : BOOLEAN]

(* The cached bytes are the ones that were taken and not given, in order, from
   the start and around the end of the buffer. *)
Ordered(b) ==
    /\ b.start < b.size /\ b.length <= b.size
    /\ b.given + b.length = b.taken /\ b.orderly
    /\ \A i \in 0..(b.length - 1) : b.ring[(b.start + i) % b.size] = b.given + 1 + i

(* What is not flushed is remembered; it is flushed before a direction parks or
   is shut down, and then nothing is left in the buffer or in the input. *)
Owes(b, n) ==
    /\ b.taken <= n /\ (b.readDone => b.taken = n)
    /\ b.needFlush \/ b.flushed = b.given
    /\ b.state = "running" /\ b.pc \in {"end", "parked"} => ~b.needFlush
    /\ b.state # "running" => b.readDone /\ b.length = 0 /\ ~b.needFlush

DirInv(b, n) == b \in DirRecord /\ Ordered(b) /\ Owes(b, n)

RelayIInv ==
    /\ relay \in {"copying", "complete", "expired", "failed"}
    /\ dir = [d \in Dirs |-> dir[d]] /\ \A d \in Dirs : DirInv(dir[d], Input[d])

(* The remainders a circular buffer needs. *)
LEMMA Wraps ==
  ASSUME NEW s \in Nat, NEW i \in Nat, NEW n \in Nat \ {0}, s < n, i < n
  PROVE  (s + i) % n = IF s + i < n THEN s + i ELSE s + i - n
<1>1. CASE s + i < n
  BY <1>1, Z3
<1>2. CASE s + i >= n
  BY <1>2, Z3
<1> QED
  BY <1>1, <1>2

(* The numbers of a record, and the slots of its cached bytes. *)
LEMMA DirNumbers ==
  ASSUME NEW b \in DirRecord
  PROVE  /\ b.start \in Nat /\ b.length \in Nat /\ b.taken \in Nat /\ b.given \in Nat
         /\ b.flushed \in Nat /\ b.size \in Nat \ {0} /\ b.size <= BulkSize
         /\ b.size \in {BaseSize, BulkSize} /\ b.ring \in [0..(BulkSize - 1) -> Nat]
         /\ BaseSize \in Nat \ {0} /\ BulkSize \in Nat \ {0}
  BY RelayConstants DEF DirRecord

(* The slots of an ordered buffer without remainders. *)
LEMMA SlotOf ==
  ASSUME NEW b \in DirRecord, b.start < b.size, NEW i \in Nat, i < b.size
  PROVE  /\ (b.start + i) % b.size
              = IF b.start + i < b.size THEN b.start + i ELSE b.start + i - b.size
         /\ (b.start + i) % b.size \in 0..(BulkSize - 1)
<1>1. b.start \in Nat /\ b.size \in Nat \ {0} /\ b.size <= BulkSize /\ BulkSize \in Nat
  BY DirNumbers
<1>2. (b.start + i) % b.size = IF b.start + i < b.size THEN b.start + i ELSE b.start + i - b.size
  BY <1>1, Wraps
<1> QED
  BY <1>1, <1>2

(* An empty buffer is ordered at any size. *)
LEMMA EmptyOrdered ==
  ASSUME NEW b, Ordered(b), b \in DirRecord, b.length = 0,
         NEW r \in DirRecord, r.start = 0, r.length = 0, r.taken = b.taken, r.given = b.given,
         r.orderly = b.orderly
  PROVE  Ordered(r)
<1>1. r.size \in Nat \ {0} /\ 0 < r.size
  BY DirNumbers
<1> QED
  BY <1>1 DEF Ordered

(* A move that leaves the buffer alone. *)
Alike(r, b) ==
    /\ r \in DirRecord /\ r.start = b.start /\ r.length = b.length /\ r.size = b.size
    /\ r.ring = b.ring /\ r.taken = b.taken /\ r.given = b.given /\ r.orderly = b.orderly

LEMMA MoveKeeps ==
  ASSUME NEW n, NEW b, DirInv(b, n), NEW r, Alike(r, b), Owes(r, n)
  PROVE  DirInv(r, n)
  BY DEF DirInv, Ordered, Alike

(* resize_empty before a read. *)
LEMMA GrownKeeps ==
  ASSUME NEW n, NEW b, DirInv(b, n)
  PROVE  /\ DirInv(Grown(b), n) /\ Grown(b).length = b.length /\ Grown(b).taken = b.taken
         /\ Grown(b).readDone = b.readDone /\ Grown(b).pc = b.pc /\ Grown(b).state = b.state
         /\ b.length < b.size => b.length < Grown(b).size
<1> DEFINE r == [b EXCEPT !.size = BulkSize, !.start = 0]
<1>1. CASE b.bulk /\ b.length = 0 /\ b.size < BulkSize
  <2>1. Grown(b) = r
    BY <1>1 DEF Grown, Resized
  <2>2. /\ r \in DirRecord /\ r.start = 0 /\ r.length = b.length /\ r.taken = b.taken
        /\ r.given = b.given /\ r.orderly = b.orderly /\ r.readDone = b.readDone
        /\ r.needFlush = b.needFlush /\ r.flushed = b.flushed /\ r.pc = b.pc
        /\ r.state = b.state /\ r.size = BulkSize
    BY DEF DirInv, DirRecord
  <2> HIDE DEF r
  <2>3. Ordered(r)
    BY <1>1, <2>2, EmptyOrdered DEF DirInv
  <2>4. Owes(r, n)
    BY <2>2 DEF DirInv, Owes
  <2>5. BulkSize \in Nat \ {0} /\ b.size \in Nat
    BY DirNumbers DEF DirInv
  <2> QED
    BY <1>1, <2>1, <2>2, <2>3, <2>4, <2>5 DEF DirInv
<1>2. CASE ~(b.bulk /\ b.length = 0 /\ b.size < BulkSize)
  BY <1>2 DEF Grown
<1> QED
  BY <1>1, <1>2

(* A read into the free slots behind the cached bytes. *)
LEMMA FilledOrdered ==
  ASSUME NEW b \in DirRecord, Ordered(b), b.length < b.size,
         NEW n \in 1..(FreeEnd(b) - FreeStart(b)), NEW r \in DirRecord,
         r.start = b.start, r.size = b.size, r.length = b.length + n, r.taken = b.taken + n,
         r.given = b.given, r.orderly = b.orderly,
         \A i \in 0..(BulkSize - 1) :
            r.ring[i] = IF i \in FreeStart(b)..(FreeStart(b) + n - 1)
                        THEN b.taken + 1 + (i - FreeStart(b)) ELSE b.ring[i]
  PROVE  Ordered(r)
<1> DEFINE s == b.start
           z == b.size
           l == b.length
           f == FreeStart(b)
<1>1. /\ s \in Nat /\ z \in Nat \ {0} /\ l \in Nat /\ s < z /\ l < z /\ z <= BulkSize /\ BulkSize \in Nat
      /\ b.given \in Nat /\ b.taken \in Nat /\ b.taken = b.given + l
  BY DirNumbers DEF Ordered
<1>2. f = IF s + l < z THEN s + l ELSE s + l - z
  BY <1>1, SlotOf DEF FreeStart
<1>3. FreeEnd(b) = IF f < s THEN s ELSE z
  BY DEF FreeEnd
<1> HIDE DEF s, z, l, f
<1>4. n \in Nat /\ n > 0 /\ f \in Nat /\ n <= FreeEnd(b) - f
  BY <1>1, <1>2, <1>3 DEF f
<1>5. /\ l + n <= z
      /\ s + l < z => f = s + l /\ f + n <= z
      /\ s + l >= z => f = s + l - z /\ f + n <= s
  BY <1>1, <1>2, <1>3, <1>4
<1>6. ASSUME NEW i \in 0..(r.length - 1)
      PROVE  r.ring[(r.start + i) % r.size] = r.given + 1 + i
  <2> DEFINE q == (s + i) % z
  <2>0. i \in Nat /\ i < l + n /\ i < z
    BY <1>1, <1>4, <1>5 DEF l
  <2>1. q = (IF s + i < z THEN s + i ELSE s + i - z) /\ q \in 0..(BulkSize - 1)
    BY <1>1, <2>0, SlotOf DEF s, z
  <2> HIDE DEF q
  <2>2. r.ring[q] = IF q \in f..(f + n - 1) THEN b.taken + 1 + (q - f) ELSE b.ring[q]
    BY <2>1 DEF f
  <2>3. CASE i < l
    <3>1. q \notin f..(f + n - 1)
      BY <1>1, <1>4, <1>5, <2>0, <2>1, <2>3
    <3>2. b.ring[q] = b.given + 1 + i
      <4>1. i \in 0..(b.length - 1)
        BY <1>1, <2>0, <2>3 DEF l
      <4> QED
        BY <4>1 DEF Ordered, q, s, z
    <3> QED
      BY <2>2, <3>1, <3>2 DEF q, s, z
  <2>4. CASE i >= l
    <3>1. q = f + (i - l) /\ q \in f..(f + n - 1)
      BY <1>1, <1>4, <1>5, <2>0, <2>1, <2>4
    <3>2. b.taken + 1 + (q - f) = b.given + 1 + i
      BY <1>1, <1>4, <2>0, <3>1
    <3> QED
      BY <2>2, <3>1, <3>2 DEF q, s, z
  <2> QED
    BY <1>1, <2>0, <2>3, <2>4
<1>7. r.length <= r.size /\ r.given + r.length = r.taken /\ r.start < r.size
  BY <1>1, <1>4, <1>5 DEF s, z, l
<1> QED
  BY <1>6, <1>7 DEF Ordered

(* A write of some of the contiguous cached bytes. *)
LEMMA DrainedOrdered ==
  ASSUME NEW b \in DirRecord, Ordered(b), b.length > 0,
         NEW n \in 1..(Smaller(b.start + b.length, b.size) - b.start), NEW r \in DirRecord,
         r.start = (IF b.length = n THEN 0 ELSE (b.start + n) % b.size),
         r.size = b.size, r.length = b.length - n, r.taken = b.taken,
         r.given = b.given + n, r.ring = b.ring,
         r.orderly <=> b.orderly /\ \A i \in 0..(n - 1) : b.ring[b.start + i] = b.given + 1 + i
  PROVE  Ordered(r)
<1> DEFINE s == b.start
           z == b.size
           l == b.length
<1>1. /\ s \in Nat /\ z \in Nat \ {0} /\ l \in Nat /\ s < z /\ l <= z /\ z <= BulkSize /\ BulkSize \in Nat
      /\ b.given \in Nat /\ b.taken \in Nat /\ b.taken = b.given + l
  BY DirNumbers DEF Ordered
<1>2. n \in Nat /\ n > 0 /\ n <= l /\ s + n <= z
  BY <1>1 DEF Smaller
<1> HIDE DEF s, z, l
<1>3. ASSUME NEW i \in 0..(n - 1) PROVE b.ring[s + i] = b.given + 1 + i
  <2>1. i \in Nat /\ i < z /\ s + i < z /\ i \in 0..(b.length - 1)
    BY <1>1, <1>2 DEF l
  <2>2. (b.start + i) % b.size = s + i
    BY <1>1, <2>1, SlotOf DEF s, z
  <2> QED
    BY <2>1, <2>2 DEF Ordered
<1>4. r.start = IF l = n \/ s + n = z THEN 0 ELSE s + n
  <2>1. CASE l = n
    BY <2>1 DEF l
  <2>2. CASE l # n
    <3>1. n < z
      BY <1>1, <1>2, <2>2
    <3>2. (b.start + n) % b.size = IF s + n < z THEN s + n ELSE s + n - z
      BY <1>1, <1>2, <3>1, SlotOf DEF s, z
    <3> QED
      BY <1>1, <1>2, <2>2, <3>2 DEF l
  <2> QED
    BY <2>1, <2>2
<1>5. r.start \in Nat /\ r.start < r.size /\ r.size = z
  BY <1>1, <1>2, <1>4 DEF z
<1>6. ASSUME NEW j \in 0..(r.length - 1)
      PROVE  r.ring[(r.start + j) % r.size] = r.given + 1 + j
  <2>1. j \in Nat /\ j < l - n /\ j + n \in Nat /\ j + n < l /\ j + n < z /\ l # n /\ j < z
    BY <1>1, <1>2 DEF l
  <2>2. (r.start + j) % r.size = IF r.start + j < z THEN r.start + j ELSE r.start + j - z
    BY <1>1, <1>5, <2>1, SlotOf
  <2>3. (b.start + (j + n)) % b.size = IF s + (j + n) < z THEN s + (j + n) ELSE s + (j + n) - z
    BY <1>1, <2>1, SlotOf DEF s, z
  <2>4. (r.start + j) % r.size = (b.start + (j + n)) % b.size
    BY <1>1, <1>2, <1>4, <1>5, <2>1, <2>2, <2>3
  <2>5. b.ring[(b.start + (j + n)) % b.size] = b.given + 1 + (j + n)
    <3>1. j + n \in 0..(b.length - 1)
      BY <1>1, <2>1 DEF l
    <3> QED
      BY <3>1 DEF Ordered
  <2>6. b.given + 1 + (j + n) = r.given + 1 + j
    BY <1>1, <1>2, <2>1
  <2> QED
    BY <2>4, <2>5, <2>6
<1>7. r.length <= r.size /\ r.given + r.length = r.taken
  BY <1>1, <1>2 DEF z, l
<1>8. r.orderly
  BY <1>3 DEF Ordered, s
<1> QED
  BY <1>5, <1>6, <1>7, <1>8 DEF Ordered


(* The places of poll_copy between reads and writes, as records. *)
LEMMA ReadMovesKeep ==
  ASSUME NEW n, NEW b, DirInv(b, n), b.state = "running", b.pc = "read"
  PROVE  /\ b.taken = n => DirInv([b EXCEPT !.readDone = TRUE], n)
         /\ DirInv([b EXCEPT !.pc = "ping", !.readPending = TRUE], n)
         /\ DirInv([b EXCEPT !.pc = "ping"], n)
<1>1. ASSUME b.taken = n PROVE DirInv([b EXCEPT !.readDone = TRUE], n)
  <2> DEFINE r == [b EXCEPT !.readDone = TRUE]
  <2>1. Alike(r, b) /\ Owes(r, n)
    BY <1>1 DEF DirInv, DirRecord, Alike, Owes
  <2> QED
    BY <2>1, MoveKeeps
<1>2. DirInv([b EXCEPT !.pc = "ping", !.readPending = TRUE], n)
  <2> DEFINE r == [b EXCEPT !.pc = "ping", !.readPending = TRUE]
  <2>1. Alike(r, b) /\ Owes(r, n)
    BY DEF DirInv, DirRecord, Alike, Owes
  <2> QED
    BY <2>1, MoveKeeps
<1>3. DirInv([b EXCEPT !.pc = "ping"], n)
  <2> DEFINE r == [b EXCEPT !.pc = "ping"]
  <2>1. Alike(r, b) /\ Owes(r, n)
    BY DEF DirInv, DirRecord, Alike, Owes
  <2> QED
    BY <2>1, MoveKeeps
<1> QED
  BY <1>1, <1>2, <1>3

LEMMA PingMovesKeep ==
  ASSUME NEW n, NEW b, DirInv(b, n), b.state = "running", b.pc = "write"
  PROVE  /\ DirInv([b EXCEPT !.needPing = FALSE], n)
         /\ DirInv([b EXCEPT !.needPing = FALSE, !.needFlush = TRUE], n)
         /\ DirInv([b EXCEPT !.writePending = TRUE], n)
         /\ DirInv([b EXCEPT !.pc = "flush", !.writePending = @ \/ b.length > 0], n)
<1>1. DirInv([b EXCEPT !.needPing = FALSE], n)
  <2> DEFINE r == [b EXCEPT !.needPing = FALSE]
  <2>1. Alike(r, b) /\ Owes(r, n)
    BY DEF DirInv, DirRecord, Alike, Owes
  <2> QED
    BY <2>1, MoveKeeps
<1>2. DirInv([b EXCEPT !.needPing = FALSE, !.needFlush = TRUE], n)
  <2> DEFINE r == [b EXCEPT !.needPing = FALSE, !.needFlush = TRUE]
  <2>1. Alike(r, b) /\ Owes(r, n)
    BY DEF DirInv, DirRecord, Alike, Owes
  <2> QED
    BY <2>1, MoveKeeps
<1>3. DirInv([b EXCEPT !.writePending = TRUE], n)
  <2> DEFINE r == [b EXCEPT !.writePending = TRUE]
  <2>1. Alike(r, b) /\ Owes(r, n)
    BY DEF DirInv, DirRecord, Alike, Owes
  <2> QED
    BY <2>1, MoveKeeps
<1>4. DirInv([b EXCEPT !.pc = "flush", !.writePending = @ \/ b.length > 0], n)
  <2> DEFINE r == [b EXCEPT !.pc = "flush", !.writePending = @ \/ b.length > 0]
  <2>1. Alike(r, b) /\ Owes(r, n)
    BY DEF DirInv, DirRecord, Alike, Owes
  <2> QED
    BY <2>1, MoveKeeps
<1> QED
  BY <1>1, <1>2, <1>3, <1>4

LEMMA FlushMovesKeep ==
  ASSUME NEW n, NEW b, DirInv(b, n), b.state = "running", b.pc = "flush"
  PROVE  /\ ~b.needFlush => DirInv([b EXCEPT !.pc = "end"], n)
         /\ DirInv([b EXCEPT !.needFlush = FALSE, !.flushed = b.given, !.pc = "end"], n)
         /\ DirInv([b EXCEPT !.pc = "flushing"], n)
<1>1. ASSUME ~b.needFlush PROVE DirInv([b EXCEPT !.pc = "end"], n)
  <2> DEFINE r == [b EXCEPT !.pc = "end"]
  <2>1. Alike(r, b) /\ Owes(r, n)
    BY <1>1 DEF DirInv, DirRecord, Alike, Owes
  <2> QED
    BY <2>1, MoveKeeps
<1>2. DirInv([b EXCEPT !.needFlush = FALSE, !.flushed = b.given, !.pc = "end"], n)
  <2> DEFINE r == [b EXCEPT !.needFlush = FALSE, !.flushed = b.given, !.pc = "end"]
  <2>1. Alike(r, b) /\ Owes(r, n)
    BY DEF DirInv, DirRecord, Alike, Owes
  <2> QED
    BY <2>1, MoveKeeps
<1>3. DirInv([b EXCEPT !.pc = "flushing"], n)
  <2> DEFINE r == [b EXCEPT !.pc = "flushing"]
  <2>1. Alike(r, b) /\ Owes(r, n)
    BY DEF DirInv, DirRecord, Alike, Owes
  <2> QED
    BY <2>1, MoveKeeps
<1> QED
  BY <1>1, <1>2, <1>3

LEMMA EndMovesKeep ==
  ASSUME NEW n, NEW b, DirInv(b, n), b.state = "running", b.pc = "end"
  PROVE  /\ b.readDone /\ b.length = 0 => DirInv([b EXCEPT !.state = "shutting"], n)
         /\ DirInv([b EXCEPT !.pc = "parked"], n)
         /\ DirInv([b EXCEPT !.pc = "read"], n)
<1>1. ASSUME b.readDone /\ b.length = 0 PROVE DirInv([b EXCEPT !.state = "shutting"], n)
  <2> DEFINE r == [b EXCEPT !.state = "shutting"]
  <2>1. Alike(r, b) /\ Owes(r, n)
    BY <1>1 DEF DirInv, DirRecord, Alike, Owes
  <2> QED
    BY <2>1, MoveKeeps
<1>2. DirInv([b EXCEPT !.pc = "parked"], n)
  <2> DEFINE r == [b EXCEPT !.pc = "parked"]
  <2>1. Alike(r, b) /\ Owes(r, n)
    BY DEF DirInv, DirRecord, Alike, Owes
  <2> QED
    BY <2>1, MoveKeeps
<1>3. DirInv([b EXCEPT !.pc = "read"], n)
  <2> DEFINE r == [b EXCEPT !.pc = "read"]
  <2>1. Alike(r, b) /\ Owes(r, n)
    BY DEF DirInv, DirRecord, Alike, Owes
  <2> QED
    BY <2>1, MoveKeeps
<1> QED
  BY <1>1, <1>2, <1>3

LEMMA WakeMovesKeep ==
  ASSUME NEW n, NEW b, DirInv(b, n)
  PROVE  /\ b.state = "running" => DirInv([b EXCEPT !.pc = "write"], n)
         /\ b.state = "running" => DirInv([b EXCEPT !.pc = "read", !.readPending = FALSE, !.writePending = FALSE], n)
         /\ DirInv([b EXCEPT !.needPing = TRUE], n)
         /\ b.state = "shutting" => DirInv([b EXCEPT !.state = "done"], n)
<1>1. ASSUME b.state = "running" PROVE DirInv([b EXCEPT !.pc = "write"], n)
  <2> DEFINE r == [b EXCEPT !.pc = "write"]
  <2>1. Alike(r, b) /\ Owes(r, n)
    BY <1>1 DEF DirInv, DirRecord, Alike, Owes
  <2> QED
    BY <2>1, MoveKeeps
<1>2. ASSUME b.state = "running" PROVE DirInv([b EXCEPT !.pc = "read", !.readPending = FALSE, !.writePending = FALSE], n)
  <2> DEFINE r == [b EXCEPT !.pc = "read", !.readPending = FALSE, !.writePending = FALSE]
  <2>1. Alike(r, b) /\ Owes(r, n)
    BY <1>2 DEF DirInv, DirRecord, Alike, Owes
  <2> QED
    BY <2>1, MoveKeeps
<1>3. DirInv([b EXCEPT !.needPing = TRUE], n)
  <2> DEFINE r == [b EXCEPT !.needPing = TRUE]
  <2>1. Alike(r, b) /\ Owes(r, n)
    BY DEF DirInv, DirRecord, Alike, Owes
  <2> QED
    BY <2>1, MoveKeeps
<1>4. ASSUME b.state = "shutting" PROVE DirInv([b EXCEPT !.state = "done"], n)
  <2> DEFINE r == [b EXCEPT !.state = "done"]
  <2>1. Alike(r, b) /\ Owes(r, n)
    BY <1>4 DEF DirInv, DirRecord, Alike, Owes
  <2> QED
    BY <2>1, MoveKeeps
<1> QED
  BY <1>1, <1>2, <1>3, <1>4

(* park_empty: an empty buffer may change its size. *)
LEMMA ParkedKeeps ==
  ASSUME NEW n, NEW b, DirInv(b, n), b.state = "running", b.pc = "end"
  PROVE  DirInv(Parked(b), n)
<1>1. CASE b.length = 0
  <2> DEFINE r == [Resized(b, IF b.bulk THEN BulkSize ELSE BaseSize)
                     EXCEPT !.bulk = FALSE, !.pc = "parked"]
  <2>1. Parked(b) = r
    BY <1>1 DEF Parked
  <2>2. /\ r \in DirRecord /\ r.start = 0 /\ r.length = b.length /\ r.taken = b.taken
        /\ r.given = b.given /\ r.orderly = b.orderly /\ r.readDone = b.readDone
        /\ r.needFlush = b.needFlush /\ r.flushed = b.flushed /\ r.pc = "parked"
        /\ r.state = b.state
    BY DEF DirInv, DirRecord, Resized
  <2> HIDE DEF r
  <2>3. Ordered(r)
    BY <1>1, <2>2, EmptyOrdered DEF DirInv
  <2>4. Owes(r, n)
    BY <2>2 DEF DirInv, Owes
  <2> QED
    BY <2>1, <2>2, <2>3, <2>4 DEF DirInv
<1>2. CASE b.length # 0
  BY <1>2, EndMovesKeep DEF Parked
<1> QED
  BY <1>1, <1>2

(* A direction that becomes b leaves the other one as it is. *)
LEMMA BecomeKeeps ==
  ASSUME RelayIInv, NEW d \in Dirs, NEW b, DirInv(b, Input[d]), Become(d, b)
  PROVE  RelayIInv'
<1>1. dir' = [dir EXCEPT ![d] = b] /\ relay' = relay /\ dir = [e \in Dirs |-> dir[e]]
  BY DEF Become, RelayIInv
<1>2. \A e \in Dirs : dir'[e] = IF e = d THEN b ELSE dir[e]
  BY <1>1
<1>3. dir' = [e \in Dirs |-> dir'[e]]
  BY <1>1
<1> QED
  BY <1>1, <1>2, <1>3 DEF RelayIInv

LEMMA ReadSomeKeeps ==
  ASSUME RelayIInv, NEW d \in Dirs, ReadSome(d)
  PROVE  RelayIInv'
<1> DEFINE b == Grown(dir[d])
           f == FreeStart(b)
           r(n) == [b EXCEPT
                      !.ring = [i \in DOMAIN @ |-> IF i \in f..(f + n - 1)
                                                   THEN b.taken + 1 + (i - f) ELSE @[i]],
                      !.length = @ + n, !.taken = @ + n, !.bulk = @ \/ n >= BaseSize]
<1>1. PICK n \in 1..(FreeEnd(b) - f) : b.taken + n <= Input[d] /\ Become(d, r(n))
  BY DEF ReadSome
<1>2. /\ dir[d].state = "running" /\ dir[d].pc = "read" /\ ~dir[d].readDone
      /\ dir[d].length < dir[d].size /\ DirInv(dir[d], Input[d]) /\ Input[d] \in Nat
  BY RelayConstants DEF ReadSome, AtDir, RelayIInv
<1>3. /\ DirInv(b, Input[d]) /\ b.length < b.size /\ b.state = "running" /\ b.pc = "read"
      /\ ~b.readDone
  BY <1>2, GrownKeeps
<1> HIDE DEF b
<1>4. /\ b \in DirRecord /\ b.start \in Nat /\ b.length \in Nat /\ b.size \in Nat \ {0}
      /\ b.taken \in Nat /\ b.ring \in [0..(BulkSize - 1) -> Nat] /\ b.start < b.size
  BY <1>3, DirNumbers DEF DirInv, Ordered
<1>5. f \in Nat /\ n \in Nat
  <2>1. f \in 0..(BulkSize - 1) /\ BulkSize \in Nat
    BY <1>3, <1>4, SlotOf, DirNumbers DEF FreeStart
  <2>2. n \in Int
    BY <1>3, <1>4, <2>1 DEF FreeEnd
  <2> QED
    BY <2>1, <2>2
<1> HIDE DEF f
<1> DEFINE g == [i \in 0..(BulkSize - 1) |-> IF i \in f..(f + n - 1)
                                             THEN b.taken + 1 + (i - f) ELSE b.ring[i]]
           l == b.length + n
           t == b.taken + n
           v == b.bulk \/ n >= BaseSize
<1>6. g \in [0..(BulkSize - 1) -> Nat] /\ l \in Nat /\ t \in Nat /\ v \in BOOLEAN
  <2>1. ASSUME NEW i \in 0..(BulkSize - 1)
        PROVE  (IF i \in f..(f + n - 1) THEN b.taken + 1 + (i - f) ELSE b.ring[i]) \in Nat
    <3>1. b.ring[i] \in Nat
      BY <1>4
    <3>2. i \in f..(f + n - 1) => b.taken + 1 + (i - f) \in Nat
      BY <1>4, <1>5
    <3> QED
      BY <3>1, <3>2
  <2> QED
    BY SMTT(25), <1>4, <1>5, <2>1
<1>7. r(n) = [b EXCEPT !.ring = g, !.length = l, !.taken = t, !.bulk = v]
  BY <1>4
<1> DEFINE x == r(n)
<1> HIDE DEF g, r, l, t, v
<1>8. /\ x \in DirRecord /\ x.start = b.start /\ x.size = b.size /\ x.length = l
      /\ x.taken = t /\ x.given = b.given /\ x.orderly = b.orderly /\ x.ring = g
      /\ x.readDone = b.readDone /\ x.needFlush = b.needFlush /\ x.flushed = b.flushed
      /\ x.pc = b.pc /\ x.state = b.state
  BY ZenonT(40), <1>4, <1>6, <1>7 DEF DirRecord
<1> HIDE DEF x
<1>9. \A i \in 0..(BulkSize - 1) : x.ring[i] = IF i \in f..(f + n - 1)
                                               THEN b.taken + 1 + (i - f) ELSE b.ring[i]
  BY <1>8 DEF g
<1>10. Ordered(x)
  BY <1>1, <1>3, <1>4, <1>8, <1>9, FilledOrdered DEF f, l, t, DirInv
<1>11. Owes(x, Input[d])
  BY <1>1, <1>3, <1>8 DEF DirInv, Owes, t
<1> QED
  BY <1>1, <1>8, <1>10, <1>11, BecomeKeeps DEF DirInv, x

LEMMA WriteSomeKeeps ==
  ASSUME RelayIInv, NEW d \in Dirs, WriteSome(d)
  PROVE  RelayIInv'
<1> DEFINE b == dir[d]
           r(n) == [b EXCEPT
                      !.length = @ - n,
                      !.start = IF b.length = n THEN 0 ELSE (@ + n) % b.size,
                      !.given = @ + n,
                      !.orderly = @ /\ \A i \in 0..(n - 1) : b.ring[b.start + i] = b.given + 1 + i,
                      !.needFlush = TRUE]
<1>1. PICK n \in 1..(Smaller(b.start + b.length, b.size) - b.start) : Become(d, r(n))
  BY DEF WriteSome
<1>2. /\ b.state = "running" /\ b.pc = "write" /\ b.length > 0 /\ DirInv(b, Input[d])
      /\ Input[d] \in Nat
  BY RelayConstants DEF WriteSome, AtDir, RelayIInv
<1> HIDE DEF b
<1>3. /\ b \in DirRecord /\ b.start \in Nat /\ b.length \in Nat /\ b.size \in Nat \ {0}
      /\ b.given \in Nat /\ b.start < b.size /\ b.length <= b.size
  BY <1>2, DirNumbers DEF DirInv, Ordered
<1>4. n \in Nat /\ n <= b.length /\ b.start + n <= b.size /\ b.length - n \in Nat
  BY <1>3 DEF Smaller
<1> DEFINE s == IF b.length = n THEN 0 ELSE (b.start + n) % b.size
           o == b.orderly /\ \A i \in 0..(n - 1) : b.ring[b.start + i] = b.given + 1 + i
           l == b.length - n
           t == b.given + n
<1>5. s \in Nat
  <2>1. CASE b.length = n
    BY <2>1
  <2>2. CASE b.length # n
    <3>1. n < b.size
      BY <1>3, <1>4, <2>2
    <3>2. (b.start + n) % b.size \in 0..(BulkSize - 1)
      BY <1>3, <1>4, <3>1, SlotOf
    <3> QED
      BY <2>2, <3>2, DirNumbers
  <2> QED
    BY <2>1, <2>2
<1>6. o \in BOOLEAN /\ l \in Nat /\ t \in Nat
  BY <1>3, <1>4
<1>7. r(n) = [b EXCEPT !.length = l, !.start = s, !.given = t, !.orderly = o, !.needFlush = TRUE]
  BY <1>3
<1> DEFINE x == r(n)
<1> HIDE DEF s, o, r, l, t
<1>8. /\ x \in DirRecord /\ x.start = s /\ x.size = b.size /\ x.length = l
      /\ x.taken = b.taken /\ x.given = t /\ x.orderly = o /\ x.ring = b.ring
      /\ x.readDone = b.readDone /\ x.needFlush = TRUE /\ x.flushed = b.flushed
      /\ x.pc = b.pc /\ x.state = b.state
  BY ZenonT(40), <1>3, <1>5, <1>6, <1>7 DEF DirRecord
<1> HIDE DEF x
<1>9. x.orderly <=> b.orderly /\ \A i \in 0..(n - 1) : b.ring[b.start + i] = b.given + 1 + i
  BY <1>8 DEF o
<1>10. x.start = IF b.length = n THEN 0 ELSE (b.start + n) % b.size
  BY <1>8 DEF s
<1>11. Ordered(x)
  BY <1>1, <1>2, <1>3, <1>8, <1>9, <1>10, DrainedOrdered DEF DirInv, l, t
<1>12. Owes(x, Input[d])
  BY <1>2, <1>8 DEF DirInv, Owes
<1> QED
  BY <1>1, <1>8, <1>11, <1>12, BecomeKeeps DEF DirInv, x

(* The other steps of poll_copy, the ping timer and the writer's shutdown. *)
LEMMA OtherMovesKeep ==
  ASSUME RelayIInv, NEW d \in Dirs,
         \/ ReadEnd(d) \/ ReadLeave(d) \/ WritePing(d) \/ WriteLeave(d) \/ FlushDir(d)
         \/ LoopEnd(d) \/ Poll(d) \/ PingDue(d) \/ ShutdownWriter(d)
  PROVE  RelayIInv'
<1> DEFINE n == Input[d]
<1>1. DirInv(dir[d], n)
  BY DEF RelayIInv
<1>2. CASE ReadEnd(d) \/ ReadLeave(d)
  <2>1. dir[d].state = "running" /\ dir[d].pc = "read"
    BY <1>2 DEF ReadEnd, ReadLeave, AtDir
  <2>2. /\ DirInv(Grown(dir[d]), n) /\ Grown(dir[d]).state = "running" /\ Grown(dir[d]).pc = "read"
        /\ Grown(dir[d]).taken = dir[d].taken
    BY <1>1, <2>1, GrownKeeps
  <2> QED
    BY <1>1, <1>2, <2>1, <2>2, ReadMovesKeep, BecomeKeeps DEF ReadEnd, ReadLeave
<1>3. CASE WritePing(d)
  <2> DEFINE b == [dir[d] EXCEPT !.pc = "write"]
  <2>1. dir[d].state = "running"
    BY <1>3 DEF WritePing, AtDir
  <2>2. DirInv(b, n)
    BY <1>1, <2>1, WakeMovesKeep
  <2>3. b.state = "running" /\ b.pc = "write"
    BY <1>1, <2>1 DEF DirInv, DirRecord
  <2>4. \/ Become(d, b)
        \/ Become(d, [b EXCEPT !.needPing = FALSE])
        \/ Become(d, [b EXCEPT !.needPing = FALSE, !.needFlush = TRUE])
        \/ Become(d, [b EXCEPT !.writePending = TRUE])
    BY <1>3 DEF WritePing
  <2> HIDE DEF b
  <2> QED
    BY <2>2, <2>3, <2>4, PingMovesKeep, BecomeKeeps
<1>4. CASE WriteLeave(d)
  <2>1. dir[d].state = "running" /\ dir[d].pc = "write"
    BY <1>4 DEF WriteLeave, AtDir
  <2> QED
    BY <1>1, <1>4, <2>1, PingMovesKeep, BecomeKeeps DEF WriteLeave
<1>5. CASE FlushDir(d)
  <2>1. dir[d].state = "running" /\ dir[d].pc = "flush"
    BY <1>5 DEF FlushDir, AtDir
  <2> QED
    BY <1>1, <1>5, <2>1, FlushMovesKeep, BecomeKeeps DEF FlushDir
<1>6. CASE LoopEnd(d)
  <2>1. dir[d].state = "running" /\ dir[d].pc = "end"
    BY <1>6 DEF LoopEnd, AtDir
  <2>2. \/ dir[d].readDone /\ dir[d].length = 0 /\ Become(d, [dir[d] EXCEPT !.state = "shutting"])
        \/ Become(d, Parked(dir[d]))
        \/ Become(d, [dir[d] EXCEPT !.pc = "read"])
    BY <1>6 DEF LoopEnd
  <2> QED
    BY <1>1, <2>1, <2>2, EndMovesKeep, ParkedKeeps, BecomeKeeps
<1>7. CASE Poll(d) \/ PingDue(d)
  <2>1. dir[d].state = "running"
    BY <1>7 DEF Poll, PingDue, AtDir
  <2> QED
    BY <1>1, <1>7, <2>1, WakeMovesKeep, BecomeKeeps DEF Poll, PingDue
<1>8. CASE ShutdownWriter(d)
  BY <1>1, <1>8, WakeMovesKeep, BecomeKeeps DEF ShutdownWriter
<1> QED
  BY <1>2, <1>3, <1>4, <1>5, <1>6, <1>7, <1>8

(* A new CopyBuffer, with or without an initial flush. *)
LEMMA FreshKeeps ==
  ASSUME NEW d \in Dirs
  PROVE  /\ DirInv(Fresh(d), Input[d])
         /\ DirInv([Fresh(d) EXCEPT !.needFlush = TRUE], Input[d])
<1> DEFINE n == Input[d]
           r == Fresh(d)
<1>1. n \in Nat /\ BaseSize \in Nat \ {0} /\ BulkSize \in Nat
  BY RelayConstants
<1>2. /\ r \in DirRecord /\ r.start = 0 /\ r.length = 0 /\ r.size = BaseSize
      /\ r.taken = 0 /\ r.given = 0 /\ r.flushed = 0 /\ r.orderly = TRUE /\ r.readDone = FALSE
      /\ r.needFlush = FALSE /\ r.pc = "read" /\ r.state = "running"
  BY DEF Fresh, DirRecord
<1> HIDE DEF r
<1>3. Ordered(r)
  BY <1>1, <1>2 DEF Ordered
<1>4. Owes(r, n)
  BY <1>1, <1>2 DEF Owes
<1>5. DirInv(r, n)
  BY <1>2, <1>3, <1>4 DEF DirInv
<1>6. DirInv([r EXCEPT !.needFlush = TRUE], n)
  <2> DEFINE q == [r EXCEPT !.needFlush = TRUE]
  <2>1. Alike(q, r) /\ Owes(q, n)
    BY <1>2, <1>4 DEF DirRecord, Alike, Owes
  <2> QED
    BY <1>5, <2>1, MoveKeeps
<1> QED
  BY <1>5, <1>6 DEF r

(* RelaySafe for any input lengths and buffer sizes: however reads, partial
   writes, wraps, growth and parking of the circular buffer alternate, each
   direction's bytes are written once and in order, an idle direction is
   flushed, and a writer is shut down only behind all of its bytes. *)
THEOREM RelayAlwaysSafe == RelaySafetySpec => []RelaySafe
<1>1. RelayInit => RelayIInv
  <2> SUFFICES ASSUME RelayInit PROVE RelayIInv
    OBVIOUS
  <2>1. /\ relay = "copying" /\ dir = [d \in Dirs |-> dir[d]]
        /\ \A d \in Dirs : dir[d] \in {Fresh(d), [Fresh(d) EXCEPT !.needFlush = TRUE]}
    BY DEF RelayInit
  <2> QED
    BY <2>1, FreshKeeps DEF RelayIInv
<1>2. RelayIInv /\ [RelayNext]_relayVars => RelayIInv'
  <2> SUFFICES ASSUME RelayIInv, [RelayNext]_relayVars PROVE RelayIInv'
    OBVIOUS
  <2>1. ASSUME dir' = Gone, relay' \in {"complete", "expired", "failed"} PROVE RelayIInv'
    BY <2>1, FreshKeeps DEF RelayIInv, Gone
  <2>2. ASSUME NEW d \in Dirs, CopyStep(d) PROVE RelayIInv'
    BY <2>2, ReadSomeKeeps, WriteSomeKeeps, OtherMovesKeep DEF CopyStep
  <2>3. ASSUME NEW d \in Dirs, PingDue(d) \/ ShutdownWriter(d) PROVE RelayIInv'
    BY <2>3, OtherMovesKeep
  <2>4. CASE UNCHANGED relayVars
    BY <2>4 DEF RelayIInv, relayVars
  <2> QED
    BY <2>1, <2>2, <2>3, <2>4 DEF RelayNext, Fails, HalfCloseExpires, Complete
<1>3. RelayIInv => RelaySafe
  <2> SUFFICES ASSUME RelayIInv PROVE RelaySafe
    OBVIOUS
  <2>1. ASSUME NEW d \in Dirs
        PROVE  /\ DirInv(dir[d], Input[d]) /\ dir[d].given \in Nat /\ dir[d].length \in Nat
               /\ dir[d].size \in {BaseSize, BulkSize} /\ dir[d].taken \in Nat
    BY DirNumbers DEF RelayIInv, DirInv
  <2>2. ASSUME NEW d \in Dirs PROVE dir[d].given <= dir[d].taken
    BY <2>1 DEF DirInv, Ordered
  <2>3. RelayTypeOK
    BY <2>1, <2>2 DEF RelayIInv, RelayTypeOK, DirInv, Ordered, Owes
  <2>4. BytesInOrder
    BY DEF RelayIInv, BytesInOrder, DirInv, Ordered
  <2>5. IdleMeansFlushed
    BY DEF RelayIInv, IdleMeansFlushed, DirInv, Owes
  <2>6. ShutdownBehindData
    <3> SUFFICES ASSUME NEW d \in Dirs, dir[d].state # "running"
                 PROVE  dir[d].taken = Input[d] /\ dir[d].flushed = Input[d]
      BY DEF ShutdownBehindData
    <3>1. dir[d].length = 0 /\ dir[d].taken = Input[d] /\ dir[d].flushed = dir[d].given
      BY <2>1 DEF DirInv, Owes
    <3>2. dir[d].given + dir[d].length = dir[d].taken
      BY <2>1 DEF DirInv, Ordered
    <3> QED
      BY <2>1, <3>1, <3>2
  <2> QED
    BY <2>3, <2>4, <2>5, <2>6 DEF RelaySafe
<1> QED
  BY <1>1, <1>2, <1>3, PTL DEF RelaySafetySpec

-----------------------------------------------------------------------------
(* Xhttp.  The records of a session, and the order of its packets: q is what the
   channel holds, u the reader, a the packets the channel was ever sent. *)
Packet == [seq : Nat, from : AllPosts]
SessRecord ==
    [queue : Seq(Packet), rx : {"free", "taken", "closed"}, connected : BOOLEAN, idle : Nat,
     reaper : BOOLEAN]
ReaderRecord == [next : Nat, pending : SUBSET Packet, out : Seq(AllPosts), failed : BOOLEAN]
PostRecord == [pc : {"new", "body", "send", "ok", "err", "gone"}, s : Nat, n : Nat]

IsFirst(a, n, x) ==
    \E k \in 1..Len(a) : a[k] = x /\ x.seq = n /\ \A j \in 1..(k - 1) : a[j].seq # n

(* The channel holds the end of what it was sent; what it no longer holds was
   handed out or waits; what was handed out or waits was the first of its number. *)
InOrder(q, u, a) ==
    /\ Len(q) <= Len(a) /\ \A i \in 1..Len(q) : q[i] = a[Len(a) - Len(q) + i]
    /\ Len(u.out) = u.next
    /\ \A k \in 1..u.next : \E x \in Packet : IsFirst(a, k - 1, x) /\ u.out[k] = x.from
    /\ \A p \in u.pending : p.seq >= u.next /\ IsFirst(a, p.seq, p)
    /\ \A j \in 1..(Len(a) - Len(q)) :
         a[j].seq < u.next \/ \E p \in u.pending : p.seq = a[j].seq

Sound(x, u, a) ==
    /\ x \in SessRecord /\ u \in ReaderRecord /\ a \in Seq(Packet)
    /\ x.connected <=> x.rx # "free"
    /\ x.rx = "free" => u = NewReader
    /\ ~u.failed => InOrder(x.queue, u, a)

SessionsSound ==
    /\ sess \in [XhttpSessions -> SessRecord] /\ up \in [XhttpSessions -> ReaderRecord]
    /\ accepted \in [XhttpSessions -> Seq(Packet)]
    /\ \A s \in XhttpSessions : Sound(sess[s], up[s], accepted[s])

(* A session that does not exist yet is free and will have a reaper. *)
MapSound ==
    /\ made \in 0..MaxXhttpSessions /\ current \in 0..made
    /\ \A s \in XhttpSessions : s > made => sess[s].reaper /\ sess[s].rx = "free"
    /\ MapHonest

PostsSound ==
    /\ upload \in UploadPlans /\ post \in [Posts -> PostRecord]
    /\ \A r \in Posts : post[r].pc \in {"body", "send"} =>
         post[r].s \in 1..made /\ post[r].n < Len(upload[r])

XhttpIInv == SessionsSound /\ MapSound /\ PostsSound

(* FirstOf is the packet that is first. *)
LEMMA FirstIsOne ==
  ASSUME NEW s, NEW n, NEW x, accepted[s] \in Seq(Packet), IsFirst(accepted[s], n, x)
  PROVE  FirstOf(s, n) = x
<1> DEFINE a == accepted[s]
           FirstAt(k) == a[k].seq = n /\ \A j \in 1..(k - 1) : a[j].seq # n
<1>1. PICK k \in 1..Len(a) : a[k] = x /\ FirstAt(k)
  BY DEF IsFirst
<1>2. DOMAIN a = 1..Len(a) /\ Len(a) \in Nat
  BY LenProperties
<1>3. \A h \in DOMAIN a : FirstAt(h) => h = k
  BY <1>1, <1>2
<1>4. (CHOOSE h \in DOMAIN a : FirstAt(h)) = k
  BY <1>1, <1>2, <1>3
<1> QED
  BY <1>1, <1>4 DEF FirstOf

(* A packet appended to the channel and to its history. *)
LEMMA AppendInOrder ==
  ASSUME NEW q \in Seq(Packet), NEW a \in Seq(Packet), NEW u \in ReaderRecord, InOrder(q, u, a),
         NEW p \in Packet
  PROVE  InOrder(Append(q, p), u, Append(a, p))
<1> DEFINE c == Append(q, p)
           b == Append(a, p)
<1>1. /\ Len(q) \in Nat /\ Len(a) \in Nat /\ u.next \in Nat
      /\ Len(c) = Len(q) + 1 /\ Len(b) = Len(a) + 1
      /\ \A i \in 1..Len(q) : c[i] = q[i]
      /\ \A i \in 1..Len(a) : b[i] = a[i]
      /\ c[Len(q) + 1] = p /\ b[Len(a) + 1] = p
  BY AppendProperties, LenProperties DEF ReaderRecord
<1> HIDE DEF c, b
<1>2. ASSUME NEW n, NEW x, IsFirst(a, n, x) PROVE IsFirst(b, n, x)
  <2>1. PICK k \in 1..Len(a) : a[k] = x /\ x.seq = n /\ \A j \in 1..(k - 1) : a[j].seq # n
    BY <1>2 DEF IsFirst
  <2>2. k \in 1..Len(b) /\ b[k] = x /\ \A j \in 1..(k - 1) : j \in 1..Len(a)
    BY <1>1, <2>1
  <2>3. \A j \in 1..(k - 1) : b[j].seq # n
    BY <1>1, <2>1, <2>2
  <2> QED
    BY <2>1, <2>2, <2>3 DEF IsFirst
<1>3. Len(c) <= Len(b) /\ \A i \in 1..Len(c) : c[i] = b[Len(b) - Len(c) + i]
  <2>1. Len(q) <= Len(a) /\ Len(b) - Len(c) = Len(a) - Len(q)
    BY <1>1 DEF InOrder
  <2> SUFFICES ASSUME NEW i \in 1..Len(c) PROVE c[i] = b[Len(a) - Len(q) + i]
    BY <1>1, <2>1
  <2>2. CASE i = Len(q) + 1
    BY <1>1, <2>1, <2>2
  <2>3. CASE i # Len(q) + 1
    <3>1. i \in 1..Len(q) /\ Len(a) - Len(q) + i \in 1..Len(a)
      BY <1>1, <2>1, <2>3
    <3> QED
      BY <1>1, <3>1 DEF InOrder
  <2> QED
    BY <2>2, <2>3
<1>4. \A j \in 1..(Len(b) - Len(c)) : b[j] = a[j] /\ j \in 1..(Len(a) - Len(q))
  BY <1>1 DEF InOrder
<1> QED
  BY <1>2, <1>3, <1>4 DEF InOrder, c, b

(* The waiting packet whose turn it is. *)
LEMMA DeliveredInOrder ==
  ASSUME NEW q \in Seq(Packet), NEW a \in Seq(Packet), NEW u \in ReaderRecord, InOrder(q, u, a),
         NEW p \in Packet, p.seq = u.next, IsFirst(a, p.seq, p)
  PROVE  /\ InOrder(q, Delivered(u, p), a) /\ Delivered(u, p) \in ReaderRecord
         /\ Delivered(u, p).failed = u.failed
<1> DEFINE v == Delivered(u, p)
<1>1. /\ u.next \in Nat /\ u.out \in Seq(AllPosts) /\ u.pending \in SUBSET Packet /\ p.from \in AllPosts
      /\ Len(u.out) = u.next
  BY DEF ReaderRecord, Packet, InOrder
<1> DEFINE o == Append(u.out, p.from)
           m == u.pending \ {p}
           n == u.next + 1
<1>2. /\ n \in Nat /\ m \in SUBSET Packet /\ o \in Seq(AllPosts) /\ Len(o) = u.next + 1 /\ o[u.next + 1] = p.from
      /\ \A k \in 1..u.next : o[k] = u.out[k]
  BY <1>1, AppendProperties
<1>2a. v = [u EXCEPT !.next = n, !.out = o, !.pending = m]
  BY DEF Delivered, ReaderRecord
<1> HIDE DEF o, m, n, v
<1>2b. /\ v \in ReaderRecord /\ v.next = n /\ v.out = o /\ v.pending = m
       /\ v.failed = u.failed
  BY <1>1, <1>2, <1>2a DEF ReaderRecord
<1>3. /\ v \in ReaderRecord /\ v.next = u.next + 1 /\ v.out = o /\ v.pending = u.pending \ {p}
      /\ v.failed = u.failed
  BY <1>2b DEF m, n
<1>4. \A k \in 1..v.next : \E x \in Packet : IsFirst(a, k - 1, x) /\ v.out[k] = x.from
  <2> SUFFICES ASSUME NEW k \in 1..v.next
               PROVE  \E x \in Packet : IsFirst(a, k - 1, x) /\ v.out[k] = x.from
    OBVIOUS
  <2>1. CASE k = u.next + 1
    <3>1. k - 1 = p.seq /\ v.out[k] = p.from
      BY <1>1, <1>2, <1>3, <2>1
    <3> QED
      BY <3>1
  <2>2. CASE k # u.next + 1
    <3>1. k \in 1..u.next /\ v.out[k] = u.out[k]
      BY <1>1, <1>2, <1>3, <2>2
    <3> QED
      BY <3>1 DEF InOrder
  <2> QED
    BY <2>1, <2>2
<1>5. ASSUME NEW z \in v.pending PROVE z.seq >= v.next /\ IsFirst(a, z.seq, z)
  <2>1. z \in u.pending /\ z # p /\ z.seq \in Nat /\ z.seq >= u.next /\ IsFirst(a, z.seq, z)
    BY <1>1, <1>3 DEF InOrder, Packet
  <2>2. z.seq # p.seq
    BY <2>1 DEF IsFirst
  <2> QED
    BY <1>1, <1>3, <2>1, <2>2
<1>6. ASSUME NEW j \in 1..(Len(a) - Len(q))
      PROVE  a[j].seq < v.next \/ \E z \in v.pending : z.seq = a[j].seq
  <2>1. j \in 1..Len(a) /\ a[j].seq \in Nat
    <3>1. Len(a) \in Nat /\ Len(q) \in Nat /\ j \in 1..Len(a)
      BY LenProperties
    <3>2. a[j] \in Packet
      BY <3>1, ElementOfSeq
    <3> QED
      BY <3>1, <3>2 DEF Packet
  <2> QED
    BY <1>1, <1>3, <2>1 DEF InOrder
<1>7. InOrder(q, v, a)
  BY <1>2, <1>3, <1>4, <1>5, <1>6 DEF InOrder
<1> QED
  BY <1>3, <1>7 DEF v

(* The packet at the head of the channel is the next one of the history. *)
LEMMA HeadIsNext ==
  ASSUME NEW q \in Seq(Packet), NEW a \in Seq(Packet), NEW u, InOrder(q, u, a), q # <<>>
  PROVE  /\ Head(q) \in Packet /\ Head(q).seq \in Nat
         /\ Len(a) - Len(q) + 1 \in 1..Len(a) /\ a[Len(a) - Len(q) + 1] = Head(q)
<1>1. Len(q) \in Nat /\ Len(a) \in Nat /\ Len(q) > 0 /\ Head(q) = q[1] /\ Head(q) \in Packet
  BY LenProperties, EmptySeq, HeadTailProperties
<1>2. Len(q) <= Len(a) /\ q[1] = a[Len(a) - Len(q) + 1]
  BY <1>1 DEF InOrder
<1> QED
  BY <1>1, <1>2 DEF Packet

(* It leaves the channel when it was handed out or waits, or one with its number. *)
LEMMA PopInOrder ==
  ASSUME NEW q \in Seq(Packet), NEW a \in Seq(Packet), NEW u, InOrder(q, u, a), q # <<>>,
         Head(q).seq < u.next \/ \E p \in u.pending : p.seq = Head(q).seq
  PROVE  InOrder(Tail(q), u, a)
<1> DEFINE t == Tail(q)
<1>1. /\ Len(q) \in Nat /\ Len(a) \in Nat /\ Len(t) = Len(q) - 1 /\ Len(q) > 0
      /\ \A i \in 1..Len(t) : t[i] = q[i + 1]
  BY LenProperties, EmptySeq, HeadTailProperties
<1> HIDE DEF t
<1>2. Len(q) <= Len(a) /\ \A i \in 1..Len(q) : q[i] = a[Len(a) - Len(q) + i]
  BY DEF InOrder
<1>3. ASSUME NEW i \in 1..Len(t) PROVE t[i] = a[Len(a) - Len(t) + i]
  <2>1. i + 1 \in 1..Len(q) /\ Len(a) - Len(q) + (i + 1) = Len(a) - Len(t) + i
    BY <1>1
  <2>2. t[i] = q[i + 1] /\ q[i + 1] = a[Len(a) - Len(q) + (i + 1)]
    BY <1>1, <1>2, <2>1
  <2> QED
    BY <2>1, <2>2
<1>4. ASSUME NEW j \in 1..(Len(a) - Len(t))
      PROVE  a[j].seq < u.next \/ \E p \in u.pending : p.seq = a[j].seq
  <2>1. CASE j = Len(a) - Len(q) + 1
    BY <2>1, HeadIsNext
  <2>2. CASE j # Len(a) - Len(q) + 1
    <3>1. j \in 1..(Len(a) - Len(q))
      BY <1>1, <1>2, <2>2
    <3> QED
      BY <3>1 DEF InOrder
  <2> QED
    BY <2>1, <2>2
<1>5. Len(t) <= Len(a)
  BY <1>1, <1>2
<1> QED
  BY <1>3, <1>4, <1>5 DEF InOrder, t

(* A packet from the channel: delivered, a duplicate, too many, or kept. *)
LEMMA ReceivedInOrder ==
  ASSUME NEW q \in Seq(Packet), NEW a \in Seq(Packet), NEW u \in ReaderRecord, InOrder(q, u, a),
         q # <<>>, \A p \in u.pending : p.seq # u.next
  PROVE  LET v == Received(u, Head(q))
         IN  v \in ReaderRecord /\ (v.failed \/ InOrder(Tail(q), v, a))
<1> DEFINE p == Head(q)
           m == Len(a) - Len(q)
           v == Received(u, p)
<1>1. /\ p \in Packet /\ p.seq \in Nat /\ m + 1 \in 1..Len(a) /\ a[m + 1] = p /\ u.next \in Nat
      /\ u.pending \in SUBSET Packet /\ \A z \in u.pending : z.seq \in Nat /\ z.seq > u.next
  <2>1. \A z \in u.pending : z \in Packet /\ z.seq \in Nat /\ z.seq >= u.next
    BY DEF InOrder, ReaderRecord, Packet
  <2> QED
    BY <2>1, HeadIsNext DEF ReaderRecord
<1>2. \A j \in 1..m : a[j].seq < u.next \/ \E z \in u.pending : z.seq = a[j].seq
  BY DEF InOrder
<1>3. m \in Nat
  <2>1. Len(q) \in Nat /\ Len(a) \in Nat /\ Len(q) <= Len(a)
    BY LenProperties DEF InOrder
  <2> QED
    BY <2>1
<1> HIDE DEF p, m
<1>4. ASSUME p.seq >= u.next, \A z \in u.pending : z.seq # p.seq PROVE IsFirst(a, p.seq, p)
  <2>1. ASSUME NEW j \in 1..m PROVE a[j].seq # p.seq
    BY <1>1, <1>2, <1>4
  <2> DEFINE k == m + 1
  <2>2. k \in 1..Len(a) /\ a[k] = p /\ \A j \in 1..(k - 1) : j \in 1..m
    BY <1>1, <1>3
  <2> HIDE DEF k
  <2>3. \A j \in 1..(k - 1) : a[j].seq # p.seq
    BY <2>1, <2>2
  <2> QED
    BY <2>2, <2>3 DEF IsFirst
<1>5. CASE p.seq = u.next
  <2>1. v = Delivered(u, p)
    BY <1>5 DEF Received
  <2>2. IsFirst(a, p.seq, p)
    BY <1>1, <1>4, <1>5
  <2>3. InOrder(q, v, a) /\ v \in ReaderRecord
    BY <1>1, <1>5, <2>1, <2>2, DeliveredInOrder
  <2>4. p.seq < v.next
    BY <1>1, <1>5, <2>1 DEF Delivered, ReaderRecord
  <2> HIDE DEF v
  <2>5. InOrder(Tail(q), v, a)
    BY <2>3, <2>4, PopInOrder DEF p
  <2> QED
    BY <2>3, <2>5 DEF v, p
<1>6. CASE p.seq < u.next \/ \E z \in u.pending : z.seq = p.seq
  <2>1. v = u
    BY <1>1, <1>6 DEF Received
  <2>2. InOrder(Tail(q), u, a)
    BY <1>6, PopInOrder DEF p
  <2> QED
    BY <2>1, <2>2 DEF p
<1>7. CASE /\ p.seq > u.next /\ ~\E z \in u.pending : z.seq = p.seq
  <2>1. CASE Cardinality(u.pending) >= MaxBuffered
    <3>1. v = [u EXCEPT !.failed = TRUE]
      BY <1>1, <1>7, <2>1 DEF Received
    <3> QED
      BY <3>1 DEF ReaderRecord, p
  <2>2. CASE ~(Cardinality(u.pending) >= MaxBuffered)
    <3> DEFINE w == u.pending \cup {p}
    <3>1. v = [u EXCEPT !.pending = w]
      BY <1>1, <1>7, <2>2 DEF Received
    <3>2. w \in SUBSET Packet
      BY <1>1
    <3> HIDE DEF w
    <3>3. v \in ReaderRecord /\ v.next = u.next /\ v.out = u.out /\ v.pending = w
      BY <3>1, <3>2 DEF ReaderRecord
    <3> HIDE DEF v
    <3>4. IsFirst(a, p.seq, p)
      BY <1>1, <1>4, <1>7
    <3>5. ASSUME NEW z \in w PROVE z.seq >= u.next /\ IsFirst(a, z.seq, z)
      <4>1. CASE z = p
        BY <1>1, <1>7, <3>4, <4>1
      <4>2. CASE z \in u.pending
        BY <4>2 DEF InOrder
      <4> QED
        BY <4>1, <4>2 DEF w
    <3>6. u.pending \subseteq w /\ p \in w
      BY DEF w
    <3>7. InOrder(q, v, a)
      BY <3>3, <3>5, <3>6 DEF InOrder
    <3>8. InOrder(Tail(q), v, a)
      BY <3>3, <3>6, <3>7, PopInOrder DEF p
    <3> QED
      BY <3>3, <3>8 DEF v, p
  <2> QED
    BY <2>1, <2>2
<1> QED
  BY <1>1, <1>5, <1>6, <1>7

LEMMA NewIsInOrder ==
  NewReader \in ReaderRecord /\ InOrder(<<>>, NewReader, <<>>) /\ <<>> \in Seq(Packet)
  /\ ~NewReader.failed
<1>1. /\ <<>> \in Seq(Packet) /\ <<>> \in Seq(AllPosts) /\ Len(<<>>) = 0
  BY EmptySeq
<1>2. NewReader \in ReaderRecord
  BY <1>1 DEF NewReader, ReaderRecord
<1>3. /\ NewReader.next = 0 /\ NewReader.pending = {} /\ NewReader.out = <<>>
      /\ NewReader.failed = FALSE
  BY DEF NewReader
<1> QED
  BY <1>1, <1>2, <1>3 DEF InOrder

(* A step that changes one session. *)
LEMMA OneSession ==
  ASSUME SessionsSound, NEW s \in XhttpSessions, NEW x, NEW u, NEW a,
         Sound(x, u, a), sess' = [sess EXCEPT ![s] = x], up' = [up EXCEPT ![s] = u],
         accepted' = [accepted EXCEPT ![s] = a]
  PROVE  SessionsSound' /\ \A z \in XhttpSessions : sess'[z] = IF z = s THEN x ELSE sess[z]
<1>1. x \in SessRecord /\ u \in ReaderRecord /\ a \in Seq(Packet)
  BY DEF Sound
<1>2. /\ \A z \in XhttpSessions : sess'[z] = IF z = s THEN x ELSE sess[z]
      /\ \A z \in XhttpSessions : up'[z] = IF z = s THEN u ELSE up[z]
      /\ \A z \in XhttpSessions : accepted'[z] = IF z = s THEN a ELSE accepted[z]
  BY DEF SessionsSound
<1>3. /\ sess' \in [XhttpSessions -> SessRecord] /\ up' \in [XhttpSessions -> ReaderRecord]
      /\ accepted' \in [XhttpSessions -> Seq(Packet)]
  BY <1>1 DEF SessionsSound
<1>4. \A z \in XhttpSessions : Sound(sess'[z], up'[z], accepted'[z])
  BY <1>2 DEF SessionsSound
<1> QED
  BY <1>2, <1>3, <1>4 DEF SessionsSound

(* The same when neither the reader nor the history changes. *)
LEMMA SessionMoves ==
  ASSUME SessionsSound, UNCHANGED <<up, accepted>>, NEW s \in XhttpSessions, NEW x,
         Sound(x, up[s], accepted[s]), sess' = [sess EXCEPT ![s] = x]
  PROVE  SessionsSound' /\ \A z \in XhttpSessions : sess'[z] = IF z = s THEN x ELSE sess[z]
<1> DEFINE u == up[s]
           a == accepted[s]
<1>1. up' = [up EXCEPT ![s] = u] /\ accepted' = [accepted EXCEPT ![s] = a] /\ Sound(x, u, a)
  BY DEF SessionsSound
<1> HIDE DEF u, a
<1> QED
  BY <1>1, OneSession

(* touch_session and the passing of time change nothing that matters here. *)
LEMMA IdleMoves ==
  ASSUME SessionsSound, UNCHANGED <<up, accepted>>, NEW s \in XhttpSessions, NEW i \in Nat,
         sess' = [sess EXCEPT ![s].idle = i]
  PROVE  /\ SessionsSound'
         /\ \A z \in XhttpSessions : sess'[z].rx = sess[z].rx /\ sess'[z].reaper = sess[z].reaper
<1> DEFINE x == [sess[s] EXCEPT !.idle = i]
<1>1. sess' = [sess EXCEPT ![s] = x] /\ sess[s] \in SessRecord /\ Sound(sess[s], up[s], accepted[s])
  BY DEF SessionsSound
<1>2. /\ x \in SessRecord /\ x.queue = sess[s].queue /\ x.rx = sess[s].rx
      /\ x.connected = sess[s].connected /\ x.reaper = sess[s].reaper
  BY <1>1 DEF SessRecord
<1> HIDE DEF x
<1>3. Sound(x, up[s], accepted[s])
  BY <1>1, <1>2 DEF Sound
<1>4. SessionsSound' /\ \A z \in XhttpSessions : sess'[z] = IF z = s THEN x ELSE sess[z]
  BY <1>1, <1>3, SessionMoves
<1> QED
  BY <1>2, <1>4

LEMMA SessionsStay ==
  ASSUME SessionsSound, UNCHANGED <<sess, up, accepted>> PROVE SessionsSound'
  BY DEF SessionsSound

(* The map as it is, or with a new session. *)
LEMMA MapMoves ==
  ASSUME MapSound, UNCHANGED <<current, made, reaped>>,
         \A z \in XhttpSessions : sess'[z].rx = sess[z].rx /\ sess'[z].reaper = sess[z].reaper
  PROVE  MapSound'
<1>1. current \in 0..made /\ made \in 0..MaxXhttpSessions
      /\ \A z \in SessionCreated : z \in XhttpSessions
      /\ SessionCreated' = SessionCreated
  BY XhttpBounds DEF MapSound, SessionCreated, XhttpSessions
<1>2. current # 0 => current \in XhttpSessions
  BY <1>1, XhttpBounds DEF XhttpSessions
<1>3. MapHonest'
  <2>1. current' # 0 => sess'[current'].reaper /\ sess'[current'].rx # "closed"
    BY <1>2 DEF MapSound, MapHonest
  <2>2. \A z \in 1..made : current # z => z \in reaped \/ sess'[z].rx = "closed"
    BY <1>1 DEF MapSound, MapHonest, SessionCreated
  <2>3. made' = made /\ current' = current /\ reaped' = reaped
    OBVIOUS
  <2> QED
    BY <2>1, <2>2, <2>3 DEF MapHonest, SessionCreated
<1> QED
  BY <1>1, <1>3 DEF MapSound

LEMMA CreateMoves ==
  ASSUME MapSound, NEW s \in XhttpSessions, GetOrCreate(s), UNCHANGED reaped,
         \A z \in XhttpSessions :
            /\ sess'[z].reaper = sess[z].reaper
            /\ sess'[z].rx = sess[z].rx \/ (z = s /\ sess'[z].rx = "taken")
  PROVE  MapSound' /\ s \in 1..made' /\ made' \in Nat /\ made' >= made
<1>1. /\ current \in 0..made /\ made \in 0..MaxXhttpSessions /\ made \in Nat /\ MaxXhttpSessions \in Nat
      /\ \A z \in 1..made : z \in XhttpSessions
  BY XhttpBounds DEF MapSound, XhttpSessions
<1>2. CASE current # 0
  <2>1. s = current /\ current' = current /\ made' = made
    BY <1>2 DEF GetOrCreate
  <2> QED
    BY <1>1, <1>2, <2>1 DEF MapSound, MapHonest, SessionCreated, XhttpSessions
<1>3. CASE current = 0
  <2>1. made < MaxXhttpSessions /\ s = made + 1 /\ made' = s /\ current' = s
    BY <1>3 DEF GetOrCreate
  <2>2. sess[s].reaper /\ sess[s].rx = "free"
    BY <1>1, <2>1 DEF MapSound
  <2>3. made' \in 0..MaxXhttpSessions /\ current' \in 0..made' /\ s \in 1..made' /\ made' >= made
        /\ made' \in Nat
    BY <1>1, <2>1
  <2>4. sess'[s].reaper /\ sess'[s].rx # "closed"
    BY <2>2
  <2>5. ASSUME NEW z \in XhttpSessions, z > made' PROVE sess'[z].reaper /\ sess'[z].rx = "free"
    <3>1. z > made /\ z # s
      BY <1>1, <2>1, <2>5 DEF XhttpSessions
    <3> QED
      BY <3>1 DEF MapSound
  <2>6. ASSUME NEW z \in 1..made', z # s PROVE z \in reaped' \/ sess'[z].rx = "closed"
    <3>1. z \in 1..made /\ current # z
      BY <1>1, <1>3, <2>1, <2>6
    <3> QED
      BY <1>1, <2>6, <3>1 DEF MapSound, MapHonest, SessionCreated
  <2> QED
    BY <2>1, <2>3, <2>4, <2>5, <2>6 DEF MapSound, MapHonest, SessionCreated
<1> QED
  BY <1>2, <1>3

(* Requests that stay where they are. *)
LEMMA PostsStay ==
  ASSUME PostsSound, UNCHANGED <<upload, post>>, made \in Nat, made' \in Nat, made' >= made
  PROVE  PostsSound'
<1>1. \A z \in 1..made : z \in 1..made'
  OBVIOUS
<1> QED
  BY <1>1 DEF PostsSound, Posts

(* One request moves; what it pushes to exists. *)
LEMMA PostMoves ==
  ASSUME PostsSound, upload' = upload, made \in Nat, made' \in Nat, made' >= made,
         NEW r \in Posts, NEW x \in PostRecord, post' = [post EXCEPT ![r] = x],
         x.pc \in {"body", "send"} => x.s \in 1..made' /\ x.n < Len(upload[r])
  PROVE  PostsSound'
<1>1. \A z \in 1..made : z \in 1..made'
  OBVIOUS
<1>2. post' \in [Posts -> PostRecord] /\ \A z \in Posts : post'[z] = IF z = r THEN x ELSE post[z]
  BY DEF PostsSound
<1>3. Posts' = Posts
  BY DEF Posts
<1> QED
  BY <1>1, <1>2, <1>3 DEF PostsSound

LEMMA PostActionsKeep ==
  ASSUME XhttpIInv, NEW r \in Posts,
         \/ \E s \in XhttpSessions : Upload(r, s)
         \/ PushBegin(r) \/ PushEnd(r) \/ PushFails(r) \/ PostGone(r)
  PROVE  XhttpIInv'
<1>0. /\ SessionsSound /\ MapSound /\ PostsSound /\ made \in Nat /\ post[r] \in PostRecord
      /\ post \in [Posts -> PostRecord]
      /\ \A z \in 1..made : z \in XhttpSessions
  BY XhttpBounds DEF XhttpIInv, MapSound, PostsSound, XhttpSessions
<1>1. /\ upload \in UploadPlans /\ upload[r] \in Seq(Nat) \ {<<>>} /\ Len(upload[r]) \in Nat
      /\ Len(upload[r]) > 0 /\ r \in AllPosts
  <2>1. upload \in UploadPlans /\ r \in DOMAIN upload
    BY <1>0 DEF PostsSound, Posts
  <2>2. upload[r] \in Seq(Nat) \ {<<>>} /\ r \in AllPosts
    BY <2>1, XhttpBounds DEF AllPosts
  <2> QED
    BY <2>1, <2>2, LenProperties, EmptySeq
<1>2. ASSUME NEW s \in XhttpSessions, Upload(r, s) PROVE XhttpIInv'
  <2> DEFINE x == [pc |-> "body", s |-> s, n |-> 0]
  <2>1. /\ GetOrCreate(s) /\ post' = [post EXCEPT ![r] = x]
        /\ UNCHANGED <<upload, sess, up, accepted, reaped>>
    BY <1>2 DEF Upload
  <2>2. MapSound' /\ s \in 1..made' /\ made' \in Nat /\ made' >= made
    BY <1>0, <2>1, CreateMoves
  <2>3. x \in PostRecord /\ x.s = s /\ x.n = 0
    BY <2>2 DEF PostRecord
  <2> HIDE DEF x
  <2>4. PostsSound'
    BY <1>0, <1>1, <2>1, <2>2, <2>3, PostMoves
  <2>5. SessionsSound'
    BY <1>0, <2>1, SessionsStay
  <2> QED
    BY <2>2, <2>4, <2>5 DEF XhttpIInv
<1>3. CASE PushBegin(r)
  <2> DEFINE s == post[r].s
             x == [post[r] EXCEPT !.pc = "send"]
  <2>1. /\ post[r].pc = "body" /\ sess' = [sess EXCEPT ![s].idle = 0]
        /\ post' = [post EXCEPT ![r] = x]
        /\ UNCHANGED <<upload, current, made, up, accepted, reaped>>
    BY <1>0, <1>3 DEF PushBegin, Touched
  <2>2. s \in 1..made /\ s \in XhttpSessions /\ post[r].n < Len(upload[r])
    BY <1>0, <2>1 DEF PostsSound
  <2>3. x \in PostRecord /\ x.s = s /\ x.n = post[r].n
    BY <1>0 DEF PostRecord
  <2> HIDE DEF s, x
  <2>4. /\ SessionsSound'
        /\ \A z \in XhttpSessions : sess'[z].rx = sess[z].rx /\ sess'[z].reaper = sess[z].reaper
    BY <1>0, <2>1, <2>2, IdleMoves
  <2>5. MapSound'
    BY <1>0, <2>1, <2>4, MapMoves
  <2>6. PostsSound'
    <3>1. made' \in Nat /\ made' >= made /\ x.s \in 1..made'
      BY <1>0, <2>1, <2>2, <2>3
    <3> QED
      BY <1>0, <2>1, <2>2, <2>3, <3>1, PostMoves
  <2> QED
    BY <2>4, <2>5, <2>6 DEF XhttpIInv
<1>4. CASE PushEnd(r)
  <2> DEFINE s == post[r].s
             n == post[r].n + 1
             p == [seq |-> upload[r][n], from |-> r]
             y == [post[r] EXCEPT !.n = n, !.pc = IF n = Len(upload[r]) THEN "ok" ELSE "body"]
             x == [sess[s] EXCEPT !.queue = Append(@, p)]
             a == Append(accepted[s], p)
  <2>1. /\ post[r].pc = "send" /\ sess[s].rx # "closed"
        /\ sess' = [sess EXCEPT ![s] = x] /\ post' = [post EXCEPT ![r] = y]
        /\ accepted' = [accepted EXCEPT ![s] = a]
        /\ UNCHANGED <<upload, current, made, up, reaped>>
    BY <1>0, <1>4 DEF PushEnd
  <2>2. s \in 1..made /\ s \in XhttpSessions /\ post[r].n < Len(upload[r]) /\ post[r].n \in Nat
    BY <1>0, <2>1 DEF PostsSound, PostRecord
  <2>3. n \in 1..Len(upload[r]) /\ n \in Nat
    BY <1>1, <2>2
  <2>4. p \in Packet
    <3>1. upload[r][n] \in Nat
      BY <1>1, <2>3, ElementOfSeq
    <3> QED
      BY <1>1, <3>1 DEF Packet
  <2>5. y \in PostRecord /\ y.s = s /\ y.n = n /\ (n = Len(upload[r]) => y.pc = "ok")
    BY <1>0, <2>3 DEF PostRecord
  <2>6. /\ Sound(sess[s], up[s], accepted[s]) /\ sess[s] \in SessRecord
        /\ sess[s].queue \in Seq(Packet) /\ accepted[s] \in Seq(Packet) /\ up[s] \in ReaderRecord
    BY <1>0, <2>2 DEF SessionsSound, SessRecord
  <2> HIDE DEF p, y
  <2>7. Append(sess[s].queue, p) \in Seq(Packet) /\ a \in Seq(Packet)
    BY <2>4, <2>6, AppendProperties
  <2>8. /\ x \in SessRecord /\ x.queue = Append(sess[s].queue, p) /\ x.rx = sess[s].rx
        /\ x.connected = sess[s].connected /\ x.reaper = sess[s].reaper
    BY <2>6, <2>7 DEF SessRecord
  <2> HIDE DEF x
  <2>9. ~up[s].failed => InOrder(x.queue, up[s], a)
    BY <2>4, <2>6, <2>8, AppendInOrder DEF Sound
  <2>10. Sound(x, up[s], a)
    BY <2>6, <2>7, <2>8, <2>9 DEF Sound
  <2> DEFINE u == up[s]
  <2>11. up' = [up EXCEPT ![s] = u] /\ Sound(x, u, a)
    BY <1>0, <2>1, <2>10 DEF SessionsSound
  <2> HIDE DEF s, u, a, n
  <2>12. SessionsSound' /\ \A z \in XhttpSessions : sess'[z] = IF z = s THEN x ELSE sess[z]
    BY <1>0, <2>1, <2>2, <2>11, OneSession
  <2>13. MapSound'
    BY <1>0, <2>1, <2>8, <2>12, MapMoves
  <2>14. PostsSound'
    <3>1. /\ y.pc \in {"body", "send"} => y.n < Len(upload[r])
          /\ made' \in Nat /\ made' >= made /\ y.s \in 1..made'
      BY <1>0, <1>1, <2>1, <2>2, <2>3, <2>5
    <3> QED
      BY <1>0, <2>1, <2>2, <2>5, <3>1, PostMoves
  <2> QED
    BY <2>12, <2>13, <2>14 DEF XhttpIInv
<1>5. CASE PushFails(r) \/ PostGone(r)
  <2>1. PICK c \in {"err", "gone"} : post' = [post EXCEPT ![r].pc = c]
    BY <1>5 DEF PushFails, PostGone
  <2>2. UNCHANGED <<upload, current, made, sess, up, accepted, reaped>>
    BY <1>5 DEF PushFails, PostGone
  <2> DEFINE x == [post[r] EXCEPT !.pc = c]
  <2>3. post' = [post EXCEPT ![r] = x] /\ x \in PostRecord /\ x.pc = c
    BY <1>0, <2>1 DEF PostRecord
  <2> HIDE DEF x
  <2>4. PostsSound'
    <3>1. made' \in Nat /\ made' >= made /\ x.pc \notin {"body", "send"}
      BY <1>0, <2>2, <2>3
    <3> QED
      BY <1>0, <2>2, <2>3, <3>1, PostMoves
  <2>5. SessionsSound' /\ MapSound'
    BY <1>0, <2>2, SessionsStay, MapMoves
  <2> QED
    BY <2>4, <2>5 DEF XhttpIInv
<1> QED
  BY <1>2, <1>3, <1>4, <1>5

LEMMA DownloadKeeps ==
  ASSUME XhttpIInv, NEW s \in XhttpSessions, Download(s)
  PROVE  XhttpIInv'
<1>0. /\ SessionsSound /\ MapSound /\ PostsSound /\ made \in Nat
      /\ GetOrCreate(s) /\ UNCHANGED <<upload, post, accepted, reaped>>
  BY DEF XhttpIInv, MapSound, Download
<1>1. CASE sess[s].connected
  <2>1. UNCHANGED <<sess, up>>
    BY <1>1 DEF Download
  <2>2. MapSound' /\ made' \in Nat /\ made' >= made
    BY <1>0, <2>1, CreateMoves
  <2>3. SessionsSound' /\ PostsSound'
    BY <1>0, <2>1, <2>2, SessionsStay, PostsStay
  <2> QED
    BY <2>2, <2>3 DEF XhttpIInv
<1>2. CASE ~sess[s].connected
  <2> DEFINE x == [sess[s] EXCEPT !.connected = TRUE, !.rx = "taken"]
             a == accepted[s]
  <2>1. sess' = [sess EXCEPT ![s] = x] /\ up' = [up EXCEPT ![s] = NewReader]
    BY <1>0, <1>2 DEF Download, SessionsSound, SessRecord
  <2>2. /\ Sound(sess[s], up[s], a) /\ sess[s] \in SessRecord /\ up[s] = NewReader
        /\ accepted' = [accepted EXCEPT ![s] = a]
    BY <1>0, <1>2 DEF SessionsSound, Sound
  <2>3. /\ x \in SessRecord /\ x.queue = sess[s].queue /\ x.rx = "taken" /\ x.connected = TRUE
        /\ x.reaper = sess[s].reaper
    BY <2>2 DEF SessRecord
  <2> HIDE DEF x, a
  <2>4. Sound(x, NewReader, a)
    BY <2>2, <2>3 DEF Sound
  <2>5. SessionsSound' /\ \A z \in XhttpSessions : sess'[z] = IF z = s THEN x ELSE sess[z]
    BY <1>0, <2>1, <2>2, <2>4, OneSession
  <2>6. MapSound' /\ made' \in Nat /\ made' >= made
    BY <1>0, <2>3, <2>5, CreateMoves
  <2>7. PostsSound'
    BY <1>0, <2>6, PostsStay
  <2> QED
    BY <2>5, <2>6, <2>7 DEF XhttpIInv
<1> QED
  BY <1>1, <1>2

LEMMA ReaderKeeps ==
  ASSUME XhttpIInv, NEW s \in XhttpSessions, ReadPending(s) \/ ReadChannel(s) \/ ReadNothing(s)
  PROVE  XhttpIInv'
<1> DEFINE u == up[s]
           a == accepted[s]
           q == sess[s].queue
<1>0. /\ SessionsSound /\ MapSound /\ PostsSound /\ made \in Nat
      /\ sess[s].rx = "taken" /\ ~u.failed
      /\ UNCHANGED <<upload, current, made, post, accepted, reaped>>
  BY DEF XhttpIInv, MapSound, ReadPending, ReadChannel, ReadNothing, Reading
<1>1. /\ Sound(sess[s], u, a) /\ sess[s] \in SessRecord /\ u \in ReaderRecord
      /\ q \in Seq(Packet) /\ a \in Seq(Packet) /\ InOrder(q, u, a)
      /\ accepted' = [accepted EXCEPT ![s] = a] /\ sess[s].connected
      /\ sess \in [XhttpSessions -> SessRecord] /\ up \in [XhttpSessions -> ReaderRecord]
  BY <1>0 DEF SessionsSound, Sound, SessRecord
<1>2. PostsSound'
  <2>1. made' \in Nat /\ made' >= made
    BY <1>0
  <2> QED
    BY <1>0, <2>1, PostsStay
<1>3. ASSUME NEW x, NEW v, Sound(x, v, a), sess' = [sess EXCEPT ![s] = x],
             up' = [up EXCEPT ![s] = v], x.rx = sess[s].rx, x.reaper = sess[s].reaper
      PROVE  XhttpIInv'
  <2> HIDE DEF a
  <2>1. SessionsSound' /\ \A z \in XhttpSessions : sess'[z] = IF z = s THEN x ELSE sess[z]
    BY <1>0, <1>1, <1>3, OneSession
  <2>2. MapSound'
    BY <1>0, <1>3, <2>1, MapMoves
  <2> QED
    BY <1>2, <2>1, <2>2 DEF XhttpIInv
<1>4. CASE ReadPending(s)
  <2>1. PICK p \in Expected(s) : up' = [up EXCEPT ![s] = Delivered(@, p)]
    BY <1>4 DEF ReadPending
  <2> DEFINE x == [sess[s] EXCEPT !.idle = 0]
             v == Delivered(u, p)
  <2>2. sess' = [sess EXCEPT ![s] = x] /\ up' = [up EXCEPT ![s] = v]
    BY <1>1, <1>4, <2>1 DEF ReadPending, Touched
  <2>3. p \in u.pending /\ p.seq = u.next /\ p \in Packet /\ IsFirst(a, p.seq, p)
    BY <1>1, <2>1 DEF Expected, InOrder, ReaderRecord
  <2>4. InOrder(q, v, a) /\ v \in ReaderRecord
    BY <1>1, <2>3, DeliveredInOrder
  <2>5. /\ x \in SessRecord /\ x.queue = q /\ x.rx = sess[s].rx
        /\ x.connected = sess[s].connected /\ x.reaper = sess[s].reaper
    BY <1>1 DEF SessRecord
  <2> HIDE DEF x, v
  <2>6. Sound(x, v, a)
    BY <1>0, <1>1, <2>4, <2>5 DEF Sound
  <2> QED
    BY <1>3, <2>2, <2>5, <2>6
<1>5. CASE ReadChannel(s)
  <2> DEFINE x == [sess[s] EXCEPT !.idle = 0, !.queue = Tail(@)]
             v == Received(u, Head(q))
  <2>1. /\ sess' = [sess EXCEPT ![s] = x] /\ up' = [up EXCEPT ![s] = v] /\ q # <<>>
        /\ Expected(s) = {}
    BY <1>1, <1>5 DEF ReadChannel, Touched, SessRecord
  <2>2. \A p \in u.pending : p.seq # u.next
    BY <2>1 DEF Expected
  <2>3. v \in ReaderRecord /\ (v.failed \/ InOrder(Tail(q), v, a))
    BY <1>1, <2>1, <2>2, ReceivedInOrder
  <2>4. Tail(q) \in Seq(Packet)
    BY <1>1, <2>1, HeadTailProperties
  <2>5. /\ x \in SessRecord /\ x.queue = Tail(q) /\ x.rx = sess[s].rx
        /\ x.connected = sess[s].connected /\ x.reaper = sess[s].reaper
    BY <1>1, <2>4 DEF SessRecord
  <2> HIDE DEF x, v
  <2>6. Sound(x, v, a)
    BY <1>0, <1>1, <2>3, <2>5 DEF Sound
  <2> QED
    BY <1>3, <2>1, <2>5, <2>6
<1>6. CASE ReadNothing(s)
  <2>1. sess' = [sess EXCEPT ![s].idle = 0] /\ UNCHANGED <<up, accepted>>
    BY <1>6 DEF ReadNothing, Touched
  <2>2. /\ SessionsSound'
        /\ \A z \in XhttpSessions : sess'[z].rx = sess[z].rx /\ sess'[z].reaper = sess[z].reaper
    BY <1>0, <2>1, IdleMoves
  <2>3. MapSound'
    BY <1>0, <2>2, MapMoves
  <2> QED
    BY <1>2, <2>2, <2>3 DEF XhttpIInv
<1> QED
  BY <1>4, <1>5, <1>6

(* remove_session_if_current: only the session itself leaves the map. *)
LEMMA ReaderDroppedKeeps ==
  ASSUME XhttpIInv, NEW s \in XhttpSessions, ReaderDropped(s)
  PROVE  XhttpIInv'
<1> DEFINE x == [sess[s] EXCEPT !.rx = "closed", !.queue = <<>>]
<1>0. /\ SessionsSound /\ MapSound /\ PostsSound /\ made \in Nat /\ sess[s].rx = "taken"
      /\ UNCHANGED <<upload, made, post, reaped>> /\ current' = RemovedIfCurrent(s)
      /\ up' = [up EXCEPT ![s] = NewReader] /\ accepted' = [accepted EXCEPT ![s] = <<>>]
  BY DEF XhttpIInv, MapSound, ReaderDropped
<1>1. /\ sess' = [sess EXCEPT ![s] = x] /\ sess[s] \in SessRecord /\ sess[s].connected
  BY <1>0 DEF ReaderDropped, SessionsSound, Sound
<1>2. /\ x \in SessRecord /\ x.queue = <<>> /\ x.rx = "closed" /\ x.connected = TRUE
      /\ x.reaper = sess[s].reaper
  BY <1>1, EmptySeq DEF SessRecord
<1> HIDE DEF x
<1>3. Sound(x, NewReader, <<>>)
  BY <1>2, NewIsInOrder DEF Sound
<1>4. SessionsSound' /\ \A z \in XhttpSessions : sess'[z] = IF z = s THEN x ELSE sess[z]
  BY <1>0, <1>1, <1>3, OneSession
<1>5. PostsSound'
  <2>1. made' \in Nat /\ made' >= made
    BY <1>0
  <2> QED
    BY <1>0, <2>1, PostsStay
<1>6. MapSound'
  <2>1. /\ made \in 0..MaxXhttpSessions /\ current \in 0..made /\ made' = made
        /\ current' = IF current = s THEN 0 ELSE current
        /\ \A z \in 1..made : z \in XhttpSessions
    BY <1>0, XhttpBounds DEF MapSound, RemovedIfCurrent, XhttpSessions
  <2>2. s \in 1..made
    BY <1>0, <2>1 DEF MapSound, XhttpSessions
  <2>3. current' # 0 => sess'[current'].reaper /\ sess'[current'].rx # "closed"
    <3> SUFFICES ASSUME current' # 0 PROVE sess'[current'].reaper /\ sess'[current'].rx # "closed"
      OBVIOUS
    <3>1. current' = current /\ current # s /\ current \in XhttpSessions
      BY <2>1, XhttpBounds DEF XhttpSessions
    <3> QED
      BY <1>0, <1>4, <3>1 DEF MapSound, MapHonest
  <2>4. \A z \in 1..made : current' # z => z \in reaped \/ sess'[z].rx = "closed"
    BY <1>0, <1>2, <1>4, <2>1, <2>2 DEF MapSound, MapHonest, SessionCreated
  <2>5. \A z \in XhttpSessions : z > made => sess'[z].reaper /\ sess'[z].rx = "free"
    <3> SUFFICES ASSUME NEW z \in XhttpSessions, z > made
                 PROVE  sess'[z].reaper /\ sess'[z].rx = "free"
      OBVIOUS
    <3>1. z # s
      BY <1>0, <2>2
    <3> QED
      BY <1>0, <1>4, <3>1 DEF MapSound
  <2>6. current' \in 0..made'
    BY <1>0, <2>1
  <2>7. MapHonest'
    BY <1>0, <2>1, <2>3, <2>4 DEF MapHonest, SessionCreated
  <2> QED
    BY <2>1, <2>5, <2>6, <2>7 DEF MapSound
<1> QED
  BY <1>4, <1>5, <1>6 DEF XhttpIInv

(* A turn of a reaper: it takes out its own session, if that is stale, and ends. *)
LEMMA ReapSessionKeeps ==
  ASSUME XhttpIInv, NEW s \in XhttpSessions, ReapSession(s)
  PROVE  XhttpIInv'
<1> DEFINE x == [sess[s] EXCEPT !.reaper = FALSE, !.idle = 0]
<1>0. /\ SessionsSound /\ MapSound /\ PostsSound /\ made \in Nat
      /\ UNCHANGED <<upload, made, post, up, accepted>>
      /\ s \in 1..made /\ (Stale(s) \/ current # s)
      /\ current' = (IF Stale(s) THEN RemovedIfCurrent(s) ELSE current)
      /\ reaped' = IF Stale(s) /\ current = s THEN reaped \cup {s} ELSE reaped
  BY DEF XhttpIInv, MapSound, ReapSession, SessionCreated
<1>1. /\ sess' = [sess EXCEPT ![s] = x] /\ sess[s] \in SessRecord
      /\ Sound(sess[s], up[s], accepted[s])
  BY <1>0 DEF ReapSession, SessionsSound
<1>2. /\ x \in SessRecord /\ x.queue = sess[s].queue /\ x.rx = sess[s].rx
      /\ x.connected = sess[s].connected
  BY <1>1 DEF SessRecord
<1> HIDE DEF x
<1>3. Sound(x, up[s], accepted[s])
  BY <1>1, <1>2 DEF Sound
<1>4. SessionsSound' /\ \A z \in XhttpSessions : sess'[z] = IF z = s THEN x ELSE sess[z]
  BY <1>0, <1>1, <1>3, SessionMoves
<1>5. PostsSound'
  <2>1. made' \in Nat /\ made' >= made
    BY <1>0
  <2> QED
    BY <1>0, <2>1, PostsStay
<1>6. MapSound'
  <2>1. /\ made \in 0..MaxXhttpSessions /\ current \in 0..made /\ made' = made
        /\ current' = (IF current = s THEN 0 ELSE current)
        /\ reaped' = (IF current = s THEN reaped \cup {s} ELSE reaped)
        /\ \A z \in 1..made : z \in XhttpSessions
    BY <1>0, XhttpBounds DEF MapSound, RemovedIfCurrent, XhttpSessions
  <2>3. current' # 0 => sess'[current'].reaper /\ sess'[current'].rx # "closed"
    <3> SUFFICES ASSUME current' # 0 PROVE sess'[current'].reaper /\ sess'[current'].rx # "closed"
      OBVIOUS
    <3>1. current' = current /\ current # s /\ current \in XhttpSessions
      BY <2>1, XhttpBounds DEF XhttpSessions
    <3> QED
      BY <1>0, <1>4, <3>1 DEF MapSound, MapHonest
  <2>4. \A z \in 1..made : current' # z => z \in reaped' \/ sess'[z].rx = "closed"
    <3> SUFFICES ASSUME NEW z \in 1..made, current' # z, z \notin reaped'
                 PROVE  sess'[z].rx = "closed"
      OBVIOUS
    <3>1. current # z /\ z \notin reaped
      BY <2>1
    <3>2. sess[z].rx = "closed"
      BY <1>0, <3>1 DEF MapSound, MapHonest, SessionCreated
    <3> QED
      BY <1>2, <1>4, <2>1, <3>2
  <2>5. \A z \in XhttpSessions : z > made => sess'[z].reaper /\ sess'[z].rx = "free"
    <3> SUFFICES ASSUME NEW z \in XhttpSessions, z > made
                 PROVE  sess'[z].reaper /\ sess'[z].rx = "free"
      OBVIOUS
    <3>1. z # s
      BY <1>0
    <3> QED
      BY <1>0, <1>4, <3>1 DEF MapSound
  <2>6. current' \in 0..made'
    BY <1>0, <2>1
  <2>7. MapHonest'
    BY <2>1, <2>3, <2>4 DEF MapHonest, SessionCreated
  <2> QED
    BY <2>1, <2>5, <2>6, <2>7 DEF MapSound
<1> QED
  BY <1>4, <1>5, <1>6 DEF XhttpIInv

LEMMA TickKeeps == ASSUME XhttpIInv, Tick PROVE XhttpIInv'
<1>0. /\ SessionsSound /\ MapSound /\ PostsSound /\ made \in Nat /\ made' = made
      /\ UNCHANGED <<upload, current, made, up, post, accepted, reaped>>
  BY DEF XhttpIInv, MapSound, Tick
<1>1. current \in XhttpSessions
  BY XhttpBounds DEF XhttpIInv, MapSound, Tick, XhttpSessions
<1> DEFINE i == sess[current].idle + 1
<1>2. i \in Nat /\ sess' = [sess EXCEPT ![current].idle = i]
  BY <1>0, <1>1 DEF Tick, SessionsSound, SessRecord
<1> HIDE DEF i
<1>3. /\ SessionsSound'
      /\ \A z \in XhttpSessions : sess'[z].rx = sess[z].rx /\ sess'[z].reaper = sess[z].reaper
  BY <1>0, <1>1, <1>2, IdleMoves
<1>4. MapSound'
  BY <1>0, <1>3, MapMoves
<1>5. PostsSound'
  <2>1. made' \in Nat /\ made' >= made
    BY <1>0
  <2> QED
    BY <1>0, <2>1, PostsStay
<1> QED
  BY <1>3, <1>4, <1>5 DEF XhttpIInv

LEMMA XhttpInitial == XhttpInit => XhttpIInv
<1> SUFFICES ASSUME XhttpInit PROVE XhttpIInv
  OBVIOUS
<1>1. NewSession \in SessRecord /\ NewSession.queue = <<>> /\ NewSession.reaper
      /\ NewSession.rx = "free" /\ ~NewSession.connected
  BY EmptySeq DEF NewSession, SessRecord
<1>2. Sound(NewSession, NewReader, <<>>)
  BY <1>1, NewIsInOrder DEF Sound
<1>3. SessionsSound
  BY <1>1, <1>2, NewIsInOrder DEF XhttpInit, SessionsSound
<1>4. MapSound
  BY <1>1, XhttpBounds DEF XhttpInit, MapSound, MapHonest, SessionCreated
<1>5. PostsSound
  BY DEF XhttpInit, PostsSound, PostRecord
<1> QED
  BY <1>3, <1>4, <1>5 DEF XhttpIInv

(* What the property says of one session. *)
LEMMA OrderIsVisible ==
  ASSUME NEW s, Sound(sess[s], up[s], accepted[s]), Reading(s)
  PROVE  /\ Len(up[s].out) = up[s].next
         /\ \A k \in DOMAIN up[s].out : up[s].out[k] = FirstOf(s, k - 1).from
         /\ \A p \in up[s].pending : p.seq >= up[s].next /\ p = FirstOf(s, p.seq)
         /\ Numbers(ToSet(accepted[s])) =
              0..(up[s].next - 1) \cup Numbers(up[s].pending \cup ToSet(sess[s].queue))
<1> DEFINE u == up[s]
           a == accepted[s]
           q == sess[s].queue
<1>1. /\ InOrder(q, u, a) /\ a \in Seq(Packet) /\ q \in Seq(Packet) /\ u \in ReaderRecord
      /\ u.next \in Nat /\ u.out \in Seq(AllPosts) /\ u.pending \in SUBSET Packet
  BY DEF Sound, Reading, SessRecord, ReaderRecord
<1>2. /\ Len(a) \in Nat /\ Len(q) \in Nat /\ DOMAIN a = 1..Len(a) /\ DOMAIN q = 1..Len(q)
      /\ DOMAIN u.out = 1..u.next /\ Len(q) <= Len(a)
      /\ \A i \in 1..Len(a) : a[i] \in Packet
  BY <1>1, LenProperties, ElementOfSeq DEF InOrder
<1>3. \A k \in DOMAIN u.out : u.out[k] = FirstOf(s, k - 1).from
  BY <1>1, <1>2, FirstIsOne DEF InOrder
<1>4. \A p \in u.pending : p.seq >= u.next /\ p = FirstOf(s, p.seq)
  BY <1>1, FirstIsOne DEF InOrder
<1> HIDE DEF u, a, q
<1>5. ASSUME NEW n \in Numbers(ToSet(a))
      PROVE  n \in 0..(u.next - 1) \cup Numbers(u.pending \cup ToSet(q))
  <2>1. PICK j \in 1..Len(a) : a[j].seq = n
    BY <1>2, <1>5 DEF Numbers, ToSet
  <2>2. CASE j \in 1..(Len(a) - Len(q))
    <3>1. a[j].seq \in Nat
      BY <1>2 DEF Packet
    <3>2. a[j].seq < u.next \/ \E p \in u.pending : p.seq = a[j].seq
      BY <1>1, <2>2 DEF InOrder
    <3>3. CASE a[j].seq < u.next
      BY <1>1, <2>1, <3>1, <3>3
    <3>4. CASE \E p \in u.pending : p.seq = a[j].seq
      BY <2>1, <3>4 DEF Numbers
    <3> QED
      BY <3>2, <3>3, <3>4
  <2>3. CASE j \notin 1..(Len(a) - Len(q))
    <3> DEFINE i == j - (Len(a) - Len(q))
    <3>1. i \in 1..Len(q) /\ Len(a) - Len(q) + i = j
      BY <1>2, <2>3
    <3> HIDE DEF i
    <3>2. q[i] = a[j] /\ q[i] \in ToSet(q)
      BY <1>1, <1>2, <3>1 DEF InOrder, ToSet
    <3> QED
      BY <2>1, <3>2 DEF Numbers
  <2> QED
    BY <2>2, <2>3
<1>6. ASSUME NEW n, NEW x, IsFirst(a, n, x) PROVE n \in Numbers(ToSet(a))
  BY <1>2, <1>6 DEF IsFirst, Numbers, ToSet
<1>7. ASSUME NEW n \in 0..(u.next - 1) PROVE n \in Numbers(ToSet(a))
  <2>1. n + 1 \in 1..u.next /\ (n + 1) - 1 = n
    BY <1>1
  <2> QED
    BY <1>1, <1>6, <2>1 DEF InOrder
<1>8. ASSUME NEW p \in u.pending PROVE p.seq \in Numbers(ToSet(a))
  BY <1>1, <1>6 DEF InOrder
<1>9. ASSUME NEW p \in ToSet(q) PROVE p.seq \in Numbers(ToSet(a))
  <2>1. PICK i \in 1..Len(q) : p = q[i]
    BY <1>2 DEF ToSet
  <2>2. Len(a) - Len(q) + i \in 1..Len(a) /\ q[i] = a[Len(a) - Len(q) + i]
    BY <1>1, <1>2 DEF InOrder
  <2>3. q[i] \in ToSet(a)
    BY <1>2, <2>2 DEF ToSet
  <2> QED
    BY <2>1, <2>3 DEF Numbers
<1>10. Numbers(ToSet(a)) = 0..(u.next - 1) \cup Numbers(u.pending \cup ToSet(q))
  BY <1>5, <1>7, <1>8, <1>9 DEF Numbers
<1> QED
  BY <1>1, <1>3, <1>4, <1>10 DEF u, a, q, InOrder

(* XhttpSafe for any plans of uploads, limits and numbers of sessions: whatever
   the order, repetition and interleaving of requests, a session's packets are
   handed out by number without a gap, each as it first came, none that was
   answered is lost while its reader goes on, and a session leaves the map only
   by its own reader or reaper. *)
THEOREM XhttpAlwaysSafe == XhttpSafetySpec => []XhttpSafe
<1>1. XhttpIInv /\ [XhttpNext]_xhttpVars => XhttpIInv'
  <2> SUFFICES ASSUME XhttpIInv, [XhttpNext]_xhttpVars PROVE XhttpIInv'
    OBVIOUS
  <2>1. CASE UNCHANGED xhttpVars
    BY <2>1 DEF XhttpIInv, SessionsSound, MapSound, MapHonest, SessionCreated, PostsSound, Posts,
       xhttpVars
  <2> QED
    BY <2>1, PostActionsKeep, DownloadKeeps, ReaderKeeps, ReaderDroppedKeeps, ReapSessionKeeps,
       TickKeeps DEF XhttpNext
<1>2. XhttpIInv => XhttpSafe
  <2> SUFFICES ASSUME XhttpIInv PROVE XhttpSafe
    OBVIOUS
  <2>1. MapHonest
    BY DEF XhttpIInv, MapSound
  <2>2. \A s \in SessionCreated : s \in XhttpSessions
    BY XhttpBounds DEF XhttpIInv, MapSound, SessionCreated, XhttpSessions
  <2>3. \A s \in SessionCreated : Sound(sess[s], up[s], accepted[s])
    BY <2>2 DEF XhttpIInv, SessionsSound
  <2>4. UploadsInOrder
    BY <2>3, OrderIsVisible DEF UploadsInOrder
  <2> QED
    BY <2>1, <2>4 DEF XhttpSafe
<1> QED
  BY <1>1, <1>2, XhttpInitial, PTL DEF XhttpSafetySpec

-----------------------------------------------------------------------------
(* Reassembly.  An entry of the cache holds fragments of one key and one count,
   each id once; under a purging rule they are of the present life of the
   association or came too late for an earlier one. *)
Fragments == UNION {Frags(p) : p \in burst}
Entries == [key : {KeyOf(p) : p \in burst}, count : Nat, got : SUBSET Fragments]

OneKey(e) ==
    /\ IsFiniteSet(e.got)
    /\ \A x \in e.got : KeyOf(x[1]) = e.key /\ x[1].count = e.count
    /\ \A x, y \in e.got : x[2] = y[2] => x = y

OfThisLife(e) ==
    rule # "tuic_datagram" =>
        \A x \in e.got : x[1].life = lives[x[1].assoc] \/ x[1] \in overtaken

EntryShape(e) ==
    /\ OneKey(e)
    /\ \E p \in burst : e.key = KeyOf(p) /\ e.count = p.count
    /\ Cardinality(e.got) < e.count /\ Size(e) <= MaxPacket

EntryOK(e) == EntryShape(e) /\ OfThisLife(e)

(* No two entries have the same key. *)
KeysDiffer(c) == \A j, k \in DOMAIN c : c[j].key = c[k].key => j = k

(* A cache as it is between two fragments. *)
GoodCache(c) ==
    /\ c \in Seq(Entries) /\ KeysDiffer(c)
    /\ Len(c) <= MaxEntries /\ CachedBytes(c) <= MaxBytes
    /\ \A e \in ToSet(c) : EntryOK(e)

(* The fragments of an unspoiled packet that have arrived are in its entry, until
   the packet is forwarded. *)
Kept(p) ==
    KeyAlone(p) /\ p \notin spoiled /\ p.addr =>
        \/ Frags(p) \in whole
        \/ \A x \in Frags(p) \ toArrive : \E e \in ToSet(cache) : e.key = KeyOf(p) /\ x \in e.got

ReasmIInv ==
    /\ burst \in Bursts /\ rule \in {"tuic_stream", "tuic_datagram", "hysteria2"}
    /\ dups \in 0..MaxDups /\ lives \in [{p.assoc : p \in burst} -> Nat]
    /\ toArrive \subseteq Fragments
    /\ GoodCache(cache) /\ PacketsNotMixed /\ \A p \in burst : Kept(p)

(* The entries of a cache whose keys are not among those taken out. *)
KeptUpTo(c, keys) ==
    LET kept[n \in 0..Len(c)] ==
            IF n = 0 THEN <<>>
            ELSE IF c[n].key \in keys THEN kept[n - 1] ELSE Append(kept[n - 1], c[n])
    IN  kept

LEMMA KeptUpToDef ==
    ASSUME NEW E, NEW c \in Seq(E), NEW K
    PROVE  /\ KeptUpTo(c, K) \in [0..Len(c) -> Seq(E)] /\ KeptUpTo(c, K)[0] = <<>>
           /\ \A n \in 1..Len(c) : KeptUpTo(c, K)[n] =
                 IF c[n].key \in K THEN KeptUpTo(c, K)[n - 1]
                 ELSE Append(KeptUpTo(c, K)[n - 1], c[n])
<1> DEFINE N == Len(c)
           F == [x \in Seq(E) \X (1..N) |-> IF c[x[2]].key \in K THEN x[1] ELSE Append(x[1], c[x[2]])]
           Eqn(g) == g = [n \in 0..N |-> IF n = 0 THEN <<>>
                            ELSE IF c[n].key \in K THEN g[n - 1] ELSE Append(g[n - 1], c[n])]
<1>1. N \in Nat /\ <<>> \in Seq(E) /\ \A n \in 1..N : c[n] \in E
  BY LenProperties, EmptySeq, ElementOfSeq
<1>2. F \in [Seq(E) \X (1..N) -> Seq(E)]
  BY <1>1, AppendProperties
<1>3. \E g \in [0..N -> Seq(E)] : g[0] = <<>> /\ \A n \in 1..N : g[n] = F[<<g[n - 1], n>>]
  <2> DEFINE V == Seq(E)
             init == <<>>
  <2>1. N \in Nat /\ init \in V /\ F \in [V \X (1..N) -> V]
    BY <1>1, <1>2
  <2>2. \E g : Folds1(g, N, V, init, F)
    <3> HIDE DEF F, N, V, init
    <3> QED
      BY <2>1, FoldExists
  <2> QED
    BY <2>2 DEF Folds1
<1> PICK g \in [0..N -> Seq(E)] : g[0] = <<>> /\ \A n \in 1..N : g[n] = F[<<g[n - 1], n>>]
  BY <1>3
<1>4. \A n \in 1..N : g[n] = IF c[n].key \in K THEN g[n - 1] ELSE Append(g[n - 1], c[n])
  <2> SUFFICES ASSUME NEW n \in 1..N
                PROVE  g[n] = IF c[n].key \in K THEN g[n - 1] ELSE Append(g[n - 1], c[n])
    OBVIOUS
  <2>1. n - 1 \in 0..N
    BY <1>1
  <2>2. <<g[n - 1], n>> \in Seq(E) \X (1..N)
    BY <2>1
  <2>3. g[n] = F[<<g[n - 1], n>>]
    OBVIOUS
  <2> QED
    BY <2>2, <2>3
<1>5. Eqn(g)
  <2> HIDE DEF F
  <2>1. \A n \in 0..N : n = 0 \/ n \in 1..N
    BY <1>1
  <2> QED
    BY <1>4, <2>1
<1>6. KeptUpTo(c, K) = CHOOSE h : Eqn(h)
  BY DEF KeptUpTo
<1>7. Eqn(KeptUpTo(c, K))
  <2> HIDE DEF Eqn
  <2> QED
    BY <1>5, <1>6
<1> DEFINE h == KeptUpTo(c, K)
<1>8. h[0] = <<>> /\ \A n \in 1..N : h[n] = IF c[n].key \in K THEN h[n - 1]
                                          ELSE Append(h[n - 1], c[n])
  <2>1. \A n \in 1..N : n \in 0..N /\ n # 0
    BY <1>1
  <2>2. Eqn(h)
    BY <1>7
  <2>3. 0 \in 0..N
    BY <1>1
  <2> HIDE DEF h, N
  <2> QED
    BY <2>1, <2>2, <2>3
<1> DEFINE P == {n \in Nat : n <= N => h[n] \in Seq(E)}
<1>9. P = Nat
  <2>1. 0 \in P
    BY <1>8, <1>1
  <2>2. ASSUME NEW n \in P PROVE n + 1 \in P
    <3> SUFFICES ASSUME n + 1 <= N PROVE h[n + 1] \in Seq(E)
      OBVIOUS
    <3>1. n \in Nat /\ n <= N
      BY <1>1
    <3>2. n + 1 \in 1..N /\ (n + 1) - 1 = n /\ h[n] \in Seq(E)
      BY <3>1, <1>1
    <3>3. h[n + 1] = IF c[n + 1].key \in K THEN h[n] ELSE Append(h[n], c[n + 1])
      BY <3>2, <1>8
    <3>4. Append(h[n], c[n + 1]) \in Seq(E)
      <4>1. c[n + 1] \in E /\ h[n] \in Seq(E)
        BY <3>2, <1>1
      <4> QED
        BY <4>1, AppendProperties
    <3> QED
      BY <3>2, <3>3, <3>4
  <2>3. P \in SUBSET Nat
    OBVIOUS
  <2> HIDE DEF P
  <2> QED
    BY <2>1, <2>2, <2>3, SetInduction
<1>10. \A n \in 0..N : h[n] \in Seq(E)
  BY <1>9, <1>1
<1>11. h = [n \in 0..N |-> h[n]]
  BY <1>7
<1> QED
  BY <1>8, <1>10, <1>11

LEMMA WithoutKeysFacts ==
    ASSUME NEW E, NEW c \in Seq(E), NEW K, KeysDiffer(c)
    PROVE  LET r == WithoutKeys(c, K)
           IN  /\ r \in Seq(E) /\ KeysDiffer(r) /\ Len(r) <= Len(c)
               /\ ToSet(r) = {e \in ToSet(c) : e.key \notin K}
               /\ (\E e \in ToSet(c) : e.key \in K) => Len(r) < Len(c)
<1> DEFINE N == Len(c)
           h == KeptUpTo(c, K)
           Good(n) == /\ Len(h[n]) <= n
                      /\ \A j \in 1..Len(h[n]) : \E i \in 1..n : h[n][j] = c[i] /\ c[i].key \notin K
                      /\ \A i \in 1..n : c[i].key \notin K => \E j \in 1..Len(h[n]) : h[n][j] = c[i]
                      /\ \A j, k \in 1..Len(h[n]) : h[n][j].key = h[n][k].key => j = k
                      /\ \A i \in 1..n : c[i].key \in K => Len(h[n]) < n
           P == {n \in Nat : n <= N => Good(n)}
<1>1. N \in Nat /\ DOMAIN c = 1..N /\ \A n \in 1..N : c[n] \in E
  BY LenProperties, ElementOfSeq
<1>2. /\ h \in [0..N -> Seq(E)] /\ h[0] = <<>>
      /\ \A n \in 1..N : h[n] = IF c[n].key \in K THEN h[n - 1] ELSE Append(h[n - 1], c[n])
  BY KeptUpToDef
<1>3. WithoutKeys(c, K) = h[N]
  BY DEF WithoutKeys, KeptUpTo
<1> HIDE DEF h, N
<1>4. 0 \in P
  <2>1. Len(h[0]) = 0
    BY <1>2, EmptySeq
  <2> QED
    BY <2>1
<1>5. ASSUME NEW n \in P PROVE n + 1 \in P
  <2> SUFFICES ASSUME n + 1 <= N PROVE Good(n + 1)
    OBVIOUS
  <2>0. n \in Nat /\ n <= N
    BY <1>1
  <2>1. n \in Nat /\ n <= N /\ Good(n)
    <3> HIDE DEF Good
    <3> QED
      BY <2>0
  <2>2. n + 1 \in 1..N /\ n \in 0..N /\ (n + 1) - 1 = n
    BY <2>1, <1>1
  <2>3. h[n] \in Seq(E) /\ Len(h[n]) \in Nat
    BY <1>2, <2>2, LenProperties
  <2>4. CASE c[n + 1].key \in K
    <3>1. h[n + 1] = h[n]
      BY <2>2, <2>4, <1>2
    <3>2. \A i \in 1..(n + 1) : i \in 1..n \/ i = n + 1
      BY <2>1
    <3>3. \A i \in 1..n : i \in 1..(n + 1)
      BY <2>1
    <3> QED
      BY <2>1, <2>3, <2>4, <3>1, <3>2, <3>3
  <2>5. CASE c[n + 1].key \notin K
    <3> DEFINE L == Len(h[n])
    <3>1. h[n + 1] = Append(h[n], c[n + 1])
      BY <2>2, <2>5, <1>2
    <3>2. /\ Len(h[n + 1]) = L + 1 /\ h[n + 1][L + 1] = c[n + 1]
          /\ \A j \in 1..L : h[n + 1][j] = h[n][j]
      BY <3>1, <2>2, <2>3, <1>1, AppendProperties
    <3>3. L \in Nat
      BY <2>3
    <3> HIDE DEF L
    <3>4. \A j \in 1..(L + 1) : j \in 1..L \/ j = L + 1
      BY <3>3
    <3>5. \A i \in 1..(n + 1) : i \in 1..n \/ i = n + 1
      BY <2>1
    <3>6. /\ \A i \in 1..n : i \in 1..(n + 1)
          /\ \A j \in 1..L : j \in 1..(L + 1) /\ L + 1 \in 1..(L + 1) /\ n + 1 \in 1..(n + 1)
      BY <2>1, <3>3
    <3>7. Len(h[n + 1]) <= n + 1 /\ \A i \in 1..(n + 1) : c[i].key \in K => Len(h[n + 1]) < n + 1
      BY <2>1, <2>5, <3>2, <3>3, <3>5 DEF L
    <3>8. ASSUME NEW j \in 1..(L + 1)
          PROVE  \E i \in 1..(n + 1) : h[n + 1][j] = c[i] /\ c[i].key \notin K
      <4>1. CASE j = L + 1
        BY <4>1, <3>2, <2>5, <2>1
      <4>2. CASE j \in 1..L
        <5>1. PICK i \in 1..n : h[n][j] = c[i] /\ c[i].key \notin K
          BY <4>2, <2>1 DEF L
        <5> QED
          BY <5>1, <4>2, <3>2, <3>6
      <4> QED
        BY <4>1, <4>2, <3>4
    <3>9. ASSUME NEW i \in 1..(n + 1), c[i].key \notin K
          PROVE  \E j \in 1..(L + 1) : h[n + 1][j] = c[i]
      <4>1. CASE i = n + 1
        <5>1. L + 1 \in 1..(L + 1)
          BY <3>3
        <5> QED
          BY <5>1, <4>1, <3>2
      <4>2. CASE i \in 1..n
        <5>1. PICK j \in 1..L : h[n][j] = c[i]
          BY <4>2, <3>9, <2>1 DEF L
        <5> QED
          BY <5>1, <3>2, <3>6
      <4> QED
        BY <4>1, <4>2, <3>5
    <3>10. ASSUME NEW j \in 1..L PROVE h[n][j].key # c[n + 1].key
      <4>1. PICK i \in 1..n : h[n][j] = c[i]
        BY <2>1 DEF L
      <4>2. i \in DOMAIN c /\ n + 1 \in DOMAIN c /\ i # n + 1
        BY <1>1, <2>1, <2>2
      <4> QED
        BY <4>1, <4>2 DEF KeysDiffer
    <3>11. ASSUME NEW j \in 1..(L + 1), NEW k \in 1..(L + 1), h[n + 1][j].key = h[n + 1][k].key
           PROVE  j = k
      BY ZenonT(60), <3>2, <3>4, <3>10, <3>11, <2>1 DEF L
    <3> QED
      BY <3>2, <3>7, <3>8, <3>9, <3>11
  <2> QED
    BY <2>4, <2>5
<1>6. P = Nat
  <2>1. P \in SUBSET Nat
    OBVIOUS
  <2> HIDE DEF P
  <2> QED
    BY <2>1, <1>4, <1>5, SetInduction
<1>7. Good(N)
  <2>1. N \in P /\ N <= N
    <3> HIDE DEF P
    <3> QED
      BY <1>6, <1>1
  <2> HIDE DEF Good
  <2> QED
    BY <2>1
<1>8. h[N] \in Seq(E) /\ DOMAIN h[N] = 1..Len(h[N])
  BY <1>1, <1>2, LenProperties
<1>9. ToSet(h[N]) = {e \in ToSet(c) : e.key \notin K}
  <2>1. ASSUME NEW e \in ToSet(h[N]) PROVE e \in ToSet(c) /\ e.key \notin K
    <3>1. PICK j \in 1..Len(h[N]) : e = h[N][j]
      BY <1>8 DEF ToSet
    <3>2. PICK i \in 1..N : h[N][j] = c[i] /\ c[i].key \notin K
      BY <1>7
    <3> QED
      BY <3>1, <3>2, <1>1 DEF ToSet
  <2>2. ASSUME NEW e \in ToSet(c), e.key \notin K PROVE e \in ToSet(h[N])
    <3>1. PICK i \in 1..N : e = c[i]
      BY <1>1 DEF ToSet
    <3>2. PICK j \in 1..Len(h[N]) : h[N][j] = c[i]
      BY <1>7, <2>2, <3>1
    <3> QED
      BY <3>1, <3>2, <1>8 DEF ToSet
  <2> QED
    BY <2>1, <2>2
<1>10. KeysDiffer(h[N])
  BY <1>7, <1>8 DEF KeysDiffer
<1>11. (\E e \in ToSet(c) : e.key \in K) => Len(h[N]) < N
  BY <1>1, <1>7 DEF ToSet
<1> QED
  BY <1>3, <1>7, <1>8, <1>9, <1>10, <1>11 DEF N

(* The LRU operations.  A key has at most one entry, which get finds. *)
LEMMA GetFacts ==
    ASSUME NEW E, NEW c \in Seq(E), KeysDiffer(c), NEW p
    PROVE  /\ Held(c, p) <=> \E e \in ToSet(c) : e.key = KeyOf(p)
           /\ Held(c, p) => /\ Get(c, p) \in ToSet(c) /\ Get(c, p).key = KeyOf(p)
                            /\ \A e \in ToSet(c) : e.key = KeyOf(p) => e = Get(c, p)
<1>1. Held(c, p) <=> \E e \in ToSet(c) : e.key = KeyOf(p)
  BY DEF Held, ToSet
<1>2. ASSUME Held(c, p)
      PROVE  /\ Get(c, p) \in ToSet(c) /\ Get(c, p).key = KeyOf(p)
             /\ \A e \in ToSet(c) : e.key = KeyOf(p) => e = Get(c, p)
  <2> DEFINE m == CHOOSE k \in DOMAIN c : c[k].key = KeyOf(p)
  <2>1. m \in DOMAIN c /\ c[m].key = KeyOf(p)
    BY <1>2 DEF Held
  <2>2. Get(c, p) = c[m]
    BY DEF Get
  <2> HIDE DEF m
  <2>3. ASSUME NEW e \in ToSet(c), e.key = KeyOf(p) PROVE e = c[m]
    <3>1. PICK k \in DOMAIN c : e = c[k]
      BY DEF ToSet
    <3> QED
      BY <3>1, <2>1, <2>3 DEF KeysDiffer
  <2> QED
    BY <2>1, <2>2, <2>3 DEF ToSet
<1> QED
  BY <1>1, <1>2

(* Put makes the entry the only one of its key; only when the key is new may the
   oldest entry leave. *)
LEMMA PutFacts ==
    ASSUME NEW E, NEW c \in Seq(E), KeysDiffer(c), Len(c) <= MaxEntries, NEW p,
           NEW e \in E, e.key = KeyOf(p)
    PROVE  LET r == Put(c, p, e)
               others == {x \in ToSet(c) : x.key # KeyOf(p)}
           IN  /\ r \in Seq(E) /\ KeysDiffer(r) /\ Len(r) <= MaxEntries
               /\ e \in ToSet(r) /\ ToSet(r) \subseteq others \cup {e}
               /\ Held(c, p) => ToSet(r) = others \cup {e}
<1> DEFINE d == Pop(c, p)
           new == Append(d, e)
           L == Len(d)
           others == {x \in ToSet(c) : x.key # KeyOf(p)}
<1>0. MaxEntries \in Nat /\ MaxEntries >= 1 /\ Len(c) \in Nat
  BY ReasmConstants, LenProperties
<1>1. /\ d \in Seq(E) /\ KeysDiffer(d) /\ L <= Len(c) /\ ToSet(d) = others
      /\ Held(c, p) => L < Len(c)
  <2>1. LET r == WithoutKeys(c, {KeyOf(p)})
        IN  /\ r \in Seq(E) /\ KeysDiffer(r) /\ Len(r) <= Len(c)
            /\ ToSet(r) = {x \in ToSet(c) : x.key \notin {KeyOf(p)}}
            /\ (\E x \in ToSet(c) : x.key \in {KeyOf(p)}) => Len(r) < Len(c)
    BY WithoutKeysFacts
  <2> QED
    BY <2>1, GetFacts DEF Pop
<1>2. L \in Nat /\ DOMAIN d = 1..L
  BY <1>1, LenProperties
<1>3. /\ new \in Seq(E) /\ Len(new) = L + 1 /\ new[L + 1] = e
      /\ \A j \in 1..L : new[j] = d[j]
  <2> HIDE DEF d
  <2> QED
    BY <1>1, <1>2, AppendProperties
<1> HIDE DEF d, L, new
<1>4. DOMAIN new = 1..(L + 1)
  BY <1>3, LenProperties
<1>5. \A j \in 1..(L + 1) : j \in 1..L \/ j = L + 1
  BY <1>2
<1>6. ASSUME NEW j \in 1..L PROVE d[j] \in others /\ d[j].key # KeyOf(p)
  <2>1. d[j] \in ToSet(d)
    BY <1>2 DEF ToSet
  <2> QED
    BY <2>1, <1>1
<1>7. KeysDiffer(new)
  <2> SUFFICES ASSUME NEW j \in 1..(L + 1), NEW k \in 1..(L + 1), new[j].key = new[k].key
                PROVE  j = k
    BY <1>4 DEF KeysDiffer
  <2>1. CASE j \in 1..L /\ k \in 1..L
    BY <2>1, <1>1, <1>2, <1>3 DEF KeysDiffer
  <2> QED
    BY <2>1, <1>5, <1>3, <1>6
<1>8. ToSet(new) = others \cup {e}
  <2>1. ASSUME NEW x \in ToSet(new) PROVE x \in others \cup {e}
    <3>1. PICK j \in 1..(L + 1) : x = new[j]
      BY <1>4 DEF ToSet
    <3> QED
      BY <3>1, <1>3, <1>5, <1>6
  <2>2. ASSUME NEW x \in others PROVE x \in ToSet(new)
    <3>1. PICK j \in 1..L : x = d[j]
      BY <1>1, <1>2 DEF ToSet
    <3>2. j \in 1..(L + 1)
      BY <1>2
    <3> QED
      BY <3>1, <3>2, <1>3, <1>4 DEF ToSet
  <2>3. e \in ToSet(new)
    <3>1. L + 1 \in 1..(L + 1)
      BY <1>2
    <3> QED
      BY <3>1, <1>3, <1>4 DEF ToSet
  <2> QED
    BY <2>1, <2>2, <2>3
<1>9. Put(c, p, e) = IF Len(new) > MaxEntries THEN Tail(new) ELSE new
  BY DEF Put, new, d
<1>10. CASE Len(new) <= MaxEntries
  <2>1. Put(c, p, e) = new
    BY <1>9, <1>10, <1>0, <1>2, <1>3
  <2> QED
    BY <2>1, <1>3, <1>7, <1>8, <1>10
<1>11. CASE Len(new) > MaxEntries
  <2> DEFINE t == Tail(new)
  <2>1. Put(c, p, e) = t
    BY <1>9, <1>11
  <2>2. ~Held(c, p) /\ L >= 1 /\ L <= MaxEntries
    BY <1>0, <1>1, <1>2, <1>3, <1>11
  <2>3. t \in Seq(E) /\ Len(t) = L /\ \A j \in 1..L : t[j] = new[j + 1]
    <3>1. new # <<>>
      BY <1>2, <1>3, EmptySeq
    <3>2. t \in Seq(E) /\ Len(t) = Len(new) - 1 /\ \A j \in 1..Len(t) : t[j] = new[j + 1]
      BY <3>1, <1>3, HeadTailProperties
    <3> QED
      BY <3>2, <1>2, <1>3
  <2> HIDE DEF t
  <2>4. DOMAIN t = 1..L /\ \A j \in 1..L : j + 1 \in 1..(L + 1)
    BY <2>3, <1>2, LenProperties
  <2>5. KeysDiffer(t)
    <3> SUFFICES ASSUME NEW j \in 1..L, NEW k \in 1..L, t[j].key = t[k].key PROVE j = k
      BY <2>4 DEF KeysDiffer
    <3>1. j + 1 = k + 1
      BY <2>3, <2>4, <1>4, <1>7 DEF KeysDiffer
    <3> QED
      BY <3>1, <1>2
  <2>6. ToSet(t) \subseteq ToSet(new)
    BY <2>3, <2>4, <1>4 DEF ToSet
  <2>7. e \in ToSet(t)
    <3>1. L \in 1..L
      BY <2>2, <1>2
    <3> QED
      BY <3>1, <2>3, <2>4, <1>3 DEF ToSet
  <2> QED
    BY <2>1, <2>2, <2>3, <2>5, <2>6, <2>7, <1>8
<1> QED
  BY <1>10, <1>11, <1>0, <1>2, <1>3

-----------------------------------------------------------------------------
(* Bytes.  The bytes of a set of entries, whose sizes are numbers. *)
BytesOf(S) == SumFunction([e \in S |-> Size(e)])

Sized(S) == IsFiniteSet(S) /\ \A e \in S : Size(e) \in Nat

LEMMA CacheBytesOf == \A c : CachedBytes(c) = BytesOf(ToSet(c))
BY DEF CachedBytes, BytesOf

LEMMA ToSetFinite ==
    ASSUME NEW E, NEW c \in Seq(E) PROVE IsFiniteSet(ToSet(c))
<1>1. Len(c) \in Nat /\ DOMAIN c = 1..Len(c)
  BY LenProperties
<1>2. IsFiniteSet(1..Len(c))
  BY <1>1, FS_Interval
<1>3. c \in Surjection(1..Len(c), ToSet(c))
  BY <1>1 DEF Surjection, ToSet
<1> QED
  BY <1>2, <1>3, FS_Surjection

LEMMA BytesPart ==
    ASSUME NEW S, Sized(S), NEW T \in SUBSET S
    PROVE  BytesOf(S) \in Nat /\ BytesOf(T) \in Nat /\ BytesOf(T) <= BytesOf(S)
<1> DEFINE f == [e \in S |-> Size(e)]
<1>1. f \in [S -> Nat] /\ IsFiniteSet(S)
  BY DEF Sized
<1>2. [y \in T |-> f[y]] = [y \in T |-> Size(y)]
  OBVIOUS
<1>3. /\ SumFunction(f) \in Nat /\ SumFunction([y \in T |-> f[y]]) \in Nat
      /\ SumFunction([y \in T |-> f[y]]) <= SumFunction(f)
  <2> HIDE DEF f
  <2> QED
    BY <1>1, SumPart
<1> QED
  BY <1>2, <1>3 DEF BytesOf

LEMMA BytesWith ==
    ASSUME NEW S, NEW x, Sized(S), x \notin S, Size(x) \in Nat
    PROVE  BytesOf(S) \in Nat /\ BytesOf(S \cup {x}) = BytesOf(S) + Size(x)
<1> DEFINE f == [e \in S \cup {x} |-> Size(e)]
<1>1. f \in [S \cup {x} -> Nat] /\ IsFiniteSet(S) /\ f[x] = Size(x)
  BY DEF Sized
<1>2. [y \in S |-> f[y]] = [y \in S |-> Size(y)]
  OBVIOUS
<1>3. /\ SumFunction([y \in S |-> f[y]]) \in Nat
      /\ SumFunction(f) = SumFunction([y \in S |-> f[y]]) + f[x]
  <2> HIDE DEF f
  <2> QED
    BY <1>1, SumWith
<1> QED
  BY <1>1, <1>2, <1>3 DEF BytesOf

(* The fragments of a packet: as many as it counts. *)
LEMMA FragsCount ==
    ASSUME NEW p, p.count \in Nat
    PROVE  IsFiniteSet(Frags(p)) /\ Cardinality(Frags(p)) = p.count
<1> DEFINE I == 0..(p.count - 1)
           g == [f \in I |-> <<p, f>>]
<1>1. IsFiniteSet(I) /\ Cardinality(I) = p.count
  <2>1. 0 \in Int /\ p.count - 1 \in Int
    OBVIOUS
  <2>2. IsFiniteSet(I) /\ Cardinality(I) = IF 0 > p.count - 1 THEN 0 ELSE (p.count - 1) - 0 + 1
    <3> DEFINE b == p.count - 1
    <3>1. b \in Int
      BY <2>1
    <3> HIDE DEF b
    <3>2. IsFiniteSet(0..b) /\ Cardinality(0..b) = IF 0 > b THEN 0 ELSE b - 0 + 1
      BY <3>1, FS_Interval
    <3> QED
      BY <3>2 DEF b
  <2> QED
    BY <2>2
<1>2. g \in Bijection(I, Frags(p))
  <2>1. g \in [I -> Frags(p)]
    BY DEF Frags
  <2>2. \A i, j \in I : g[i] = g[j] => i = j
    OBVIOUS
  <2>3. \A x \in Frags(p) : \E i \in I : g[i] = x
    BY DEF Frags
  <2> HIDE DEF g, I
  <2> QED
    BY <2>1, <2>2, <2>3 DEF Bijection, Injection, Surjection, IsInjective
<1> HIDE DEF g, I
<1>3. IsFiniteSet(Frags(p)) /\ Cardinality(Frags(p)) = Cardinality(I)
  BY <1>1, <1>2, FS_Bijection DEF ExistsBijection
<1> QED
  BY <1>1, <1>3

(* The size of an entry is a number, none for a new one, and a fragment adds the
   length of its packet. *)
LEMMA FragmentFacts ==
    ASSUME burst \in Bursts, NEW x \in Fragments
    PROVE  /\ x[1] \in burst /\ x \in Frags(x[1]) /\ x = <<x[1], x[2]>>
           /\ x[1].len \in Nat /\ x[1].count \in Nat \ {0} /\ x[1].life \in Nat
<1>1. PICK p \in burst : x \in Frags(p)
  BY DEF Fragments
<1>2. PICK f \in 0..(p.count - 1) : x = <<p, f>>
  BY <1>1 DEF Frags
<1> QED
  BY <1>1, <1>2, ReasmConstants

LEMMA SizeFacts ==
    ASSUME burst \in Bursts, NEW e, IsFiniteSet(e.got), e.got \subseteq Fragments
    PROVE  /\ Size(e) \in Nat /\ (e.got = {} => Size(e) = 0)
           /\ \A d, x : x \in Fragments \ e.got /\ d.got = e.got \cup {x}
                          => Size(d) = Size(e) + x[1].len
<1> DEFINE f == [x \in e.got |-> x[1].len]
<1>1. f \in [e.got -> Nat]
  BY FragmentFacts
<1>2. Size(e) = SumFunction(f)
  BY DEF Size
<1>3. Size(e) \in Nat /\ (e.got = {} => Size(e) = 0)
  <2> HIDE DEF f
  <2> QED
    BY <1>1, <1>2, SumIsNumber, SumOfNothing
<1>4. ASSUME NEW d, NEW x \in Fragments, x \notin e.got, d.got = e.got \cup {x}
      PROVE  Size(d) = Size(e) + x[1].len
  <2> DEFINE S == e.got
             g == [y \in S \cup {x} |-> y[1].len]
  <2>1. g \in [S \cup {x} -> Nat] /\ g[x] = x[1].len
    BY <1>4, FragmentFacts
  <2>2. Size(d) = SumFunction(g)
    BY <1>4 DEF Size
  <2>3. [y \in S |-> g[y]] = f
    OBVIOUS
  <2>4. SumFunction(g) = SumFunction([y \in S |-> g[y]]) + g[x]
    <3>1. IsFiniteSet(S) /\ x \notin S
      BY <1>4
    <3> HIDE DEF g, S
    <3> QED
      BY <2>1, <3>1, SumWith
  <2> QED
    BY <1>2, <2>1, <2>2, <2>3, <2>4
<1> QED
  BY <1>3, <1>4

LEMMA EntriesSized ==
    ASSUME burst \in Bursts, NEW c \in Seq(Entries), \A e \in ToSet(c) : EntryOK(e)
    PROVE  Sized(ToSet(c))
<1>1. \A e \in ToSet(c) : e \in Entries
  BY ElementOfSeq, LenProperties DEF ToSet
<1>2. \A e \in ToSet(c) : IsFiniteSet(e.got) /\ e.got \subseteq Fragments
  BY <1>1 DEF EntryOK, EntryShape, OneKey, Entries
<1> QED
  BY <1>2, SizeFacts, ToSetFinite DEF Sized

(* The entry a fragment is put into: that of its key or, for Hysteria2 also when
   the counts differ, a new one. *)
LEMMA NewEntryFacts ==
    ASSUME burst \in Bursts, NEW p \in burst
    PROVE  /\ NewEntry(p) \in Entries /\ EntryOK(NewEntry(p))
           /\ NewEntry(p).got = {} /\ NewEntry(p).key = KeyOf(p) /\ NewEntry(p).count = p.count
           /\ Size(NewEntry(p)) = 0
<1> DEFINE e == NewEntry(p)
<1>1. e.got = {} /\ e.key = KeyOf(p) /\ e.count = p.count
  BY DEF NewEntry
<1>2. p.count \in Nat \ {0} /\ MaxPacket \in Nat
  BY ReasmConstants
<1>3. e \in Entries
  BY <1>2 DEF NewEntry, Entries
<1>4. IsFiniteSet(e.got) /\ Cardinality(e.got) = 0
  BY <1>1, FS_EmptySet
<1>5. Size(e) = 0
  <2>1. e.got \subseteq Fragments
    BY <1>1
  <2> HIDE DEF e
  <2> QED
    BY <1>1, <1>4, <2>1, SizeFacts
<1>6. EntryOK(e)
  <2> HIDE DEF e
  <2> QED
    BY <1>1, <1>2, <1>4, <1>5 DEF EntryOK, EntryShape, OneKey, OfThisLife
<1> QED
  BY <1>1, <1>3, <1>5, <1>6

(* The opened cache is good and has an entry of the packet, the one the cache had
   if it was of use; nothing of another key is added. *)
LEMMA OpenFacts ==
    ASSUME burst \in Bursts, GoodCache(cache), NEW p \in burst
    PROVE  LET o == Open(cache, p)
               e == Get(o, p)
               fits == Held(cache, p) /\ (rule = "hysteria2" => Get(cache, p).count = p.count)
           IN  /\ GoodCache(o) /\ Held(o, p)
               /\ e \in ToSet(o) /\ e \in Entries /\ EntryOK(e) /\ e.key = KeyOf(p)
               /\ rule = "hysteria2" => e.count = p.count
               /\ e = IF fits THEN Get(cache, p) ELSE NewEntry(p)
               /\ \A x \in ToSet(o) : x = e \/ (x \in ToSet(cache) /\ x.key # KeyOf(p))
<1> DEFINE fits == Held(cache, p) /\ (rule = "hysteria2" => Get(cache, p).count = p.count)
           e == IF fits THEN Get(cache, p) ELSE NewEntry(p)
           o == Open(cache, p)
           others == {x \in ToSet(cache) : x.key # KeyOf(p)}
<1>1. o = Put(cache, p, e)
  BY DEF Open
<1>2. /\ cache \in Seq(Entries) /\ KeysDiffer(cache) /\ Len(cache) <= MaxEntries
      /\ CachedBytes(cache) <= MaxBytes /\ \A x \in ToSet(cache) : EntryOK(x)
  BY DEF GoodCache
<1>3. \A x \in ToSet(cache) : x \in Entries
  BY <1>2, ElementOfSeq, LenProperties DEF ToSet
<1>4. fits => e \in ToSet(cache) /\ e.key = KeyOf(p)
  BY <1>2, GetFacts
<1>5. ~fits => e = NewEntry(p)
  OBVIOUS
<1>6. e \in Entries /\ EntryOK(e) /\ e.key = KeyOf(p)
  <2> HIDE DEF e, fits
  <2> QED
    BY <1>2, <1>3, <1>4, <1>5, NewEntryFacts
<1>7. rule = "hysteria2" => e.count = p.count
  BY NewEntryFacts
<1>8. e = IF fits THEN Get(cache, p) ELSE NewEntry(p)
  OBVIOUS
<1> HIDE DEF e, fits, o
<1>9. /\ o \in Seq(Entries) /\ KeysDiffer(o) /\ Len(o) <= MaxEntries
      /\ e \in ToSet(o) /\ ToSet(o) \subseteq others \cup {e}
  BY <1>1, <1>2, <1>6, PutFacts
<1>10. Held(o, p) /\ Get(o, p) = e
  BY <1>6, <1>9, GetFacts
<1>11. \A x \in ToSet(o) : EntryOK(x)
  BY <1>2, <1>6, <1>9
<1>12. CachedBytes(o) <= MaxBytes
  <2>1. Sized(ToSet(cache)) /\ Sized(ToSet(o))
    BY <1>2, <1>9, <1>11, EntriesSized
  <2>2. CASE fits
    <3>1. ToSet(o) \subseteq ToSet(cache)
      BY <1>4, <1>9, <2>2
    <3>2. BytesOf(ToSet(o)) \in Nat /\ BytesOf(ToSet(cache)) \in Nat
          /\ BytesOf(ToSet(o)) <= BytesOf(ToSet(cache))
      BY <2>1, <3>1, BytesPart
    <3> QED
      BY <3>2, <1>2, CacheBytesOf, ReasmConstants
  <2>3. CASE ~fits
    <3>1. Size(e) = 0 /\ e \notin others
      BY <2>3, <1>5, <1>6, NewEntryFacts
    <3>2. Sized(others) /\ others \in SUBSET ToSet(cache)
      BY <2>1, FS_Subset DEF Sized
    <3>3. BytesOf(others) \in Nat /\ BytesOf(ToSet(cache)) \in Nat
          /\ BytesOf(others) <= BytesOf(ToSet(cache))
      BY <2>1, <3>2, BytesPart
    <3> HIDE DEF others
    <3>4. BytesOf(others \cup {e}) = BytesOf(others) + 0
      BY <3>1, <3>2, BytesWith
    <3>5. Sized(others \cup {e})
      BY <3>1, <3>2, FS_AddElement DEF Sized
    <3>6. BytesOf(ToSet(o)) \in Nat /\ BytesOf(ToSet(o)) <= BytesOf(others \cup {e})
      BY <3>5, <1>9, BytesPart
    <3> QED
      BY <3>3, <3>4, <3>6, <1>2, CacheBytesOf, ReasmConstants
  <2> QED
    BY <2>2, <2>3
<1>13. GoodCache(o)
  BY <1>9, <1>11, <1>12 DEF GoodCache
<1> QED
  BY <1>6, <1>7, <1>8, <1>9, <1>10, <1>13 DEF o, fits

(* A fragment that is neither refused nor a duplicate extends the entry. *)
LEMMA GrownFacts ==
    ASSUME burst \in Bursts, NEW p \in burst, NEW f \in 0..(p.count - 1),
           NEW e \in Entries, EntryShape(e), e.key = KeyOf(p), e.count = p.count, ~Duplicate(e, f)
    PROVE  LET grown == [e EXCEPT !.got = @ \cup {<<p, f>>}]
           IN  /\ grown \in Entries /\ OneKey(grown) /\ grown.key = e.key /\ grown.count = e.count
               /\ grown.got = e.got \cup {<<p, f>>} /\ <<p, f>> \notin e.got
               /\ Size(grown) = Size(e) + p.len /\ Size(e) \in Nat /\ p.len \in Nat
               /\ Cardinality(grown.got) \in Nat /\ Cardinality(grown.got) <= grown.count
               /\ Cardinality(grown.got) # grown.count => Cardinality(grown.got) < grown.count
<1> DEFINE grown == [e EXCEPT !.got = @ \cup {<<p, f>>}]
<1>0. p.count \in Nat \ {0} /\ p.len \in Nat
  BY ReasmConstants
<1>1. <<p, f>> \in Fragments /\ <<p, f>>[1] = p /\ <<p, f>>[2] = f
  BY DEF Fragments, Frags
<1>2. <<p, f>> \notin e.got
  BY <1>1 DEF Duplicate
<1>3. /\ e.got \in SUBSET Fragments /\ IsFiniteSet(e.got)
      /\ \A x \in e.got : KeyOf(x[1]) = e.key /\ x[1].count = e.count
      /\ \A x, y \in e.got : x[2] = y[2] => x = y
      /\ Cardinality(e.got) < e.count
  BY DEF Entries, EntryShape, OneKey
<1>4. /\ grown \in Entries /\ grown.key = e.key /\ grown.count = e.count
      /\ grown.got = e.got \cup {<<p, f>>}
  BY <1>1, <1>3 DEF Entries
<1> HIDE DEF grown
<1>5. /\ IsFiniteSet(grown.got) /\ Cardinality(grown.got) = Cardinality(e.got) + 1
      /\ Cardinality(e.got) \in Nat
  BY <1>2, <1>3, <1>4, FS_AddElement, FS_CardinalityType
<1>6. \A x \in e.got : x[2] # f
  BY DEF Duplicate
<1>7. OneKey(grown)
  BY <1>1, <1>3, <1>4, <1>5, <1>6 DEF OneKey
<1>8. Size(grown) = Size(e) + p.len /\ Size(e) \in Nat
  BY <1>1, <1>2, <1>3, <1>4, SizeFacts
<1> QED
  BY <1>0, <1>2, <1>3, <1>4, <1>5, <1>7, <1>8 DEF grown

(* What reassemble_udp_fragment does, case by case. *)
LEMMA ReassembleCases ==
    ASSUME burst \in Bursts, GoodCache(cache), NEW p \in burst, NEW f \in 0..(p.count - 1)
    PROVE  LET o == Open(cache, p)
               e == Get(o, p)
               grown == [e EXCEPT !.got = @ \cup {<<p, f>>}]
               r == Reassemble(cache, p, f)
               fine == /\ ~Duplicate(e, f) /\ e.count = p.count /\ (rule # "hysteria2" => f # 0 \/ p.addr)
                       /\ ~OverLimit(o, e, p)
           IN  \/ rule = "hysteria2" /\ Duplicate(e, f) /\ r.cache = o /\ r.out = {}
               \/ /\ \/ rule # "hysteria2" /\ TuicRefuses(e, p, f)
                     \/ OverLimit(o, e, p)
                  /\ r.cache = Pop(o, p) /\ r.out = {}
               \/ /\ fine /\ Cardinality(grown.got) = grown.count
                  /\ r.cache = Pop(o, p) /\ r.out = grown.got
               \/ /\ fine /\ Cardinality(grown.got) # grown.count
                  /\ r.cache = Put(o, p, grown) /\ r.out = {}
<1> DEFINE o == Open(cache, p)
           e == Get(o, p)
           grown == [e EXCEPT !.got = @ \cup {<<p, f>>}]
<1>1. Reassemble(cache, p, f) =
        IF rule = "hysteria2" /\ Duplicate(e, f) THEN [cache |-> o, out |-> {}]
        ELSE IF (rule # "hysteria2" /\ TuicRefuses(e, p, f)) \/ OverLimit(o, e, p)
        THEN [cache |-> Pop(o, p), out |-> {}]
        ELSE IF Cardinality(grown.got) = grown.count
        THEN [cache |-> Pop(o, p), out |-> grown.got]
        ELSE [cache |-> Put(o, p, grown), out |-> {}]
  BY DEF Reassemble
<1>2. rule = "hysteria2" => e.count = p.count
  BY OpenFacts
<1> HIDE DEF o, e, grown
<1>3. rule # "hysteria2" /\ ~TuicRefuses(e, p, f)
        => ~Duplicate(e, f) /\ e.count = p.count /\ (f # 0 \/ p.addr)
  BY DEF TuicRefuses
<1>4. CASE rule = "hysteria2" /\ Duplicate(e, f)
  BY <1>1, <1>4 DEF o, e, grown
<1>5. CASE /\ ~(rule = "hysteria2" /\ Duplicate(e, f))
           /\ (rule # "hysteria2" /\ TuicRefuses(e, p, f)) \/ OverLimit(o, e, p)
  <2>1. Reassemble(cache, p, f) = [cache |-> Pop(o, p), out |-> {}]
    BY <1>1, <1>5
  <2> QED
    BY <2>1, <1>5 DEF o, e, grown
<1>6. CASE /\ ~(rule = "hysteria2" /\ Duplicate(e, f))
           /\ ~((rule # "hysteria2" /\ TuicRefuses(e, p, f)) \/ OverLimit(o, e, p))
  <2>1. /\ ~Duplicate(e, f) /\ e.count = p.count /\ (rule # "hysteria2" => f # 0 \/ p.addr)
        /\ ~OverLimit(o, e, p)
    BY <1>2, <1>3, <1>6
  <2>2. CASE Cardinality(grown.got) = grown.count
    <3>1. Reassemble(cache, p, f) = [cache |-> Pop(o, p), out |-> grown.got]
      BY <1>1, <1>6, <2>2
    <3> QED
      BY <3>1, <2>1, <2>2 DEF o, e, grown
  <2>3. CASE Cardinality(grown.got) # grown.count
    <3>1. Reassemble(cache, p, f) = [cache |-> Put(o, p, grown), out |-> {}]
      BY <1>1, <1>6, <2>3
    <3> QED
      BY <3>1, <2>1, <2>3 DEF o, e, grown
  <2> QED
    BY <2>2, <2>3
<1> QED
  BY <1>4, <1>5, <1>6

(* Taking keys out of a good cache. *)
LEMMA WithoutKeysGood ==
    ASSUME burst \in Bursts, NEW c, GoodCache(c), NEW K
    PROVE  LET r == WithoutKeys(c, K)
           IN  GoodCache(r) /\ ToSet(r) = {e \in ToSet(c) : e.key \notin K}
<1> DEFINE r == WithoutKeys(c, K)
<1>1. /\ c \in Seq(Entries) /\ KeysDiffer(c) /\ Len(c) <= MaxEntries
      /\ CachedBytes(c) <= MaxBytes /\ \A x \in ToSet(c) : EntryOK(x)
  BY DEF GoodCache
<1>2. /\ r \in Seq(Entries) /\ KeysDiffer(r) /\ Len(r) <= Len(c)
      /\ ToSet(r) = {e \in ToSet(c) : e.key \notin K}
  BY <1>1, WithoutKeysFacts
<1> HIDE DEF r
<1>3. Len(r) <= MaxEntries
  BY <1>1, <1>2, LenProperties, ReasmConstants
<1>4. BytesOf(ToSet(r)) \in Nat /\ BytesOf(ToSet(c)) \in Nat
      /\ BytesOf(ToSet(r)) <= BytesOf(ToSet(c))
  <2>1. Sized(ToSet(c)) /\ ToSet(r) \in SUBSET ToSet(c)
    BY <1>1, <1>2, EntriesSized
  <2> QED
    BY <2>1, BytesPart
<1>5. CachedBytes(r) <= MaxBytes
  BY <1>1, <1>4, CacheBytesOf, ReasmConstants
<1>6. \A x \in ToSet(r) : EntryOK(x)
  BY <1>1, <1>2
<1> QED
  BY <1>1, <1>2, <1>3, <1>5, <1>6 DEF GoodCache, r

(* The cache after a fragment: its entries keep the limits, and each of their
   fragments was cached before or is the one that arrived. *)
KnownEntries(x, p, f) == x = <<p, f>> \/ \E z \in ToSet(cache) : x \in z.got

LEMMA GrownCache ==
    ASSUME burst \in Bursts, GoodCache(cache), NEW p \in burst, NEW f \in 0..(p.count - 1),
           LET o == Open(cache, p)
               e == Get(o, p)
           IN  ~Duplicate(e, f) /\ e.count = p.count /\ ~OverLimit(o, e, p)
    PROVE  LET o == Open(cache, p)
               e == Get(o, p)
               grown == [e EXCEPT !.got = @ \cup {<<p, f>>}]
               r == Put(o, p, grown)
           IN  /\ r \in Seq(Entries) /\ KeysDiffer(r) /\ Len(r) <= MaxEntries
               /\ CachedBytes(r) <= MaxBytes /\ Size(grown) <= MaxPacket
               /\ ToSet(r) = {x \in ToSet(o) : x.key # KeyOf(p)} \cup {grown}
<1> DEFINE o == Open(cache, p)
           e == Get(o, p)
           grown == [e EXCEPT !.got = @ \cup {<<p, f>>}]
           others == {x \in ToSet(o) : x.key # KeyOf(p)}
           r == Put(o, p, grown)
<1>1. /\ GoodCache(o) /\ Held(o, p)
      /\ e \in ToSet(o) /\ e \in Entries /\ EntryOK(e) /\ e.key = KeyOf(p)
  BY OpenFacts
<1>2. ~Duplicate(e, f) /\ e.count = p.count /\ ~OverLimit(o, e, p)
  OBVIOUS
<1> HIDE DEF o, e
<1>3. /\ o \in Seq(Entries) /\ KeysDiffer(o) /\ Len(o) <= MaxEntries
      /\ CachedBytes(o) <= MaxBytes /\ \A x \in ToSet(o) : EntryOK(x)
  BY <1>1 DEF GoodCache
<1>4. /\ grown \in Entries /\ grown.key = KeyOf(p) /\ Size(grown) = Size(e) + p.len
      /\ Size(e) \in Nat /\ p.len \in Nat
  BY <1>1, <1>2, GrownFacts DEF EntryOK
<1> HIDE DEF grown
<1>5. /\ r \in Seq(Entries) /\ KeysDiffer(r) /\ Len(r) <= MaxEntries
      /\ ToSet(r) = others \cup {grown}
  BY <1>1, <1>3, <1>4, PutFacts
<1> HIDE DEF r
<1>6. ToSet(o) = others \cup {e} /\ e \notin others /\ grown \notin others
  <2>1. ASSUME NEW x \in ToSet(o), x.key = KeyOf(p) PROVE x = e
    BY <2>1, <1>1, <1>3, GetFacts DEF e
  <2> QED
    BY <2>1, <1>1, <1>4
<1>7. Sized(others)
  <2>1. Sized(ToSet(o)) /\ others \in SUBSET ToSet(o)
    BY <1>3, EntriesSized
  <2> HIDE DEF others
  <2> QED
    BY <2>1, FS_Subset DEF Sized
<1> HIDE DEF others
<1>8. BytesOf(others) \in Nat /\ BytesOf(ToSet(o)) = BytesOf(others) + Size(e)
      /\ BytesOf(ToSet(r)) = BytesOf(others) + Size(grown)
  <2>1. Size(grown) \in Nat
    BY <1>4
  <2> QED
    BY <2>1, <1>4, <1>5, <1>6, <1>7, BytesWith
<1>9. Size(e) + p.len <= MaxPacket /\ CachedBytes(o) + p.len <= MaxBytes
  <2>1. CachedBytes(o) \in Nat
    BY <1>4, <1>8, CacheBytesOf
  <2> QED
    BY <2>1, <1>2, <1>4, ReasmConstants DEF OverLimit
<1>10. CachedBytes(r) <= MaxBytes
  BY <1>4, <1>8, <1>9, CacheBytesOf, ReasmConstants
<1> QED
  BY <1>4, <1>5, <1>9, <1>10 DEF o, e, grown, r, others

LEMMA PrepareFacts ==
    ASSUME burst \in Bursts, GoodCache(cache), NEW p \in burst, NEW f \in 0..(p.count - 1)
    PROVE  LET c == Prepare(cache, p, f).cache
               g == Prepare(cache, p, f).out
           IN  /\ c \in Seq(Entries) /\ KeysDiffer(c) /\ Len(c) <= MaxEntries
               /\ CachedBytes(c) <= MaxBytes
               /\ \A z \in ToSet(c) : EntryShape(z) /\ \A x \in z.got : KnownEntries(x, p, f)
               /\ g \subseteq Fragments
               /\ \A x, y \in g : x[2] = y[2] => x = y
               /\ \A x \in g : Cardinality(g) = x[1].count /\ KeyOf(x[1]) = KeyOf(p)
               /\ g = Frags(p) \/ \A x \in g : KnownEntries(x, p, f)
<1> DEFINE o == Open(cache, p)
           e == Get(o, p)
           grown == [e EXCEPT !.got = @ \cup {<<p, f>>}]
           c == Prepare(cache, p, f).cache
           g == Prepare(cache, p, f).out
           CacheFine == /\ c \in Seq(Entries) /\ KeysDiffer(c) /\ Len(c) <= MaxEntries
                        /\ CachedBytes(c) <= MaxBytes
                        /\ \A z \in ToSet(c) : EntryShape(z) /\ \A x \in z.got : KnownEntries(x, p, f)
           OutFine == /\ g \subseteq Fragments
                      /\ \A x, y \in g : x[2] = y[2] => x = y
                      /\ \A x \in g : Cardinality(g) = x[1].count /\ KeyOf(x[1]) = KeyOf(p)
                      /\ g = Frags(p) \/ \A x \in g : KnownEntries(x, p, f)
<1>0. p.count \in Nat \ {0}
  BY ReasmConstants
<1>1. g = {} => OutFine
  OBVIOUS
<1>2. CASE p.count = 1
  <2>1. c = cache /\ (g = {} \/ g = Frags(p))
    BY <1>2 DEF Prepare
  <2>2. CacheFine
    BY <2>1 DEF GoodCache, EntryOK, KnownEntries
  <2>3. ASSUME g = Frags(p) PROVE OutFine
    <3>1. Cardinality(Frags(p)) = p.count
      BY <1>0, FragsCount
    <3>2. Frags(p) \subseteq Fragments
      BY DEF Fragments
    <3>3. \A x \in Frags(p) : x[1] = p /\ x = <<p, x[2]>>
      BY DEF Frags
    <3> HIDE DEF g
    <3> QED
      BY <2>3, <3>1, <3>2, <3>3
  <2> HIDE DEF CacheFine, OutFine
  <2>4. CacheFine /\ OutFine
    BY <1>1, <2>1, <2>2, <2>3
  <2> QED
    BY <2>4 DEF CacheFine, OutFine
<1>3. CASE p.count # 1
  <2>0. c = Reassemble(cache, p, f).cache /\ g = Reassemble(cache, p, f).out
    BY <1>3 DEF Prepare
  <2>1. /\ GoodCache(o) /\ Held(o, p)
        /\ e \in ToSet(o) /\ e \in Entries /\ EntryOK(e) /\ e.key = KeyOf(p)
        /\ (e = Get(cache, p) /\ Held(cache, p)) \/ e = NewEntry(p)
        /\ \A x \in ToSet(o) : x = e \/ x \in ToSet(cache)
    BY OpenFacts
  <2>2. \/ c = o /\ g = {}
        \/ c = Pop(o, p) /\ g = {}
        \/ /\ ~Duplicate(e, f) /\ e.count = p.count /\ ~OverLimit(o, e, p)
           /\ \/ Cardinality(grown.got) = grown.count /\ c = Pop(o, p) /\ g = grown.got
              \/ Cardinality(grown.got) # grown.count /\ c = Put(o, p, grown) /\ g = {}
    BY <2>0, ReassembleCases
  <2> HIDE DEF c, g
  <2>3. ASSUME NEW z \in ToSet(o), NEW x \in z.got PROVE KnownEntries(x, p, f)
    <3>1. z \in ToSet(cache) \/ z.got = {}
      BY <2>1, GetFacts, NewEntryFacts DEF GoodCache
    <3> QED
      BY <3>1, <2>3 DEF KnownEntries
  <2> HIDE DEF o, e
  <2>4. c = o => CacheFine
    BY <2>1, <2>3 DEF GoodCache, EntryOK
  <2>5. c = Pop(o, p) => CacheFine
    <3>1. GoodCache(Pop(o, p)) /\ ToSet(Pop(o, p)) \subseteq ToSet(o)
      BY <2>1, WithoutKeysGood DEF Pop
    <3> QED
      BY <3>1, <2>3 DEF GoodCache, EntryOK
  <2>6. ASSUME ~Duplicate(e, f), e.count = p.count, ~OverLimit(o, e, p)
        PROVE  /\ g = grown.got /\ Cardinality(grown.got) = grown.count => OutFine
               /\ c = Put(o, p, grown) /\ Cardinality(grown.got) # grown.count => CacheFine
    <3>1. /\ grown \in Entries /\ OneKey(grown) /\ grown.key = e.key /\ grown.count = e.count
          /\ grown.got = e.got \cup {<<p, f>>}
          /\ Cardinality(grown.got) # grown.count => Cardinality(grown.got) < grown.count
      BY ZenonT(60), <2>1, <2>6, GrownFacts DEF EntryOK
    <3>2. LET r == Put(o, p, grown)
          IN  /\ r \in Seq(Entries) /\ KeysDiffer(r) /\ Len(r) <= MaxEntries
              /\ CachedBytes(r) <= MaxBytes /\ Size(grown) <= MaxPacket
              /\ ToSet(r) = {x \in ToSet(o) : x.key # KeyOf(p)} \cup {grown}
      BY <2>6, GrownCache DEF o, e
    <3> HIDE DEF grown
    <3>3. \A x \in grown.got : KnownEntries(x, p, f)
      BY <3>1, <2>1, <2>3 DEF KnownEntries
    <3>4. g = grown.got /\ Cardinality(grown.got) = grown.count => OutFine
      BY <3>1, <3>3, <2>1, <2>6 DEF OneKey, Entries
    <3>5. Cardinality(grown.got) # grown.count => EntryShape(grown)
      <4>1. grown.key = KeyOf(p) /\ grown.count = p.count
        BY <3>1, <2>1, <2>6
      <4> QED
        BY <4>1, <3>1, <3>2 DEF EntryShape
    <3>6. c = Put(o, p, grown) /\ Cardinality(grown.got) # grown.count => CacheFine
      BY <3>2, <3>3, <3>5, <2>1, <2>3 DEF GoodCache, EntryOK
    <3> QED
      BY <3>4, <3>6
  <2> HIDE DEF CacheFine, OutFine
  <2>7. CacheFine /\ OutFine
    BY <1>1, <2>2, <2>4, <2>5, <2>6
  <2> QED
    BY <2>7 DEF CacheFine, OutFine, c, g
<1> QED
  BY <1>2, <1>3

(* A packet alone with its key has its entry to itself. *)
LEMMA AloneInEntry ==
    ASSUME burst \in Bursts, NEW p \in burst, KeyAlone(p), NEW e \in Entries, EntryShape(e),
           e.key = KeyOf(p)
    PROVE  e.count = p.count /\ e.got \subseteq Frags(p)
<1>1. PICK q \in burst : e.key = KeyOf(q) /\ e.count = q.count
  BY DEF EntryShape
<1>2. q = p
  BY <1>1 DEF KeyAlone
<1>3. ASSUME NEW x \in e.got PROVE x \in Frags(p)
  <2>1. x \in Fragments /\ KeyOf(x[1]) = e.key
    BY DEF Entries, EntryShape, OneKey
  <2>2. x[1] \in burst /\ x \in Frags(x[1])
    BY <2>1, FragmentFacts
  <2>3. x[1] = p
    BY <2>1, <2>2 DEF KeyAlone
  <2> QED
    BY <2>2, <2>3
<1> QED
  BY <1>1, <1>2, <1>3

(* The cached part of a packet, and what a fragment does to it. *)
Cached(c, p) == \A x \in Frags(p) \ toArrive : \E e \in ToSet(c) : e.key = KeyOf(p) /\ x \in e.got

LEMMA OwnFragment ==
    ASSUME burst \in Bursts, GoodCache(cache), NEW p \in burst, NEW f \in 0..(p.count - 1),
           KeyAlone(p), p.addr, Cached(cache, p), p.count = 1 \/ p \notin Spoils(cache, p, f)
    PROVE  \/ Prepare(cache, p, f).out = Frags(p)
           \/ \A x \in (Frags(p) \ toArrive) \cup {<<p, f>>} :
                 \E z \in ToSet(Prepare(cache, p, f).cache) : z.key = KeyOf(p) /\ x \in z.got
<1> DEFINE o == Open(cache, p)
           e == Get(o, p)
           grown == [e EXCEPT !.got = @ \cup {<<p, f>>}]
           c == Prepare(cache, p, f).cache
           g == Prepare(cache, p, f).out
<1>0. p.count \in Nat \ {0}
  BY ReasmConstants
<1>1. CASE p.count = 1
  BY <1>1 DEF Prepare
<1>2. CASE p.count # 1
  <2>0. c = Reassemble(cache, p, f).cache /\ g = Reassemble(cache, p, f).out
    BY <1>2 DEF Prepare
  <2>1. /\ GoodCache(o) /\ Held(o, p)
        /\ e \in ToSet(o) /\ e \in Entries /\ EntryOK(e) /\ e.key = KeyOf(p)
        /\ e = IF Held(cache, p) /\ (rule = "hysteria2" => Get(cache, p).count = p.count)
               THEN Get(cache, p) ELSE NewEntry(p)
    BY OpenFacts
  <2>2. \/ rule = "hysteria2" /\ Duplicate(e, f) /\ c = o /\ g = {}
        \/ (rule # "hysteria2" /\ TuicRefuses(e, p, f)) \/ OverLimit(o, e, p)
        \/ /\ ~Duplicate(e, f) /\ e.count = p.count /\ ~OverLimit(o, e, p)
           /\ \/ Cardinality(grown.got) = grown.count /\ c = Pop(o, p) /\ g = grown.got
              \/ Cardinality(grown.got) # grown.count /\ c = Put(o, p, grown) /\ g = {}
    BY <2>0, ReassembleCases
  <2>3. e.count = p.count /\ e.got \subseteq Frags(p)
    BY <2>1, AloneInEntry DEF EntryOK
  <2>4. ~OverLimit(o, e, p) /\ (rule # "hysteria2" => ~Duplicate(e, f))
    <3> SUFFICES ASSUME OverLimit(o, e, p) \/ (rule # "hysteria2" /\ Duplicate(e, f))
                 PROVE  p \in Spoils(cache, p, f)
      BY <1>2
    <3> QED
      BY DEF Spoils
  <2>5. ~(rule # "hysteria2" /\ TuicRefuses(e, p, f))
    BY <2>3, <2>4 DEF TuicRefuses
  <2>6. ASSUME NEW x \in Frags(p) \ toArrive PROVE x \in e.got
    <3>1. PICK z \in ToSet(cache) : z.key = KeyOf(p) /\ x \in z.got
      BY <2>6 DEF Cached
    <3>2. z \in Entries /\ EntryOK(z)
      BY ElementOfSeq, LenProperties DEF GoodCache, ToSet
    <3>3. z.count = p.count
      BY <3>1, <3>2, AloneInEntry DEF EntryOK
    <3>4. Held(cache, p) /\ Get(cache, p) = z
      BY <3>1, GetFacts DEF GoodCache
    <3> QED
      BY <3>1, <3>3, <3>4, <2>1
  <2> HIDE DEF o, e, c, g
  <2>7. CASE rule = "hysteria2" /\ Duplicate(e, f) /\ c = o /\ g = {}
    <3>1. PICK y \in e.got : y[2] = f
      BY <2>7 DEF Duplicate
    <3>2. y = <<p, f>>
      BY <3>1, <2>3 DEF Frags
    <3> QED
      BY <3>1, <3>2, <2>1, <2>6, <2>7 DEF c
  <2>8. CASE ~Duplicate(e, f) /\ Cardinality(grown.got) = grown.count /\ g = grown.got
    <3>1. grown.count = p.count /\ grown.got = e.got \cup {<<p, f>>}
      BY <2>1, <2>3, <2>8, GrownFacts DEF EntryOK
    <3> HIDE DEF grown
    <3>2. IsFiniteSet(Frags(p)) /\ Cardinality(Frags(p)) = p.count
      BY <1>0, FragsCount
    <3>3. grown.got \subseteq Frags(p)
      BY <3>1, <2>3 DEF Frags
    <3>4. grown.got = Frags(p)
      BY <2>8, <3>1, <3>2, <3>3, FS_Subset
    <3> QED
      BY <3>4, <2>8 DEF g
  <2>9. CASE /\ ~Duplicate(e, f) /\ ~OverLimit(o, e, p)
             /\ c = Put(o, p, grown)
    <3>1. grown.key = KeyOf(p) /\ grown.got = e.got \cup {<<p, f>>}
      BY <2>1, <2>3, <2>9, GrownFacts DEF EntryOK
    <3>2. ToSet(Put(o, p, grown)) = {x \in ToSet(o) : x.key # KeyOf(p)} \cup {grown}
      BY <2>3, <2>9, GrownCache DEF o, e
    <3> HIDE DEF grown
    <3>3. grown \in ToSet(c)
      BY <3>2, <2>9
    <3> QED
      BY <3>1, <3>3, <2>6 DEF c
  <2> QED
    BY <2>2, <2>4, <2>5, <2>7, <2>8, <2>9
<1> QED
  BY <1>1, <1>2

LEMMA OthersFragment ==
    ASSUME burst \in Bursts, GoodCache(cache), NEW p \in burst, NEW f \in 0..(p.count - 1),
           NEW q \in burst, KeyOf(q) # KeyOf(p), Cached(cache, q),
           p.count = 1 \/ q \notin Spoils(cache, p, f)
    PROVE  Cached(Prepare(cache, p, f).cache, q)
<1> DEFINE o == Open(cache, p)
           e == Get(o, p)
           grown == [e EXCEPT !.got = @ \cup {<<p, f>>}]
           c == Prepare(cache, p, f).cache
           g == Prepare(cache, p, f).out
<1> SUFFICES ASSUME NEW x \in Frags(q) \ toArrive
             PROVE  \E z \in ToSet(c) : z.key = KeyOf(q) /\ x \in z.got
  BY DEF Cached
<1>1. PICK z \in ToSet(cache) : z.key = KeyOf(q) /\ x \in z.got
  BY DEF Cached
<1>2. CASE p.count = 1
  <2>1. c = cache
    BY <1>2 DEF Prepare
  <2> QED
    BY <1>1, <2>1
<1>3. CASE p.count # 1
  <2>0. c = Reassemble(cache, p, f).cache
    BY <1>3 DEF Prepare
  <2>1. /\ GoodCache(o) /\ e.key = KeyOf(p)
        /\ \A y \in ToSet(o) : y = e \/ y \in ToSet(cache)
    BY OpenFacts
  <2>2. \/ c = o
        \/ c = Pop(o, p)
        \/ /\ ~Duplicate(e, f) /\ e.count = p.count /\ ~OverLimit(o, e, p)
           /\ c = Put(o, p, grown)
    BY <2>0, ReassembleCases
  <2>3. z \in ToSet(o)
    <3>1. q \in In(z)
      <4>1. x[1] = q
        BY DEF Frags
      <4> QED
        BY <4>1, <1>1 DEF In
    <3>2. PICK k \in DOMAIN cache : z = cache[k]
      BY DEF ToSet
    <3>3. \E j \in DOMAIN o : o[j].key = cache[k].key
      <4>1. ASSUME ~\E j \in DOMAIN o : o[j].key = cache[k].key PROVE FALSE
        <5>1. k \in GivenUp(cache, o) /\ q \in In(cache[k])
          BY <4>1, <3>1, <3>2 DEF GivenUp
        <5> QED
          BY <5>1, <1>3 DEF Spoils
      <4> QED
        BY <4>1
    <3>4. PICK j \in DOMAIN o : o[j].key = z.key
      BY <3>2, <3>3
    <3>5. o[j] \in ToSet(o)
      BY DEF ToSet
    <3>6. o[j] \in ToSet(cache)
      BY <3>4, <3>5, <2>1, <1>1
    <3>7. PICK i \in DOMAIN cache : o[j] = cache[i]
      BY <3>6 DEF ToSet
    <3>8. i = k
      BY <3>2, <3>4, <3>7 DEF GoodCache, KeysDiffer
    <3> QED
      BY <3>2, <3>5, <3>7, <3>8
  <2> HIDE DEF o, e, c
  <2>4. z \in ToSet(Pop(o, p))
    BY <2>1, <2>3, <1>1, WithoutKeysGood DEF Pop
  <2>5. ASSUME ~Duplicate(e, f), e.count = p.count, ~OverLimit(o, e, p)
        PROVE  z \in ToSet(Put(o, p, grown))
    <3>1. ToSet(Put(o, p, grown)) = {y \in ToSet(o) : y.key # KeyOf(p)} \cup {grown}
      BY <2>5, GrownCache DEF o, e
    <3> QED
      BY <3>1, <2>3, <1>1
  <2>6. z \in ToSet(c)
    BY <2>2, <2>3, <2>4, <2>5
  <2> QED
    BY <2>6, <1>1 DEF c
<1> QED
  BY <1>2, <1>3

-----------------------------------------------------------------------------
(* The steps. *)
LEMMA ReasmInitially == ReasmInit => ReasmIInv
<1> SUFFICES ASSUME ReasmInit PROVE ReasmIInv
  OBVIOUS
<1>1. burst \in Bursts /\ rule \in {"tuic_stream", "tuic_datagram", "hysteria2"}
      /\ dups \in 0..MaxDups /\ lives \in [{p.assoc : p \in burst} -> Nat]
      /\ toArrive \subseteq Fragments
  BY ReasmConstants DEF ReasmInit, Fragments
<1>2. cache = <<>> /\ whole = {}
  BY DEF ReasmInit
<1>3. ToSet(<<>>) = {} /\ <<>> \in Seq(Entries) /\ Len(<<>>) = 0
  BY EmptySeq DEF ToSet
<1>4. CachedBytes(<<>>) = 0
  <2>1. [e \in {} |-> Size(e)] \in [{} -> Nat] /\ IsFiniteSet({})
    BY FS_EmptySet
  <2>2. SumFunction([e \in {} |-> Size(e)]) = 0
    BY <2>1, SumOfNothing
  <2> QED
    BY <2>2, <1>3 DEF CachedBytes
<1>5. GoodCache(<<>>)
  BY <1>3, <1>4, ReasmConstants DEF GoodCache, KeysDiffer
<1>6. PacketsNotMixed
  BY <1>2 DEF PacketsNotMixed
<1>7. ASSUME NEW p \in burst PROVE Kept(p)
  <2>1. Frags(p) \ toArrive = {}
    BY DEF ReasmInit
  <2> QED
    BY <2>1 DEF Kept
<1> QED
  BY <1>1, <1>2, <1>5, <1>6, <1>7 DEF ReasmIInv

LEMMA ArriveKeeps ==
    ASSUME ReasmIInv, NEW p \in burst, NEW f \in 0..(p.count - 1), Arrive(p, f)
    PROVE  ReasmIInv'
<1> DEFINE c == Prepare(cache, p, f).cache
           g == Prepare(cache, p, f).out
<1>0. /\ burst \in Bursts /\ GoodCache(cache) /\ PacketsNotMixed /\ \A q \in burst : Kept(q)
      /\ rule \in {"tuic_stream", "tuic_datagram", "hysteria2"} /\ dups \in 0..MaxDups
      /\ lives \in [{q.assoc : q \in burst} -> Nat] /\ toArrive \subseteq Fragments
  BY DEF ReasmIInv
<1>1. /\ burst' = burst /\ rule' = rule /\ lives' = lives /\ cache' = c
      /\ whole' = IF g = {} THEN whole ELSE whole \cup {g}
      /\ overtaken' = IF p.life < lives[p.assoc] THEN overtaken \cup {p} ELSE overtaken
      /\ spoiled' = IF p.count = 1 THEN spoiled
                    ELSE spoiled \cup {q \in Spoils(cache, p, f) : KeyAlone(q)}
      /\ p.life <= lives[p.assoc] /\ <<p, f>> \in toArrive
      /\ toArrive' \in {toArrive, toArrive \ {<<p, f>>}}
  BY DEF Arrive
<1>2. dups' \in 0..MaxDups
  BY <1>0, ReasmConstants DEF Arrive
<1>3. Fragments' = Fragments /\ Entries' = Entries
  BY <1>1 DEF Fragments, Entries
<1>4. /\ c \in Seq(Entries) /\ KeysDiffer(c) /\ Len(c) <= MaxEntries
      /\ CachedBytes(c) <= MaxBytes
      /\ \A z \in ToSet(c) : EntryShape(z) /\ \A x \in z.got : KnownEntries(x, p, f)
      /\ g \subseteq Fragments
      /\ \A x, y \in g : x[2] = y[2] => x = y
      /\ \A x \in g : Cardinality(g) = x[1].count /\ KeyOf(x[1]) = KeyOf(p)
      /\ g = Frags(p) \/ \A x \in g : KnownEntries(x, p, f)
  BY <1>0, PrepareFacts
<1>5. p.life \in Nat /\ lives[p.assoc] \in Nat
  BY <1>0, ReasmConstants
<1>6. ASSUME NEW x, KnownEntries(x, p, f), rule # "tuic_datagram"
      PROVE  x[1].life = lives[x[1].assoc] \/ x[1] \in overtaken'
  <2>1. CASE x = <<p, f>>
    <3>1. x[1] = p
      BY <2>1
    <3> QED
      BY <3>1, <1>1, <1>5
  <2>2. CASE \E z \in ToSet(cache) : x \in z.got
    BY <2>2, <1>0, <1>1, <1>6 DEF GoodCache, EntryOK, OfThisLife
  <2> QED
    BY <2>1, <2>2, <1>6 DEF KnownEntries
<1> HIDE DEF c, g
<1>7. GoodCache(cache)'
  <2>1. ASSUME NEW z \in ToSet(c) PROVE EntryShape(z)' /\ OfThisLife(z)'
    <3>1. EntryShape(z)'
      BY <1>1, <1>4 DEF EntryShape, OneKey
    <3>2. OfThisLife(z)'
      BY <1>1, <1>4, <1>6 DEF OfThisLife
    <3> QED
      BY <3>1, <3>2
  <2>2. \A z \in ToSet(cache') : EntryOK(z)'
    BY <2>1, <1>1 DEF EntryOK
  <2> QED
    BY <2>2, <1>1, <1>3, <1>4 DEF GoodCache
<1>8. PacketsNotMixed'
  <2> DEFINE Fine(h) ==
               /\ \A x, y \in h : x[2] = y[2] => x = y
               /\ \A x \in h : Cardinality(h) = x[1].count
               /\ \A x, y \in h : /\ KeyOf(x[1]) = KeyOf(y[1])
                                  /\ x[1].life # y[1].life => \/ rule = "tuic_datagram"
                                                              \/ {x[1], y[1]} \cap overtaken' # {}
  <2>1. \A h \in whole : Fine(h)
    <3>1. overtaken \subseteq overtaken'
      BY <1>1
    <3> QED
      BY <3>1, <1>0 DEF PacketsNotMixed
  <2>2. Fine(g)
    <3>1. ASSUME NEW x \in g, NEW y \in g, x[1].life # y[1].life, rule # "tuic_datagram"
          PROVE  {x[1], y[1]} \cap overtaken' # {}
      <4>1. x[1].assoc = y[1].assoc
        BY <1>4 DEF KeyOf
      <4>2. CASE g = Frags(p)
        <5>1. x[1] = p /\ y[1] = p
          BY <4>2 DEF Frags
        <5> QED
          BY <5>1, <3>1
      <4>3. CASE \A z \in g : KnownEntries(z, p, f)
        <5>1. KnownEntries(x, p, f) /\ KnownEntries(y, p, f)
          BY <4>3
        <5>2. /\ x[1].life = lives[x[1].assoc] \/ x[1] \in overtaken'
              /\ y[1].life = lives[y[1].assoc] \/ y[1] \in overtaken'
          BY <5>1, <1>6, <3>1
        <5> QED
          BY <5>2, <4>1, <3>1
      <4> QED
        BY <4>2, <4>3, <1>4
    <3> QED
      BY <3>1, <1>4
  <2>3. \A h \in whole' : Fine(h)
    <3> HIDE DEF Fine
    <3> QED
      BY <2>1, <2>2, <1>1
  <2> QED
    BY <2>3, <1>1 DEF PacketsNotMixed
<1>9. ASSUME NEW q \in burst PROVE Kept(q)'
  <2> SUFFICES ASSUME KeyAlone(q), q \notin spoiled', q.addr, Frags(q) \notin whole'
               PROVE  \A x \in Frags(q) \ toArrive' :
                         \E z \in ToSet(c) : z.key = KeyOf(q) /\ x \in z.got
    BY <1>1 DEF Kept, KeyAlone
  <2>1. q \notin spoiled /\ Frags(q) \notin whole
    BY <1>1
  <2>2. Cached(cache, q)
    BY <2>1, <1>0 DEF Kept, Cached
  <2>3. p.count = 1 \/ q \notin Spoils(cache, p, f)
    BY <1>1
  <2>4. CASE q = p
    <3>1. \/ g = Frags(p)
          \/ \A x \in (Frags(p) \ toArrive) \cup {<<p, f>>} :
                \E z \in ToSet(c) : z.key = KeyOf(p) /\ x \in z.got
      BY <2>2, <2>3, <2>4, <1>0, OwnFragment DEF c, g
    <3>2. <<p, f>> \in Frags(p)
      BY DEF Frags
    <3>3. g # Frags(p)
      BY <3>2, <2>4, <1>1
    <3>4. Frags(p) \ toArrive' \subseteq (Frags(p) \ toArrive) \cup {<<p, f>>}
      BY <1>1
    <3> QED
      BY <3>1, <3>3, <3>4, <2>4
  <2>5. CASE q # p
    <3>1. KeyOf(q) # KeyOf(p)
      BY <2>5 DEF KeyAlone
    <3>2. Cached(c, q)
      BY <3>1, <2>2, <2>3, <1>0, OthersFragment DEF c
    <3>3. <<p, f>> \notin Frags(q)
      BY <2>5 DEF Frags
    <3>4. Frags(q) \ toArrive' \subseteq Frags(q) \ toArrive
      BY <3>3, <1>1
    <3> QED
      BY <3>2, <3>4 DEF Cached
  <2> QED
    BY <2>4, <2>5
<1>10. toArrive' \subseteq Fragments'
  BY <1>0, <1>1, <1>3
<1> QED
  BY <1>0, <1>1, <1>2, <1>7, <1>8, <1>9, <1>10 DEF ReasmIInv

LEMMA TakeUpAgainKeeps ==
    ASSUME ReasmIInv, NEW a \in {p.assoc : p \in burst}, TakeUpAgain(a)
    PROVE  ReasmIInv'
<1> DEFINE K == {e.key : e \in {x \in ToSet(cache) : x.key[1] = a}}
           c == WithoutKeys(cache, K)
<1>0. /\ burst \in Bursts /\ GoodCache(cache) /\ PacketsNotMixed /\ \A q \in burst : Kept(q)
      /\ rule \in {"tuic_stream", "tuic_datagram", "hysteria2"} /\ dups \in 0..MaxDups
      /\ lives \in [{q.assoc : q \in burst} -> Nat] /\ toArrive \subseteq Fragments
  BY DEF ReasmIInv
<1>1. /\ burst' = burst /\ rule' = rule /\ toArrive' = toArrive /\ dups' = dups /\ whole' = whole
      /\ overtaken' = overtaken /\ lives' = [lives EXCEPT ![a] = @ + 1]
      /\ cache' = IF rule = "tuic_datagram" THEN cache ELSE c
      /\ spoiled' = spoiled \cup {p \in burst : p.assoc = a /\ KeyAlone(p)}
  BY DEF TakeUpAgain, Purged
<1>2. lives' \in [{q.assoc : q \in burst'} -> Nat]
  BY <1>0, <1>1
<1>3. Fragments' = Fragments /\ Entries' = Entries
  BY <1>1 DEF Fragments, Entries
<1>4. GoodCache(c) /\ ToSet(c) = {e \in ToSet(cache) : e.key[1] # a}
  <2>1. GoodCache(c) /\ ToSet(c) = {e \in ToSet(cache) : e.key \notin K}
    <3> HIDE DEF K
    <3> QED
      BY <1>0, WithoutKeysGood
  <2>2. \A e \in ToSet(cache) : e.key \in K <=> e.key[1] = a
    OBVIOUS
  <2> HIDE DEF c, K
  <2> QED
    BY <2>1, <2>2
<1> HIDE DEF c
<1>5. GoodCache(cache')
  BY <1>0, <1>1, <1>4
<1>6. ASSUME NEW z \in ToSet(cache') PROVE EntryOK(z)'
  <2>1. EntryOK(z)
    BY <1>5 DEF GoodCache
  <2>2. EntryShape(z)'
    BY <2>1, <1>1 DEF EntryOK, EntryShape, OneKey
  <2>3. ASSUME NEW x \in z.got, rule # "tuic_datagram"
        PROVE  x[1].life = lives'[x[1].assoc] \/ x[1] \in overtaken
    <3>1. z.key[1] # a /\ z \in ToSet(cache)
      BY <1>1, <1>4, <2>3
    <3>2. KeyOf(x[1]) = z.key
      BY <2>1 DEF EntryOK, EntryShape, OneKey
    <3>3. x[1].assoc # a
      BY <3>1, <3>2 DEF KeyOf
    <3>4. x \in Fragments
      <4>1. z \in Entries
        BY <3>1, <1>0, ElementOfSeq, LenProperties DEF GoodCache, ToSet
      <4> QED
        BY <4>1 DEF Entries
    <3>5. x[1] \in burst
      BY <3>4, <1>0, FragmentFacts
    <3>6. lives'[x[1].assoc] = lives[x[1].assoc]
      BY <3>3, <3>5, <1>0, <1>1
    <3> QED
      BY <3>6, <2>1, <2>3 DEF EntryOK, OfThisLife
  <2> QED
    BY <2>2, <2>3, <1>1 DEF EntryOK, OfThisLife
<1>7. GoodCache(cache)'
  BY <1>3, <1>5, <1>6 DEF GoodCache
<1>8. PacketsNotMixed'
  BY <1>0, <1>1 DEF PacketsNotMixed
<1>9. ASSUME NEW q \in burst PROVE Kept(q)'
  <2> SUFFICES ASSUME KeyAlone(q), q \notin spoiled', q.addr, Frags(q) \notin whole
               PROVE  \A x \in Frags(q) \ toArrive :
                         \E z \in ToSet(cache') : z.key = KeyOf(q) /\ x \in z.got
    BY <1>1 DEF Kept, KeyAlone
  <2>1. q \notin spoiled /\ q.assoc # a
    BY <1>1
  <2>2. Cached(cache, q)
    BY <2>1, <1>0 DEF Kept, Cached
  <2>3. KeyOf(q)[1] # a
    BY <2>1 DEF KeyOf
  <2>4. ASSUME NEW z \in ToSet(cache), z.key = KeyOf(q) PROVE z \in ToSet(cache')
    BY <2>3, <2>4, <1>1, <1>4
  <2> QED
    BY <2>2, <2>4 DEF Cached
<1> QED
  BY <1>0, <1>1, <1>2, <1>3, <1>7, <1>8, <1>9 DEF ReasmIInv

LEMMA ReasmStep == ReasmIInv /\ [ReasmNext]_reasmVars => ReasmIInv'
<1> SUFFICES ASSUME ReasmIInv, [ReasmNext]_reasmVars PROVE ReasmIInv'
  OBVIOUS
<1>1. ASSUME NEW p \in burst, NEW f \in 0..(p.count - 1), Arrive(p, f) PROVE ReasmIInv'
  BY <1>1, ArriveKeeps
<1>2. ASSUME NEW a \in {p.assoc : p \in burst}, TakeUpAgain(a) PROVE ReasmIInv'
  BY <1>2, TakeUpAgainKeeps
<1>3. CASE UNCHANGED reasmVars
  BY <1>3 DEF reasmVars, ReasmIInv, Fragments, Entries, GoodCache, EntryOK, EntryShape, OneKey,
              OfThisLife, PacketsNotMixed, Kept, KeyAlone
<1> QED
  BY <1>1, <1>2, <1>3 DEF ReasmNext

LEMMA ReasmIInvIsSafe == ReasmIInv => ReassemblySafe
<1> SUFFICES ASSUME ReasmIInv PROVE ReassemblySafe
  OBVIOUS
<1>0. /\ burst \in Bursts /\ GoodCache(cache) /\ PacketsNotMixed /\ \A q \in burst : Kept(q)
      /\ rule \in {"tuic_stream", "tuic_datagram", "hysteria2"} /\ dups \in 0..MaxDups
  BY DEF ReasmIInv
<1>1. /\ cache \in Seq(Entries) /\ KeysDiffer(cache) /\ Len(cache) <= MaxEntries
      /\ CachedBytes(cache) <= MaxBytes
  BY <1>0 DEF GoodCache
<1>2. ASSUME NEW k \in DOMAIN cache PROVE cache[k] \in Entries /\ EntryOK(cache[k])
  BY <1>0, <1>1, ElementOfSeq, LenProperties DEF GoodCache, ToSet
<1>3. ReasmTypeOK
  BY <1>0, <1>2 DEF ReasmTypeOK, Entries, Fragments
<1>4. CacheBounded
  BY <1>1, <1>2 DEF CacheBounded, KeysDiffer, EntryOK, EntryShape
<1>5. CompleteIsForwarded
  <2> SUFFICES ASSUME NEW p \in burst, Frags(p) \cap toArrive = {}, p \notin spoiled,
                      KeyAlone(p), p.addr, Frags(p) \notin whole
               PROVE  FALSE
    BY DEF CompleteIsForwarded
  <2>1. p.count \in Nat \ {0}
    BY <1>0, ReasmConstants
  <2>2. \A x \in Frags(p) : \E e \in ToSet(cache) : e.key = KeyOf(p) /\ x \in e.got
    BY <1>0 DEF Kept
  <2>3. <<p, 0>> \in Frags(p)
    BY <2>1 DEF Frags
  <2>4. PICK e \in ToSet(cache) : e.key = KeyOf(p)
    BY <2>2, <2>3
  <2>5. \A z \in ToSet(cache) : z.key = KeyOf(p) => z = e
    BY <2>4, <1>1, GetFacts
  <2>6. Frags(p) \subseteq e.got
    BY <2>2, <2>5
  <2>7. e \in Entries /\ EntryOK(e)
    BY <1>2 DEF ToSet
  <2>8. e.count = p.count /\ IsFiniteSet(e.got) /\ Cardinality(e.got) < e.count
    BY <2>4, <2>7, <1>0, AloneInEntry DEF EntryOK, EntryShape, OneKey
  <2>9. Cardinality(Frags(p)) = p.count
    BY <2>1, FragsCount
  <2>10. Cardinality(Frags(p)) <= Cardinality(e.got) /\ Cardinality(e.got) \in Nat
    BY <2>6, <2>8, FS_Subset, FS_CardinalityType
  <2> QED
    BY <2>1, <2>8, <2>9, <2>10
<1> QED
  BY <1>0, <1>3, <1>4, <1>5 DEF ReassemblySafe

(* For every burst of packets and every limit: the fragment caches of TUIC and
   Hysteria2 keep their limits, forward no mixed packet, and forward a packet all of
   whose fragments arrived unless something spoiled it. *)
THEOREM ReassemblyAlwaysSafe == ReasmSpec => []ReassemblySafe
BY ReasmInitially, ReasmStep, ReasmIInvIsSafe, PTL DEF ReasmSpec

=============================================================================
