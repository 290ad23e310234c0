----------------------------- MODULE UserProofs -----------------------------
(***************************************************************************)
(* What is promised about the users of a panel: that a device limit is     *)
(* kept and a device counted (DeviceLimit); that whatever fails and        *)
(* wherever the process dies, a restart finds one revision of the panel    *)
(* (StoreConsistent of LkgStore) and the files implement the crash-proof   *)
(* cell DurableCell (Implements), as long as the save of a migrated legacy *)
(* snapshot succeeds; and that the list of the controller, the replayed    *)
(* journal, the counter of limited users and the live table agree after    *)
(* every answer (DeltasAgree of UserDelta).                                *)
(***************************************************************************)
EXTENDS DeviceLimit, LkgStore, UserDelta, FoldTheorems

-----------------------------------------------------------------------------
(* DeviceLimit. *)

(* The guards counted for an address against its open connections. *)
CountOK(u, ip) ==
    /\ alive[u][ip] <= Cardinality(OpenOn(u, ip))
    /\ u \notin churned => alive[u][ip] = Cardinality(OpenOn(u, ip))

Counts == \A u \in Users, ip \in IPs : CountOK(u, ip)

DeviceIInv == TypeOK /\ Counts

(* A slot without a connection. *)
LEMMA ClosedOK == Closed \in Connection /\ Closed.phase = "closed"
<1>1. \E c \in Connection : c.phase = "closed"
  <2>1. PICK u \in Users, ip \in IPs, lim \in Limits : TRUE
    BY DeviceConstants
  <2> DEFINE c == [phase |-> "closed", uid |-> u, ip |-> ip, limit |-> lim]
  <2>2. c \in Connection /\ c.phase = "closed"
    BY DEF Connection, Phase
  <2> QED
    BY <2>2
<1> QED
  BY <1>1 DEF Closed

(* The open connections of an address are finitely many. *)
LEMMA OpenFinite ==
    ASSUME NEW u, NEW ip
    PROVE  IsFiniteSet(OpenOn(u, ip)) /\ Cardinality(OpenOn(u, ip)) \in Nat
<1>1. OpenOn(u, ip) \in SUBSET Conns
  BY DEF OpenOn
<1> QED
  BY <1>1, DeviceConstants, FS_Subset, FS_CardinalityType

LEMMA InitIInv == Init => DeviceIInv
<1> SUFFICES ASSUME Init PROVE DeviceIInv
  OBVIOUS
<1> USE DeviceConstants, ClosedOK
<1>1. TypeOK
  BY DEF Init, TypeOK, NotReported
<1>2. ASSUME NEW u \in Users, NEW ip \in IPs
      PROVE  CountOK(u, ip)
  <2>1. OpenOn(u, ip) = {}
    BY DEF Init, OpenOn
  <2> QED
    BY <2>1, FS_EmptySet DEF Init, CountOK
<1> QED
  BY <1>1, <1>2 DEF DeviceIInv, Counts

(* Steps that neither open nor close a connection. *)
LEMMA CountsKept ==
    ASSUME DeviceIInv, UNCHANGED <<alive, churned>>,
           \A c \in Conns : \/ conn'[c] = conn[c]
                            \/ conn[c].phase # "open" /\ conn'[c].phase # "open"
    PROVE  Counts'
<1> SUFFICES ASSUME NEW u \in Users, NEW ip \in IPs
             PROVE  CountOK(u, ip)'
  BY DEF Counts
<1>1. OpenOn(u, ip)' = OpenOn(u, ip)
  BY DEF OpenOn
<1> QED
  BY <1>1 DEF DeviceIInv, Counts, CountOK

LEMMA CountsUntouched ==
    ASSUME Counts, UNCHANGED conn, UNCHANGED alive, UNCHANGED churned
    PROVE  Counts'
<1> SUFFICES ASSUME NEW u \in Users, NEW ip \in IPs
             PROVE  CountOK(u, ip)'
  BY DEF Counts
<1>1. OpenOn(u, ip)' = OpenOn(u, ip)
  BY DEF OpenOn
<1> QED
  BY <1>1 DEF Counts, CountOK

LEMMA AuthenticateStep ==
    ASSUME DeviceIInv, NEW c \in Conns, NEW u \in Users, NEW ip \in IPs, Authenticate(c, u, ip)
    PROVE  DeviceIInv'
<1>1. TypeOK'
  BY DEF DeviceIInv, TypeOK, Authenticate, Connection, Phase, LocalIPs
<1>2. ASSUME NEW d \in Conns
      PROVE  \/ conn'[d] = conn[d]
             \/ conn[d].phase # "open" /\ conn'[d].phase # "open"
  <2>1. CASE d = c
    <3>1. conn'[c] = [phase |-> "authenticated", uid |-> u, ip |-> ip, limit |-> limit[u]]
      BY DEF Authenticate, DeviceIInv, TypeOK
    <3> QED
      BY <2>1, <3>1 DEF Authenticate
  <2>2. CASE d # c
    <3>1. conn'[d] = conn[d]
      BY <2>2 DEF Authenticate, DeviceIInv, TypeOK
    <3> QED
      BY <3>1
  <2> QED
    BY <2>1, <2>2
<1>3. Counts'
  BY <1>2, CountsKept DEF Authenticate
<1> QED
  BY <1>1, <1>3 DEF DeviceIInv

LEMMA RefuseStep ==
    ASSUME DeviceIInv, NEW c \in Conns, Refuse(c)
    PROVE  DeviceIInv'
<1>1. TypeOK'
  BY ClosedOK DEF DeviceIInv, TypeOK, Refuse, LocalIPs
<1>2. ASSUME NEW d \in Conns
      PROVE  \/ conn'[d] = conn[d]
             \/ conn[d].phase # "open" /\ conn'[d].phase # "open"
  <2>1. CASE d = c
    <3>1. conn'[c] = Closed /\ conn[c].phase = "authenticated"
      BY DEF Refuse, DeviceIInv, TypeOK
    <3> QED
      BY <2>1, <3>1, ClosedOK
  <2>2. CASE d # c
    <3>1. conn'[d] = conn[d]
      BY <2>2 DEF Refuse, DeviceIInv, TypeOK
    <3> QED
      BY <3>1
  <2> QED
    BY <2>1, <2>2
<1>3. Counts'
  BY <1>2, CountsKept DEF Refuse
<1> QED
  BY <1>1, <1>3 DEF DeviceIInv

(* An admission takes a guard and opens a connection. *)
LEMMA AdmitStep ==
    ASSUME DeviceIInv, NEW c \in Conns, Admit(c)
    PROVE  DeviceIInv'
<1> DEFINE u == conn[c].uid
           ip == conn[c].ip
<1>1. u \in Users /\ ip \in IPs /\ conn[c] \in Connection
  BY DEF DeviceIInv, TypeOK, Connection
<1>2. /\ conn[c].phase = "authenticated"
      /\ conn' = [conn EXCEPT ![c].phase = "open"]
      /\ alive' = [alive EXCEPT ![u][ip] = @ + 1]
      /\ UNCHANGED <<member, limit, aliveTraffic, panelAlive, report, churned>>
  BY DEF Admit
<1>3. /\ \A v \in Users, i \in IPs : alive[v][i] \in Nat
      /\ alive \in [Users -> [IPs -> Nat]] /\ conn \in [Conns -> Connection]
  BY DEF DeviceIInv, TypeOK
<1>4. /\ alive' \in [Users -> [IPs -> Nat]]
      /\ alive'[u][ip] = alive[u][ip] + 1
      /\ \A v \in Users, i \in IPs : v # u \/ i # ip => alive'[v][i] = alive[v][i]
  BY <1>1, <1>2, <1>3
<1>5. /\ conn' \in [Conns -> Connection]
      /\ conn'[c].phase = "open" /\ conn'[c].uid = u /\ conn'[c].ip = ip
      /\ \A d \in Conns : d # c => conn'[d] = conn[d]
  BY <1>1, <1>2, <1>3 DEF Connection, Phase
<1>6. TypeOK'
  <2>1. ASSUME NEW v \in Users, LocalIPs(v)' = {}
        PROVE  LocalIPs(v) = {}
    BY <1>1, <1>3, <1>4, <2>1 DEF LocalIPs
  <2> QED
    BY <1>2, <1>4, <1>5, <2>1 DEF DeviceIInv, TypeOK
<1>7. ASSUME NEW v \in Users, NEW i \in IPs
      PROVE  CountOK(v, i)'
  <2>1. CASE v = u /\ i = ip
    <3>1. OpenOn(v, i)' = OpenOn(v, i) \cup {c} /\ c \notin OpenOn(v, i)
      BY <1>2, <1>5, <2>1 DEF OpenOn
    <3>2. Cardinality(OpenOn(v, i)') = Cardinality(OpenOn(v, i)) + 1
      BY <3>1, OpenFinite, FS_AddElement
    <3> QED
      BY <1>2, <1>3, <1>4, <2>1, <3>2, OpenFinite DEF DeviceIInv, Counts, CountOK
  <2>2. CASE ~(v = u /\ i = ip)
    <3>1. OpenOn(v, i)' = OpenOn(v, i)
      BY <1>2, <1>5, <2>2 DEF OpenOn
    <3> QED
      BY <1>2, <1>4, <2>2, <3>1 DEF DeviceIInv, Counts, CountOK
  <2> QED
    BY <2>1, <2>2
<1> QED
  BY <1>6, <1>7 DEF DeviceIInv, Counts

(* The drop of a guard releases what its admission took. *)
LEMMA CloseStep ==
    ASSUME DeviceIInv, NEW c \in Conns, Close(c)
    PROVE  DeviceIInv'
<1> DEFINE u == conn[c].uid
           ip == conn[c].ip
           n == IF alive[u][ip] = 0 THEN 0 ELSE alive[u][ip] - 1
           gone == LocalIPs(u) # {} /\ (IF n = 0 THEN LocalIPs(u) \ {ip}
                                                 ELSE LocalIPs(u)) = {}
<1>1. u \in Users /\ ip \in IPs /\ conn[c] \in Connection
  BY DEF DeviceIInv, TypeOK, Connection
<1>2. /\ conn[c].phase = "open"
      /\ conn' = [conn EXCEPT ![c] = Closed]
      /\ alive' = [alive EXCEPT ![u][ip] = n]
      /\ aliveTraffic' = [aliveTraffic EXCEPT ![u] = IF gone THEN 0 ELSE @]
      /\ UNCHANGED <<member, limit, panelAlive, report, churned>>
  BY DEF Close
<1>3. /\ \A v \in Users, i \in IPs : alive[v][i] \in Nat
      /\ alive \in [Users -> [IPs -> Nat]] /\ conn \in [Conns -> Connection]
  BY DEF DeviceIInv, TypeOK
<1>4. n \in Nat /\ n <= alive[u][ip]
  <2>1. alive[u][ip] \in Nat
    <3> HIDE DEF u, ip
    <3> QED
      BY <1>1, <1>3
  <2> HIDE DEF u, ip, gone
  <2> QED
    BY <2>1
<1> HIDE DEF n
<1>5. /\ alive' \in [Users -> [IPs -> Nat]]
      /\ alive'[u][ip] = n
      /\ \A v \in Users, i \in IPs : v # u \/ i # ip => alive'[v][i] = alive[v][i]
  BY <1>1, <1>2, <1>3, <1>4
<1>6. /\ conn' \in [Conns -> Connection]
      /\ conn'[c].phase = "closed"
      /\ \A d \in Conns : d # c => conn'[d] = conn[d]
  BY <1>2, <1>3, ClosedOK
<1>7. TypeOK'
  <2>1. aliveTraffic' \in [Users -> 0..MaxTraffic]
    <3> HIDE DEF gone
    <3>1. /\ aliveTraffic \in [Users -> 0..MaxTraffic]
          /\ (IF gone THEN 0 ELSE aliveTraffic[u]) \in 0..MaxTraffic
      BY <1>1, DeviceConstants DEF DeviceIInv, TypeOK
    <3> QED
      BY <1>2, <3>1
  <2>2. ASSUME NEW v \in Users, LocalIPs(v)' = {}
        PROVE  aliveTraffic'[v] = 0
    <3>1. CASE v # u
      <4>1. LocalIPs(v) = {}
        BY <1>1, <1>5, <2>2, <3>1 DEF LocalIPs
      <4>2. aliveTraffic'[v] = aliveTraffic[v]
        BY <1>2, <3>1 DEF DeviceIInv, TypeOK
      <4> QED
        BY <4>1, <4>2 DEF DeviceIInv, TypeOK
    <3>2. CASE v = u /\ LocalIPs(u) = {}
      <4>1. aliveTraffic[u] = 0
        BY <1>1, <3>2 DEF DeviceIInv, TypeOK
      <4> QED
        BY <1>1, <1>2, <3>2, <4>1 DEF DeviceIInv, TypeOK
    <3>3. CASE v = u /\ LocalIPs(u) # {}
      <4>1. n = 0 /\ \A i \in IPs : i # ip => alive[u][i] = 0
        BY <1>1, <1>3, <1>4, <1>5, <2>2, <3>3 DEF LocalIPs
      <4>2. LocalIPs(u) \ {ip} = {}
        BY <4>1 DEF LocalIPs
      <4>3. gone
        BY <3>3, <4>1, <4>2
      <4> QED
        BY <1>1, <1>2, <3>3, <4>3 DEF DeviceIInv, TypeOK
    <3> QED
      BY <3>1, <3>2, <3>3
  <2> QED
    BY <1>2, <1>5, <1>6, <2>1, <2>2 DEF DeviceIInv, TypeOK
<1>8. ASSUME NEW v \in Users, NEW i \in IPs
      PROVE  CountOK(v, i)'
  <2>1. CASE v = u /\ i = ip
    <3>1. OpenOn(v, i)' = OpenOn(v, i) \ {c} /\ c \in OpenOn(v, i)
      BY <1>2, <1>6, <2>1 DEF OpenOn
    <3>2. /\ Cardinality(OpenOn(v, i)') = Cardinality(OpenOn(v, i)) - 1
          /\ Cardinality(OpenOn(v, i)) > 0
      BY <3>1, OpenFinite, FS_RemoveElement, FS_EmptySet
    <3>3. CountOK(v, i)
      BY DEF DeviceIInv, Counts
    <3>4. alive'[v][i] = IF alive[v][i] = 0 THEN 0 ELSE alive[v][i] - 1
      BY <1>5, <2>1 DEF n
    <3> QED
      BY <1>2, <1>3, <3>2, <3>3, <3>4, OpenFinite DEF CountOK
  <2>2. CASE ~(v = u /\ i = ip)
    <3>1. OpenOn(v, i)' = OpenOn(v, i)
      BY <1>2, <1>6, <2>2 DEF OpenOn
    <3> QED
      BY <1>2, <1>5, <2>2, <3>1 DEF DeviceIInv, Counts, CountOK
  <2> QED
    BY <2>1, <2>2
<1> QED
  BY <1>7, <1>8 DEF DeviceIInv, Counts

(* The online report, the panel's counts and the list leave guards alone;
   the deletion of a user forgets its guards and marks it. *)
LEMMA OtherSteps ==
    ASSUME DeviceIInv,
           \/ \E c \in Conns : AddTraffic(c)
           \/ SnapshotAlive \/ CommitAlive \/ AliveFailed \/ ReplacePanelAlive
           \/ \E u \in Users : \/ \E lim \in Limits : SetLimit(u, lim)
                               \/ RemoveUser(u) \/ AddUser(u)
           \/ UNCHANGED vars
    PROVE  DeviceIInv'
<1> USE DeviceConstants
<1>1. ASSUME NEW c \in Conns, AddTraffic(c) PROVE DeviceIInv'
  <2>1. conn[c].uid \in Users
    BY DEF DeviceIInv, TypeOK, Connection
  <2>2. TypeOK'
    BY <1>1, <2>1 DEF AddTraffic, DeviceIInv, TypeOK, LocalIPs
  <2> QED
    BY <1>1, <2>2, CountsUntouched DEF AddTraffic, DeviceIInv
<1>2. CASE SnapshotAlive
  <2>1. report' \in [Users -> 0..NotReported]
    BY <1>2 DEF SnapshotAlive, DeviceIInv, TypeOK, NotReported
  <2>2. TypeOK'
    BY <1>2, <2>1 DEF SnapshotAlive, DeviceIInv, TypeOK, LocalIPs
  <2> QED
    BY <1>2, <2>2, CountsUntouched DEF SnapshotAlive, DeviceIInv
<1>3. CASE CommitAlive
  <2>1. \A u \in Users : /\ report[u] \in Nat /\ aliveTraffic[u] \in 0..MaxTraffic
                         /\ LocalIPs(u) = {} => aliveTraffic[u] = 0
    BY DEF DeviceIInv, TypeOK, NotReported
  <2>2. /\ aliveTraffic' \in [Users -> 0..MaxTraffic]
        /\ \A u \in Users : aliveTraffic'[u] <= aliveTraffic[u]
    BY <1>3, <2>1 DEF CommitAlive
  <2>3. report' \in [Users -> 0..NotReported]
    BY <1>3 DEF CommitAlive, NotReported
  <2>4. \A u \in Users : LocalIPs(u)' = {} => aliveTraffic'[u] = 0
    BY <1>3, <2>1, <2>2 DEF CommitAlive, LocalIPs
  <2>5. TypeOK'
    BY <1>3, <2>2, <2>3, <2>4 DEF CommitAlive, DeviceIInv, TypeOK
  <2> QED
    BY <1>3, <2>5, CountsUntouched DEF CommitAlive, DeviceIInv
<1>4. CASE AliveFailed
  <2>1. TypeOK'
    BY <1>4 DEF AliveFailed, DeviceIInv, TypeOK, LocalIPs, NotReported
  <2> QED
    BY <1>4, <2>1, CountsUntouched DEF AliveFailed, DeviceIInv
<1>5. CASE ReplacePanelAlive
  <2>1. panelAlive' \in [Users -> PanelCounts \cup {0}]
    BY <1>5 DEF ReplacePanelAlive
  <2>2. TypeOK'
    BY <1>5, <2>1 DEF ReplacePanelAlive, DeviceIInv, TypeOK, LocalIPs
  <2> QED
    BY <1>5, <2>2, CountsUntouched DEF ReplacePanelAlive, DeviceIInv
<1>6. ASSUME NEW u \in Users, NEW lim \in Limits, SetLimit(u, lim) PROVE DeviceIInv'
  <2>1. TypeOK'
    BY <1>6 DEF SetLimit, DeviceIInv, TypeOK, LocalIPs
  <2> QED
    BY <1>6, <2>1, CountsUntouched DEF SetLimit, DeviceIInv
<1>7. ASSUME NEW u \in Users, AddUser(u) PROVE DeviceIInv'
  <2>1. TypeOK'
    BY <1>7 DEF AddUser, DeviceIInv, TypeOK, LocalIPs
  <2> QED
    BY <1>7, <2>1, CountsUntouched DEF AddUser, DeviceIInv
<1>8. ASSUME NEW u \in Users, RemoveUser(u) PROVE DeviceIInv'
  <2>1. /\ alive' = [alive EXCEPT ![u] = [ip \in IPs |-> 0]]
        /\ aliveTraffic' = [aliveTraffic EXCEPT ![u] = 0]
        /\ panelAlive' = [panelAlive EXCEPT ![u] = 0]
        /\ member' = member \ {u} /\ churned' = churned \cup {u}
        /\ UNCHANGED <<limit, conn, report>>
    BY <1>8 DEF RemoveUser
  <2>2. /\ alive' \in [Users -> [IPs -> Nat]]
        /\ aliveTraffic' \in [Users -> 0..MaxTraffic]
        /\ panelAlive' \in [Users -> PanelCounts \cup {0}]
        /\ \A ip \in IPs : alive'[u][ip] = 0
        /\ \A v \in Users : v # u => alive'[v] = alive[v]
    BY <2>1 DEF DeviceIInv, TypeOK
  <2>3. \A v \in Users : LocalIPs(v)' = {} => aliveTraffic'[v] = 0
    BY <2>1, <2>2 DEF DeviceIInv, TypeOK, LocalIPs
  <2>4. TypeOK'
    BY <2>1, <2>2, <2>3 DEF DeviceIInv, TypeOK
  <2>5. ASSUME NEW v \in Users, NEW ip \in IPs
        PROVE  CountOK(v, ip)'
    <3>1. OpenOn(v, ip)' = OpenOn(v, ip)
      BY <2>1 DEF OpenOn
    <3>2. CASE v = u
      BY <2>1, <2>2, <3>1, <3>2, OpenFinite DEF CountOK
    <3>3. CASE v # u
      BY <2>1, <2>2, <3>1, <3>3 DEF DeviceIInv, Counts, CountOK
    <3> QED
      BY <3>2, <3>3
  <2> QED
    BY <2>4, <2>5 DEF DeviceIInv, Counts
<1>9. CASE UNCHANGED vars
  <2>1. TypeOK'
    BY <1>9 DEF vars, DeviceIInv, TypeOK, LocalIPs
  <2> QED
    BY <1>9, <2>1, CountsUntouched DEF vars, DeviceIInv
<1> QED
  BY <1>1, <1>2, <1>3, <1>4, <1>5, <1>6, <1>7, <1>8, <1>9

LEMMA NextIInv == DeviceIInv /\ [Next]_vars => DeviceIInv'
BY AuthenticateStep, AdmitStep, RefuseStep, CloseStep, OtherSteps DEF Next

(* The invariant holds in every state, for any users, addresses and limits. *)
THEOREM DeviceInductive == Spec => []DeviceIInv
BY InitIInv, NextIInv, PTL DEF Spec

(* The types, and no online traffic without an address. *)
THEOREM DeviceTypeCorrect == Spec => []TypeOK
<1>1. DeviceIInv => TypeOK
  BY DEF DeviceIInv
<1> QED
  BY <1>1, DeviceInductive, PTL

(* No interleaving of connections, syncs and deletions leaks a device slot. *)
THEOREM SlotsNeverLeak == Spec => []NoLeakedSlot
<1>1. DeviceIInv => NoLeakedSlot
  BY DEF DeviceIInv, Counts, CountOK, NoLeakedSlot
<1> QED
  BY <1>1, DeviceInductive, PTL

(* The connections of users who were never deleted are counted exactly. *)
THEOREM AlwaysTrackedExactly == Spec => []TrackedExactly
<1>1. DeviceIInv => TrackedExactly
  BY DEF DeviceIInv, Counts, CountOK, TrackedExactly, NoLeakedSlot
<1> QED
  BY <1>1, DeviceInductive, PTL

(* For a user who was never deleted the tracker's addresses are those of the
   open connections. *)
LEMMA AddressesExact ==
    ASSUME DeviceIInv, NEW u \in Users \ churned
    PROVE  LocalIPs(u) = OpenIPs(u)
<1> SUFFICES ASSUME NEW ip \in IPs
             PROVE  alive[u][ip] > 0 <=> OpenOn(u, ip) # {}
  BY DEF LocalIPs, OpenIPs
<1>1. alive[u][ip] = Cardinality(OpenOn(u, ip)) /\ alive[u][ip] \in Nat
  BY DEF DeviceIInv, TypeOK, Counts, CountOK
<1> QED
  BY <1>1, OpenFinite, FS_EmptySet

(* Only an admission opens a connection. *)
LEMMA OnlyAdmitOpens ==
    ASSUME DeviceIInv, Next, NEW c \in Conns, Admitted(c)
    PROVE  Admit(c)
<1>1. ASSUME NEW d \in Conns, NEW u \in Users, NEW ip \in IPs, Authenticate(d, u, ip)
      PROVE  FALSE
  BY <1>1 DEF Authenticate, Admitted, DeviceIInv, TypeOK
<1>2. ASSUME NEW d \in Conns, Admit(d) PROVE Admit(c)
  BY <1>2 DEF Admit, Admitted, DeviceIInv, TypeOK
<1>3. ASSUME NEW d \in Conns, Refuse(d) PROVE FALSE
  BY <1>3, ClosedOK DEF Refuse, Admitted, DeviceIInv, TypeOK
<1>4. ASSUME NEW d \in Conns, Close(d) PROVE FALSE
  BY <1>4, ClosedOK DEF Close, Admitted, DeviceIInv, TypeOK
<1>5. ASSUME UNCHANGED conn PROVE FALSE
  BY <1>5 DEF Admitted
<1>6. CASE \E d \in Conns : \/ \E u \in Users, ip \in IPs : Authenticate(d, u, ip)
                            \/ Admit(d) \/ Refuse(d) \/ Close(d)
  BY <1>1, <1>2, <1>3, <1>4, <1>6
<1>7. CASE UNCHANGED conn
  BY <1>5, <1>7
<1> QED
  BY <1>6, <1>7
  DEF Next, AddTraffic, SnapshotAlive, CommitAlive, AliveFailed, ReplacePanelAlive,
      SetLimit, RemoveUser, AddUser

(* check_device_limit never takes a user past the limit the connection
   authenticated with, whatever happened since it authenticated. *)
THEOREM LimitAlwaysRespected == Spec => LimitRespected
<1> DEFINE Step == \A c \in Conns :
          LET u == conn[c].uid  lim == conn[c].limit
          IN  Admitted(c) /\ u \notin churned /\ lim > 0 /\ conn[c].ip \notin OpenIPs(u)
              => Cardinality(OpenIPs(u)) < lim /\ panelAlive[u] < lim
<1>1. DeviceIInv /\ [Next]_vars => [Step]_vars
  <2> SUFFICES ASSUME DeviceIInv, Next, NEW c \in Conns, Admitted(c),
                      conn[c].uid \notin churned, conn[c].limit > 0,
                      conn[c].ip \notin OpenIPs(conn[c].uid)
               PROVE  /\ Cardinality(OpenIPs(conn[c].uid)) < conn[c].limit
                      /\ panelAlive[conn[c].uid] < conn[c].limit
    OBVIOUS
  <2>1. conn[c].uid \in Users /\ conn[c].limit \in Nat
    BY DeviceConstants DEF DeviceIInv, TypeOK, Connection
  <2>2. LocalIPs(conn[c].uid) = OpenIPs(conn[c].uid)
    BY <2>1, AddressesExact
  <2>3. Admits(conn[c].uid, conn[c].ip, conn[c].limit)
    BY OnlyAdmitOpens DEF Admit
  <2> QED
    BY <2>1, <2>2, <2>3 DEF Admits
<1> QED
  BY <1>1, DeviceInductive, PTL DEF Spec, LimitRespected

(* A connection from an address that is connected is never refused by the
   limit. *)
THEOREM ReuseAlwaysAdmitted == Spec => []ReuseAdmitted
<1>1. DeviceIInv => ReuseAdmitted
  <2> SUFFICES ASSUME DeviceIInv, NEW c \in Conns, conn[c].uid \notin churned,
                      conn[c].ip \in OpenIPs(conn[c].uid)
               PROVE  Admits(conn[c].uid, conn[c].ip, conn[c].limit)
    BY DEF ReuseAdmitted
  <2>1. conn[c].uid \in Users
    BY DEF DeviceIInv, TypeOK, Connection
  <2>2. conn[c].ip \in LocalIPs(conn[c].uid)
    BY <2>1, AddressesExact
  <2> QED
    BY <2>2 DEF Admits
<1> QED
  BY <1>1, DeviceInductive, PTL

-----------------------------------------------------------------------------
(* LkgStore.  The replay of a journal is a recursive function of the record
   number; what it computes is shown by induction over that number. *)

(* The snapshot after each record of a replay. *)
After(s, j) ==
    LET after[n \in 0..Len(j)] ==
            IF n = 0 THEN s ELSE Applied(after[n - 1], j[n])
    IN  after

LEMMA ReplayIsAfter ==
    \A s, j : Replay(s, j) = After(s, j)[Len(Readable(j))]
BY DEF Replay, After

(* The recursion is well founded: a function on 0..k that satisfies it can be
   continued to k + 1. *)
LEMMA AfterDef ==
    ASSUME NEW s, NEW j, Len(j) \in Nat
    PROVE  After(s, j) = [n \in 0..Len(j) |->
                IF n = 0 THEN s ELSE Applied(After(s, j)[n - 1], j[n])]
<1> DEFINE Eqn(g, k) == g = [n \in 0..k |-> IF n = 0 THEN s ELSE Applied(g[n - 1], j[n])]
<1> DEFINE P == {k \in Nat : \E g : Eqn(g, k)}
<1>1. 0 \in P
  <2>1. Eqn([n \in 0..0 |-> s], 0)
    OBVIOUS
  <2> QED
    BY <2>1
<1>2. ASSUME NEW k \in P PROVE k + 1 \in P
  <2>1. PICK g : Eqn(g, k)
    OBVIOUS
  <2> DEFINE h == [n \in 0..(k + 1) |-> IF n = k + 1 THEN Applied(g[k], j[k + 1]) ELSE g[n]]
  <2>2. Eqn(h, k + 1)
    <3> DEFINE r == [n \in 0..(k + 1) |-> IF n = 0 THEN s ELSE Applied(h[n - 1], j[n])]
    <3>1. ASSUME NEW n \in 0..(k + 1) PROVE h[n] = r[n]
      <4>1. CASE n = k + 1
        BY <4>1
      <4>2. CASE n = 0
        BY <4>2, <2>1
      <4>3. CASE n \in 1..k
        <5>1. h[n] = g[n] /\ h[n - 1] = g[n - 1]
          BY <4>3
        <5>2. g[n] = Applied(g[n - 1], j[n])
          BY <2>1, <4>3
        <5> QED
          BY <5>1, <5>2, <4>3
      <4> QED
        BY <4>1, <4>2, <4>3
    <3> QED
      BY <3>1
  <2>3. k + 1 \in Nat
    OBVIOUS
  <2> HIDE DEF h, Eqn
  <2> QED
    BY <2>2, <2>3
<1>3. P = Nat
  <2> HIDE DEF P
  <2> QED
    BY <1>1, <1>2, SetInduction DEF P
<1>4. \E g : Eqn(g, Len(j))
  BY <1>3
<1> QED
  BY <1>4 DEF After


(* What the replay has reached after n records depends on those alone. *)
LEMMA AfterPrefix ==
    ASSUME NEW s, NEW i, NEW j, Len(i) \in Nat, Len(j) \in Nat,
           NEW m \in Nat, m <= Len(i), m <= Len(j),
           \A n \in 1..m : i[n] = j[n]
    PROVE  After(s, i)[m] = After(s, j)[m]
<1> DEFINE f == After(s, i)
           g == After(s, j)
           P == {k \in Nat : k <= m => f[k] = g[k]}
<1>1. \A n \in 0..Len(i) : f[n] = IF n = 0 THEN s ELSE Applied(f[n - 1], i[n])
  BY AfterDef
<1>2. \A n \in 0..Len(j) : g[n] = IF n = 0 THEN s ELSE Applied(g[n - 1], j[n])
  BY AfterDef
<1> HIDE DEF f, g
<1>3. 0 \in P
  BY <1>1, <1>2
<1>4. ASSUME NEW k \in P PROVE k + 1 \in P
  <2>1. k + 1 <= m => f[k + 1] = Applied(f[k], i[k + 1])
    BY <1>1
  <2>2. k + 1 <= m => g[k + 1] = Applied(g[k], j[k + 1])
    BY <1>2
  <2> QED
    BY <2>1, <2>2
<1>5. P = Nat
  <2> HIDE DEF P
  <2> QED
    BY <1>3, <1>4, SetInduction DEF P
<1> QED
  BY <1>5 DEF f, g

LEMMA PatchedType ==
    \A list \in UserList, delta \in Delta : Patched(list, delta) \in UserList
BY DEF Patched, UserList, Delta

LEMMA AppliedType ==
    ASSUME NEW s \in Snapshot, NEW r \in Record
    PROVE  /\ Applied(s, r) \in Snapshot
           /\ Applied(s, r).cfg = s.cfg
           /\ s.rev <= Applied(s, r).rev
           /\ r.rev <= Applied(s, r).rev
<1>1. r.delta \in Delta /\ r.rev \in 1..MaxRev /\ s.users \in UserList /\ s.rev \in 0..MaxRev
  BY DEF Record, Snapshot
<1>2. Patched(s.users, r.delta) \in UserList
  BY <1>1, PatchedType
<1>3. CASE s.rev > 0 /\ r.rev <= s.rev
  BY <1>1, <1>3, LkgConstants DEF Applied
<1>4. CASE ~(s.rev > 0 /\ r.rev <= s.rev)
  <2>1. Applied(s, r) = [s EXCEPT !.users = Patched(@, r.delta), !.rev = r.rev]
    BY <1>4 DEF Applied
  <2>2. Applied(s, r) = [cfg |-> s.cfg, users |-> Patched(s.users, r.delta), rev |-> r.rev]
    BY <2>1 DEF Snapshot
  <2>3. s.rev <= r.rev
    BY <1>1, <1>4, LkgConstants
  <2> QED
    BY <1>1, <1>2, <2>2, <2>3, LkgConstants DEF Snapshot
<1> QED
  BY <1>3, <1>4

(* A replay of complete records yields a snapshot of the same configuration, at
   least as new as what it began with and as each record. *)
LEMMA AfterGood ==
    ASSUME NEW s \in Snapshot, NEW j \in Seq(Record \cup {Torn}),
           NEW m \in 0..Len(j), \A n \in 1..m : j[n] # Torn
    PROVE  /\ After(s, j)[m] \in Snapshot
           /\ After(s, j)[m].cfg = s.cfg
           /\ s.rev <= After(s, j)[m].rev
           /\ \A n \in 1..m : j[n].rev <= After(s, j)[m].rev
<1> DEFINE f == After(s, j)
           Good(k) == /\ f[k] \in Snapshot
                      /\ f[k].cfg = s.cfg
                      /\ s.rev <= f[k].rev
                      /\ \A n \in 1..k : j[n].rev <= f[k].rev
           P == {k \in Nat : k <= m => Good(k)}
<1>1. \A n \in 0..Len(j) : f[n] = IF n = 0 THEN s ELSE Applied(f[n - 1], j[n])
  BY AfterDef
<1>2. \A r \in Snapshot : r.rev \in Nat
  BY LkgConstants DEF Snapshot
<1>3. \A n \in 1..m : j[n] \in Record
  OBVIOUS
<1>4. \A r \in Record : r.rev \in Nat
  BY LkgConstants DEF Record
<1> HIDE DEF f
<1>5. 0 \in P
  BY <1>1, <1>2
<1>6. ASSUME NEW k \in P PROVE k + 1 \in P
  <2> SUFFICES ASSUME k + 1 <= m PROVE Good(k + 1)
    OBVIOUS
  <2>1. f[k + 1] = Applied(f[k], j[k + 1]) /\ j[k + 1] \in Record
    BY <1>1, <1>3
  <2>2. Good(k)
    OBVIOUS
  <2>3. /\ f[k + 1] \in Snapshot
        /\ f[k + 1].cfg = f[k].cfg
        /\ f[k].rev <= f[k + 1].rev
        /\ j[k + 1].rev <= f[k + 1].rev
    BY <2>1, <2>2, AppliedType
  <2>4. ASSUME NEW n \in 1..(k + 1) PROVE j[n].rev <= f[k + 1].rev
    <3>1. CASE n = k + 1
      BY <3>1, <2>3
    <3>2. CASE n \in 1..k
      <4>1. j[n].rev <= f[k].rev
        BY <3>2, <2>2
      <4>2. j[n].rev \in Nat /\ f[k].rev \in Nat /\ f[k + 1].rev \in Nat
        BY <3>2, <1>3, <1>4, <1>2, <2>2, <2>3
      <4> QED
        BY <4>1, <4>2, <2>3
    <3> QED
      BY <3>1, <3>2
  <2>5. s.rev <= f[k + 1].rev
    BY <2>2, <2>3, <1>2
  <2> QED
    BY <2>2, <2>3, <2>4, <2>5
<1>7. P = Nat
  <2> HIDE DEF P
  <2> QED
    BY <1>5, <1>6, SetInduction DEF P
<1> QED
  BY <1>7 DEF f

(* Records that are not newer than the base do nothing. *)
LEMMA AfterOld ==
    ASSUME NEW s, NEW j, Len(j) \in Nat, s.rev > 0,
           NEW m \in 0..Len(j), \A n \in 1..m : j[n].rev <= s.rev
    PROVE  After(s, j)[m] = s
<1> DEFINE f == After(s, j)
           P == {k \in Nat : k <= m => f[k] = s}
<1>1. \A n \in 0..Len(j) : f[n] = IF n = 0 THEN s ELSE Applied(f[n - 1], j[n])
  BY AfterDef
<1> HIDE DEF f
<1>2. 0 \in P
  BY <1>1
<1>3. ASSUME NEW k \in P PROVE k + 1 \in P
  <2> SUFFICES ASSUME k + 1 <= m PROVE f[k + 1] = s
    OBVIOUS
  <2>1. f[k] = s /\ j[k + 1].rev <= s.rev
    OBVIOUS
  <2>2. f[k + 1] = Applied(s, j[k + 1])
    BY <1>1, <2>1
  <2> QED
    BY <2>1, <2>2 DEF Applied
<1>4. P = Nat
  <2> HIDE DEF P
  <2> QED
    BY <1>2, <1>3, SetInduction DEF P
<1> QED
  BY <1>4 DEF f

-----------------------------------------------------------------------------
(* Journals without and with a torn tail. *)
Complete(j) == \A i \in DOMAIN j : j[i] # Torn
TornTail(j) ==
    /\ j # <<>>
    /\ j[Len(j)] = Torn
    /\ \A i \in DOMAIN j : j[i] = Torn => i = Len(j)

LEMMA ReadableComplete ==
    ASSUME NEW j \in Seq(Record \cup {Torn}), Complete(j)
    PROVE  Readable(j) = j
<1> DEFINE k == j \o <<Torn>>
           I == {i \in 1..Len(k) : k[i] = Torn}
<1>1. /\ Len(k) = Len(j) + 1
      /\ k[Len(j) + 1] = Torn
      /\ \A i \in 1..Len(j) : k[i] = j[i]
  OBVIOUS
<1>2. I = {Len(j) + 1}
  BY <1>1 DEF Complete
<1>3. Min(I) = Len(j) + 1
  BY <1>2 DEF Min
<1>4. SelectInSeq(k, LAMBDA r : r = Torn) = Len(j) + 1
  BY <1>2, <1>3 DEF SelectInSeq
<1> QED
  BY <1>4 DEF Readable

LEMMA ReadableTorn ==
    ASSUME NEW j \in Seq(Record \cup {Torn}), TornTail(j)
    PROVE  Readable(j) = SubSeq(j, 1, Len(j) - 1)
<1> DEFINE k == j \o <<Torn>>
           I == {i \in 1..Len(k) : k[i] = Torn}
<1>1. /\ Len(k) = Len(j) + 1
      /\ k[Len(j) + 1] = Torn
      /\ \A i \in 1..Len(j) : k[i] = j[i]
  OBVIOUS
<1>2. Len(j) \in Nat /\ Len(j) >= 1
  BY DEF TornTail
<1>3. I = {Len(j), Len(j) + 1}
  BY <1>1, <1>2 DEF TornTail
<1>4. Min(I) = Len(j)
  BY <1>2, <1>3 DEF Min
<1>5. SelectInSeq(k, LAMBDA r : r = Torn) = Len(j)
  BY <1>2, <1>3, <1>4 DEF SelectInSeq
<1> QED
  BY <1>5 DEF Readable


(* A torn record is the last one. *)
Sound(j) == \A i \in DOMAIN j : j[i] = Torn => i = Len(j)

LEMMA SoundCases ==
    ASSUME NEW j \in Seq(Record \cup {Torn}), Sound(j)
    PROVE  Complete(j) \/ TornTail(j)
BY DEF Sound, Complete, TornTail

LEMMA TornIsNoRecord == Torn \notin Record /\ Torn.rev = 0
BY DEF Torn, Record

LEMMA ReplayEmpty == \A s : Replay(s, <<>>) = s
<1> TAKE s
<1>1. <<>> \in Seq(Record \cup {Torn}) /\ Complete(<<>>) /\ Len(<<>>) = 0
  BY DEF Complete
<1>2. Readable(<<>>) = <<>>
  BY <1>1, ReadableComplete
<1>3. After(s, <<>>)[0] = s
  BY <1>1, AfterDef
<1> QED
  BY <1>1, <1>2, <1>3, ReplayIsAfter

(* The length of what a replay reads. *)
LEMMA ReadableLength ==
    ASSUME NEW j \in Seq(Record \cup {Torn}), Sound(j)
    PROVE  /\ Readable(j) \in Seq(Record \cup {Torn})
           /\ Complete(Readable(j))
           /\ Len(Readable(j)) \in 0..Len(j)
           /\ \A n \in 1..Len(Readable(j)) : j[n] = Readable(j)[n]
           /\ \A n \in DOMAIN j : j[n] # Torn => n \in 1..Len(Readable(j))
<1>1. CASE Complete(j)
  BY <1>1, ReadableComplete DEF Complete
<1>2. CASE TornTail(j)
  <2>1. Readable(j) = SubSeq(j, 1, Len(j) - 1)
    BY <1>2, ReadableTorn
  <2>2. Len(j) \in Nat /\ Len(j) >= 1
    BY <1>2 DEF TornTail
  <2>3. /\ Len(Readable(j)) = Len(j) - 1
        /\ \A n \in 1..(Len(j) - 1) : Readable(j)[n] = j[n]
        /\ Readable(j) \in Seq(Record \cup {Torn})
    <3>1. \A n \in 1..(Len(j) - 1) : j[n] \in Record \cup {Torn}
      BY <2>2
    <3>2. Len(SubSeq(j, 1, Len(j) - 1)) = Len(j) - 1
      <4> DEFINE q == Len(j) - 1
      <4>1. q \in Nat /\ q <= Len(j)
        BY <2>2
      <4> HIDE DEF q
      <4>2. Len(SubSeq(j, 1, q)) = q
        BY <4>1
      <4> QED
        BY <4>2 DEF q
    <3>3. \A n \in 1..(Len(j) - 1) : SubSeq(j, 1, Len(j) - 1)[n] = j[n]
      BY <2>2
    <3>4. SubSeq(j, 1, Len(j) - 1) \in Seq(Record \cup {Torn})
      BY <2>2, <3>1
    <3> QED
      BY <2>1, <3>2, <3>3, <3>4
  <2>4. \A n \in 1..(Len(j) - 1) : j[n] # Torn
    BY <1>2, <2>2 DEF TornTail
  <2>5. Complete(Readable(j))
    BY <2>3, <2>4 DEF Complete
  <2>6. ASSUME NEW n \in DOMAIN j, j[n] # Torn PROVE n \in 1..(Len(j) - 1)
    BY <2>6, <2>2, <1>2 DEF TornTail
  <2> QED
    BY <2>2, <2>3, <2>5, <2>6
<1> QED
  BY <1>1, <1>2, SoundCases

LEMMA ReplayGood ==
    ASSUME NEW s \in Snapshot, NEW j \in Seq(Record \cup {Torn}), Sound(j)
    PROVE  /\ Replay(s, j) \in Snapshot
           /\ Replay(s, j).cfg = s.cfg
           /\ s.rev <= Replay(s, j).rev
           /\ \A n \in DOMAIN j : j[n].rev <= Replay(s, j).rev
<1> DEFINE m == Len(Readable(j))
<1>1. m \in 0..Len(j) /\ \A n \in 1..m : j[n] # Torn
  BY ReadableLength DEF Complete
<1>2. Replay(s, j) = After(s, j)[m]
  BY ReplayIsAfter
<1>3. /\ Replay(s, j) \in Snapshot
      /\ Replay(s, j).cfg = s.cfg
      /\ s.rev <= Replay(s, j).rev
      /\ \A n \in 1..m : j[n].rev <= Replay(s, j).rev
  BY <1>1, <1>2, AfterGood
<1>4. Replay(s, j).rev \in Nat
  BY <1>3, LkgConstants DEF Snapshot
<1>5. ASSUME NEW n \in DOMAIN j PROVE j[n].rev <= Replay(s, j).rev
  <2>1. CASE j[n] = Torn
    BY <2>1, <1>4, TornIsNoRecord
  <2>2. CASE j[n] # Torn
    BY <2>2, <1>3, ReadableLength
  <2> QED
    BY <2>1, <2>2
<1> QED
  BY <1>3, <1>5

LEMMA ReplayOld ==
    ASSUME NEW s, NEW j \in Seq(Record \cup {Torn}), Sound(j), s.rev > 0,
           \A n \in DOMAIN j : j[n].rev <= s.rev
    PROVE  Replay(s, j) = s
<1> DEFINE m == Len(Readable(j))
<1>1. m \in 0..Len(j)
  BY ReadableLength
<1>2. \A n \in 1..m : j[n].rev <= s.rev
  BY <1>1
<1> QED
  BY <1>1, <1>2, ReplayIsAfter, AfterOld

LEMMA ReplayReadable ==
    ASSUME NEW s, NEW j \in Seq(Record \cup {Torn}), Sound(j)
    PROVE  Replay(s, Readable(j)) = Replay(s, j)
<1> DEFINE r == Readable(j)
           m == Len(r)
<1>1. /\ r \in Seq(Record \cup {Torn})
      /\ Readable(r) = r
      /\ m \in 0..Len(j)
      /\ \A n \in 1..m : j[n] = r[n]
  BY ReadableLength, ReadableComplete
<1> HIDE DEF r
<1>2. After(s, r)[m] = After(s, j)[m]
  BY <1>1, AfterPrefix
<1> QED
  BY <1>1, <1>2, ReplayIsAfter DEF r

LEMMA ReplayBeginTail ==
    ASSUME NEW s, NEW j \in Seq(Record \cup {Torn}), Complete(j)
    PROVE  /\ TornTail(Append(j, Torn))
           /\ Replay(s, Append(j, Torn)) = Replay(s, j)
<1> DEFINE k == Append(j, Torn)
<1>1. /\ k \in Seq(Record \cup {Torn})
      /\ Len(k) = Len(j) + 1
      /\ k[Len(j) + 1] = Torn
      /\ \A i \in 1..Len(j) : k[i] = j[i]
  OBVIOUS
<1> HIDE DEF k
<1>2. TornTail(k)
  BY <1>1 DEF TornTail, Complete
<1>3. Readable(k) = SubSeq(k, 1, Len(j))
  BY <1>1, <1>2, ReadableTorn
<1>4. Len(Readable(k)) = Len(j)
  BY <1>1, <1>3
<1>5. After(s, k)[Len(j)] = After(s, j)[Len(j)]
  BY <1>1, AfterPrefix
<1> QED
  BY <1>2, <1>4, <1>5, ReplayIsAfter, ReadableComplete DEF k

LEMMA ReplayFillTail ==
    ASSUME NEW s, NEW j \in Seq(Record \cup {Torn}), TornTail(j), NEW r \in Record
    PROVE  LET k == [j EXCEPT ![Len(j)] = r]
           IN  /\ k \in Seq(Record \cup {Torn})
               /\ Complete(k)
               /\ Len(k) = Len(j)
               /\ \A i \in 1..(Len(j) - 1) : k[i] = j[i]
               /\ k[Len(j)] = r
               /\ Replay(s, k) = Applied(Replay(s, j), r)
<1> DEFINE k == [j EXCEPT ![Len(j)] = r]
           m == Len(j)
<1>1. m \in Nat /\ m >= 1
  BY DEF TornTail
<1>2. /\ k \in Seq(Record \cup {Torn})
      /\ Len(k) = m
      /\ \A i \in 1..(m - 1) : k[i] = j[i]
      /\ k[m] = r
  BY <1>1
<1> HIDE DEF k
<1>3. Complete(k)
  BY <1>1, <1>2, TornIsNoRecord DEF Complete, TornTail
<1>4. Replay(s, k) = After(s, k)[m]
  BY <1>2, <1>3, ReplayIsAfter, ReadableComplete
<1>5. After(s, k)[m] = Applied(After(s, k)[m - 1], r)
  BY <1>1, <1>2, AfterDef
<1>6. After(s, k)[m - 1] = After(s, j)[m - 1]
  BY <1>1, <1>2, AfterPrefix
<1>7. Len(Readable(j)) = m - 1
  BY <1>1, ReadableTorn
<1>8. Replay(s, j) = After(s, j)[m - 1]
  BY <1>7, ReplayIsAfter
<1> QED
  BY <1>2, <1>3, <1>4, <1>5, <1>6, <1>8 DEF k

-----------------------------------------------------------------------------
(* The inductive invariant. *)

(* Which job the steps belong to, and that an append runs only when no save is
   owed. *)
LkgPhases ==
    /\ pc \in {"down", "restore", "retire"} => job = "load"
    /\ pc \in {"idle", "append", "appending"} => job = "save"
    /\ job = "load" => ~pending
    /\ pc \in {"append", "appending"} => ~pending
    /\ pc \in {"rename", "unlink", "syncdir", "append", "appending", "retire"} => mem # None

(* A snapshot is the panel's list at the revision it claims ... *)
OfPanel(s) == s.rev \in DOMAIN panel /\ s.users = panel[s.rev]

(* ... in memory and in the files. *)
LkgLists ==
    /\ Len(panel) \in 1..MaxRev
    /\ mem # None => OfPanel(mem)
    /\ base # None => OfPanel(base)
    /\ legacy # None => OfPanel(legacy)

(* A journal follows a base; a torn record is the last one and is there only
   while it is written, while a save is owed or running, or after a crash; and no
   record is newer than the snapshot in memory, so that a base written over an
   old journal makes the whole of it old. *)
LkgJournal ==
    /\ base = None => journal = <<>>
    /\ TornIsLast
    /\ \/ pc \in {"down", "rename", "unlink", "appending"}
       \/ pc = "idle" /\ pending
       \/ Complete(journal)
    /\ \A i \in DOMAIN journal : journal[i].rev <= Len(panel)
    /\ mem # None => \A i \in DOMAIN journal : journal[i].rev <= mem.rev

(* What a restart would recover, at each step: what is in memory when nothing is
   owed, or the list that the record being appended was computed against.  The
   revision recovered may lag behind the one in memory, since an unchanged list is
   not written; the record still counts, because it changes something and is
   therefore newer. *)
LkgStored ==
    /\ base # None => OfPanel(Replay(base, journal))
    /\ pc \in {"unlink", "syncdir"} => base = mem
    /\ pc = "syncdir" => journal = <<>>
    /\ pc \in {"restore", "retire"} => mem = Recovered /\ (mem # None => base # None)
    /\ pc = "rename" /\ job = "load" => base = None /\ mem = legacy
    /\ pc = "idle" /\ ~pending /\ mem # None
         => /\ base # None
            /\ Contents(Recovered) = Contents(mem)
            /\ Recovered.rev <= mem.rev
    /\ pc \in {"append", "appending"}
         => /\ base # None
            /\ Recovered.cfg = mem.cfg
            /\ Recovered.rev < out.rev
            /\ out.rev = mem.rev
            /\ Patched(Recovered.users, out.delta) = mem.users

LkgIInv == LkgTypeOK /\ LkgPhases /\ LkgLists /\ LkgJournal /\ LkgStored

LEMMA SnapshotFacts ==
    \A s \in Snapshot : /\ s.cfg \in Configs /\ s.users \in UserList
                        /\ s.rev \in Nat /\ s.rev <= MaxRev /\ s # None
BY LkgConstants, NoneIsNoSnapshot DEF Snapshot

LEMMA TornIsLastSound == TornIsLast <=> Sound(journal)
BY DEF TornIsLast, Sound

LEMMA RecoveredGood ==
    ASSUME LkgIInv
    PROVE  /\ Recovered \in Snapshot \cup {None}
           /\ base # None => /\ Recovered \in Snapshot
                             /\ Recovered = Replay(base, journal)
                             /\ Recovered.cfg = base.cfg
                             /\ \A i \in DOMAIN journal : journal[i].rev <= Recovered.rev
           /\ base = None => Recovered = legacy /\ journal = <<>>
           /\ Recovered # None => OfPanel(Recovered)
<1>1. /\ base \in Snapshot \cup {None} /\ legacy \in Snapshot \cup {None}
      /\ journal \in Seq(Record \cup {Torn})
      /\ Sound(journal)
      /\ base # None => OfPanel(Replay(base, journal))
      /\ legacy # None => OfPanel(legacy)
      /\ base = None => journal = <<>>
  BY TornIsLastSound DEF LkgIInv, LkgTypeOK, LkgJournal, LkgStored, LkgLists
<1>2. CASE base = None
  BY <1>1, <1>2 DEF Recovered
<1>3. CASE base # None
  <2>1. base \in Snapshot /\ Recovered = Replay(base, journal)
    BY <1>1, <1>3 DEF Recovered
  <2> QED
    BY <1>1, <1>3, <2>1, ReplayGood
<1> QED
  BY <1>2, <1>3

LEMMA LkgInitInv == LkgInit => LkgIInv
<1> SUFFICES ASSUME LkgInit PROVE LkgIInv
  OBVIOUS
<1>1. Empty \in UserList
  BY LkgConstants DEF Empty, UserList
<1>2. legacy # None => legacy \in Snapshot /\ legacy.rev = 1 /\ legacy.users = Empty
  BY <1>1, LkgConstants DEF LkgInit, Snapshot
<1>3. panel \in Seq(UserList) /\ Len(panel) = 1 /\ panel[1] = Empty /\ DOMAIN panel = {1}
  BY <1>1 DEF LkgInit
<1>4. LkgTypeOK
  <2>1. 0 \in 0..MaxCrashes
    BY LkgConstants
  <2>2. <<>> \in Seq(Record \cup {Torn})
    OBVIOUS
  <2> QED
    BY <1>2, <1>3, <2>1, <2>2 DEF LkgTypeOK, LkgInit
<1>5. LkgPhases
  BY DEF LkgPhases, LkgInit
<1>6. LkgLists
  BY <1>2, <1>3, LkgConstants DEF LkgLists, LkgInit, OfPanel
<1>7. LkgJournal
  BY DEF LkgJournal, LkgInit, TornIsLast
<1>8. LkgStored
  BY DEF LkgStored, LkgInit
<1> QED
  BY <1>4, <1>5, <1>6, <1>7, <1>8 DEF LkgIInv

LEMMA OfPanelGrows ==
    ASSUME NEW s, NEW p \in UserList, panel \in Seq(UserList), OfPanel(s),
           panel' = Append(panel, p)
    PROVE  s.rev \in DOMAIN panel' /\ s.users = panel'[s.rev]
BY DEF OfPanel

LEMMA PanelChangeStep == LkgIInv /\ PanelChange => LkgIInv'
<1> SUFFICES ASSUME LkgIInv, PanelChange PROVE LkgIInv'
  OBVIOUS
<1> USE DEF LkgIInv
<1>0. UNCHANGED <<mem, pending, base, journal, legacy, job, pc, out, crashes>>
  BY DEF PanelChange
<1>1. Recovered' = Recovered
  BY <1>0 DEF Recovered
<1>2. panel \in Seq(UserList) /\ Len(panel) \in 1..MaxRev /\ Len(panel) \in Nat
  BY DEF LkgTypeOK, LkgLists
<1>3. Latest \in UserList
  BY <1>2 DEF Latest
<1>4. PICK u \in Uids, v \in Versions : panel' = Append(panel, [Latest EXCEPT ![u] = v])
  BY DEF PanelChange
<1> DEFINE p == [Latest EXCEPT ![u] = v]
<1>5. p \in UserList
  BY <1>3 DEF UserList
<1>6. panel' = Append(panel, p)
  BY <1>4
<1> HIDE DEF p
<1>7. panel' \in Seq(UserList) /\ Len(panel') = Len(panel) + 1 /\ Len(panel') \in 1..MaxRev
  <2>1. Len(panel) < MaxRev
    BY DEF PanelChange
  <2>2. panel' \in Seq(UserList) /\ Len(panel') = Len(panel) + 1
    BY <1>2, <1>5, <1>6
  <2> QED
    BY <1>2, <2>1, <2>2, LkgConstants
<1>8. LkgTypeOK'
  BY <1>0, <1>7 DEF LkgTypeOK
<1>9. LkgPhases'
  BY <1>0 DEF LkgPhases
<1>10. LkgLists'
  <2>1. mem # None => mem.rev \in DOMAIN panel' /\ mem.users = panel'[mem.rev]
    BY <1>2, <1>5, <1>6, OfPanelGrows DEF LkgLists
  <2>2. base # None => base.rev \in DOMAIN panel' /\ base.users = panel'[base.rev]
    BY <1>2, <1>5, <1>6, OfPanelGrows DEF LkgLists
  <2>3. legacy # None => legacy.rev \in DOMAIN panel' /\ legacy.users = panel'[legacy.rev]
    BY <1>2, <1>5, <1>6, OfPanelGrows DEF LkgLists
  <2> QED
    BY <1>0, <1>7, <2>1, <2>2, <2>3 DEF LkgLists, OfPanel
<1>11. LkgJournal'
  <2>1. \A i \in DOMAIN journal : journal[i].rev <= Len(panel')
    <3> TAKE i \in DOMAIN journal
    <3>1. journal[i].rev <= Len(panel)
      BY DEF LkgJournal
    <3>2. journal[i].rev \in Nat
      BY LkgConstants, TornIsNoRecord DEF LkgTypeOK, Record
    <3> QED
      BY <3>1, <3>2, <1>2, <1>7
  <2> QED
    BY <1>0, <2>1 DEF LkgJournal, TornIsLast, Complete
<1>12. LkgStored'
  <2>1. base # None => LET r == Replay(base, journal) IN r.rev \in DOMAIN panel' /\ r.users = panel'[r.rev]
    BY <1>2, <1>5, <1>6, OfPanelGrows DEF LkgStored
  <2>2. base' # None => OfPanel(Replay(base, journal))'
    BY <1>0, <2>1 DEF OfPanel
  <2> QED
    BY <1>0, <1>1, <2>2 DEF LkgStored, Contents
<1> QED
  BY <1>8, <1>9, <1>10, <1>11, <1>12

-----------------------------------------------------------------------------
(* The end of a pull. *)
LEMMA LatestGood ==
    ASSUME LkgIInv
    PROVE  /\ panel \in Seq(UserList) /\ Len(panel) \in 1..MaxRev
           /\ Len(panel) \in DOMAIN panel /\ Latest = panel[Len(panel)]
           /\ Latest \in UserList
           /\ \A i \in DOMAIN panel : panel[i] \in UserList /\ i \in 1..Len(panel)
BY LkgConstants DEF LkgIInv, LkgTypeOK, LkgLists, Latest

(* A pull that leaves the files alone. *)
LEMMA PullStep ==
    ASSUME LkgIInv,
           job = "save", pc = "idle",
           UNCHANGED <<panel, pending, base, journal, legacy, job, crashes>>,
           mem' \in Snapshot, mem'.users = Latest, mem'.rev = Len(panel),
           out' = Torn,
           pc' = "rename" \/ pc' = "idle",
           pc' = "idle" => /\ ~pending /\ mem # None
                           /\ mem'.cfg = mem.cfg /\ mem'.users = mem.users
    PROVE  LkgIInv'
<1> USE DEF LkgIInv
<1>0. /\ panel \in Seq(UserList) /\ Len(panel) \in 1..MaxRev /\ Len(panel) \in DOMAIN panel
      /\ Latest = panel[Len(panel)]
  BY LatestGood
<1>1. Recovered' = Recovered
  BY DEF Recovered
<1>2. mem' # None
  BY SnapshotFacts
<1>3. LkgTypeOK'
  BY DEF LkgTypeOK
<1>4. LkgPhases'
  BY <1>2 DEF LkgPhases
<1>5. LkgLists'
  BY <1>0 DEF LkgLists, OfPanel
<1>6. LkgJournal'
  BY DEF LkgJournal, TornIsLast, Complete
<1>7. LkgStored'
  <2>1. CASE pc' = "rename"
    BY <2>1, <1>1 DEF LkgStored, OfPanel
  <2>2. CASE pc' = "idle"
    <3>1. /\ base # None
          /\ Contents(Recovered) = Contents(mem)
          /\ Recovered.rev <= mem.rev
      BY <2>2 DEF LkgStored
    <3>2. Contents(mem') = Contents(mem)
      BY <2>2, <1>2 DEF Contents
    <3>3. mem.rev <= Len(panel) /\ mem.rev \in Nat /\ Recovered.rev \in Nat
      BY <1>0, <2>2, <3>1, RecoveredGood, SnapshotFacts DEF LkgLists, OfPanel, LkgTypeOK
    <3>4. Recovered.rev <= mem'.rev
      BY <3>1, <3>3, <1>0
    <3> QED
      BY <2>2, <1>1, <3>1, <3>2, <3>4 DEF LkgStored, OfPanel, Contents
  <2> QED
    BY <2>1, <2>2
<1> QED
  BY <1>3, <1>4, <1>5, <1>6, <1>7

LEMMA SyncBaseStep == LkgIInv /\ SyncBase => LkgIInv'
<1> SUFFICES ASSUME LkgIInv, SyncBase PROVE LkgIInv'
  OBVIOUS
<1>1. PICK c \in Configs : mem' = [cfg |-> c, users |-> Latest, rev |-> Len(panel)]
  BY DEF SyncBase
<1>2. mem' \in Snapshot
  BY <1>1, LatestGood DEF Snapshot
<1>3. out = Torn
  BY DEF SyncBase, LkgIInv, LkgTypeOK
<1> QED
  BY <1>1, <1>2, <1>3, PullStep DEF SyncBase

LEMMA SyncSameStep == LkgIInv /\ SyncSame => LkgIInv'
<1> SUFFICES ASSUME LkgIInv, SyncSame PROVE LkgIInv'
  OBVIOUS
<1>1. mem \in Snapshot
  BY DEF LkgIInv, LkgTypeOK, SyncSame
<1>2. mem' = [mem EXCEPT !.rev = Len(panel)]
  BY DEF SyncSame
<1>3. /\ mem' \in Snapshot /\ mem'.users = Latest /\ mem'.rev = Len(panel)
      /\ mem'.cfg = mem.cfg /\ mem'.users = mem.users
  BY <1>1, <1>2, LatestGood DEF Snapshot, SyncSame
<1>4. out = Torn
  BY DEF SyncSame, LkgIInv, LkgTypeOK
<1> QED
  BY <1>3, <1>4, PullStep DEF SyncSame

LEMMA DifferencePatches ==
    ASSUME NEW old \in UserList, NEW new \in UserList
    PROVE  /\ Difference(old, new) \in Delta
           /\ Patched(old, Difference(old, new)) = new
<1>1. Difference(old, new) \in [{v \in Uids : old[v] # new[v]} -> Versions]
  BY DEF Difference, UserList
<1>2. Difference(old, new) \in Delta
  BY <1>1 DEF Delta
<1>3. \A u \in Uids : Patched(old, Difference(old, new))[u] = new[u]
  BY DEF Patched, Difference, UserList
<1> QED
  BY <1>2, <1>3 DEF Patched, UserList

LEMMA SyncDeltaStep == LkgIInv /\ SyncDelta => LkgIInv'
<1> SUFFICES ASSUME LkgIInv, SyncDelta PROVE LkgIInv'
  OBVIOUS
<1> DEFINE delta == Difference(panel[mem.rev], Latest)
<1>1. /\ job = "save" /\ pc = "idle" /\ mem # None /\ mem.rev \in 1..Len(panel)
      /\ Patched(mem.users, delta) # mem.users
      /\ mem' = [mem EXCEPT !.users = Patched(@, delta), !.rev = Len(panel)]
      /\ out' = IF pending THEN Torn ELSE [rev |-> Len(panel), delta |-> delta]
      /\ pc' = IF pending THEN "rename" ELSE "append"
      /\ UNCHANGED <<panel, pending, base, journal, legacy, job, crashes>>
  BY DEF SyncDelta
<1>2. mem \in Snapshot /\ mem.rev \in DOMAIN panel /\ mem.users = panel[mem.rev]
      /\ pending \in BOOLEAN
  BY <1>1 DEF LkgIInv, LkgTypeOK, LkgLists, OfPanel
<1>3. mem.users \in UserList /\ Latest \in UserList /\ Len(panel) \in 1..MaxRev
      /\ Latest = panel[Len(panel)]
  BY <1>2, LatestGood
<1>4. delta \in Delta /\ Patched(mem.users, delta) = Latest
  BY <1>2, <1>3, DifferencePatches
<1> HIDE DEF delta
<1>5. /\ mem' \in Snapshot /\ mem'.users = Latest /\ mem'.rev = Len(panel)
      /\ mem'.cfg = mem.cfg
  <2>1. mem' = [cfg |-> mem.cfg, users |-> Latest, rev |-> Len(panel)]
    BY <1>1, <1>2, <1>4 DEF Snapshot
  <2>2. mem.cfg \in Configs /\ Len(panel) \in 0..MaxRev
    BY <1>2, <1>3, SnapshotFacts, LkgConstants
  <2> QED
    BY <2>1, <2>2, <1>3 DEF Snapshot
<1>6. CASE pending
  BY <1>1, <1>5, <1>6, PullStep
<1>7. CASE ~pending
  <2> USE DEF LkgIInv
  <2>1. Recovered' = Recovered
    BY <1>1 DEF Recovered
  <2>2. /\ base # None /\ Contents(Recovered) = Contents(mem) /\ Recovered.rev <= mem.rev
    BY <1>1, <1>7 DEF LkgStored
  <2>3. Recovered \in Snapshot /\ Recovered # None
    BY <2>2, RecoveredGood, SnapshotFacts
  <2>4. Recovered.cfg = mem.cfg /\ Recovered.users = mem.users
    BY <1>1, <2>2, <2>3 DEF Contents
  <2>5. Recovered.rev < Len(panel)
    <3>1. mem.rev # Len(panel)
      BY <1>1, <1>2, <1>3, <1>4
    <3>2. Recovered.rev \in Nat /\ Len(panel) \in Nat
      BY <2>3, <1>3, SnapshotFacts
    <3> QED
      BY <3>1, <3>2, <2>2, <1>1
  <2>6. out' = [rev |-> Len(panel), delta |-> delta] /\ out' \in Record
    BY <1>1, <1>3, <1>4, <1>7 DEF Record
  <2>7. out' # Torn
    BY <2>6, TornIsNoRecord
  <2>8. mem' # None
    BY <1>5, SnapshotFacts
  <2>9. LkgTypeOK'
    BY <1>1, <1>5, <1>7, <2>6, <2>7 DEF LkgTypeOK
  <2>10. LkgPhases'
    BY <1>1, <1>7, <2>8 DEF LkgPhases
  <2>11. LkgLists'
    BY <1>1, <1>3, <1>5 DEF LkgLists, OfPanel
  <2>12. LkgJournal'
    BY <1>1, <1>5, <1>7 DEF LkgJournal, TornIsLast, Complete
  <2>13. LkgStored'
    BY <1>1, <1>4, <1>5, <1>7, <2>1, <2>2, <2>4, <2>5, <2>6 DEF LkgStored, OfPanel
  <2> QED
    BY <2>9, <2>10, <2>11, <2>12, <2>13
<1> QED
  BY <1>2, <1>6, <1>7

-----------------------------------------------------------------------------
(* The steps of a save. *)

(* Done and Failed, for a save that sync() asked for. *)
LEMMA SaveEnds ==
    ASSUME LkgIInv, ~MigrationMayFail, Failed
    PROVE  /\ job = "save" /\ pc' = "idle" /\ pending' /\ pending' \in BOOLEAN /\ out' = Torn
BY DEF Failed, LkgIInv, LkgTypeOK

(* A save that fails leaves one of the snapshots that may be there. *)
LEMMA FailStep ==
    ASSUME LkgIInv, ~MigrationMayFail, Failed,
           UNCHANGED <<panel, mem, legacy, job, crashes>>,
           mem # None,
           base' \in Snapshot \cup {None}, base' # None => OfPanel(base'),
           journal' \in Seq(Record \cup {Torn}), Sound(journal'),
           base' = None => journal' = <<>>,
           \A i \in DOMAIN journal' : journal'[i].rev <= mem.rev,
           base' # None => OfPanel(Replay(base', journal'))
    PROVE  LkgIInv'
<1> USE DEF LkgIInv
<1>1. /\ job = "save" /\ pc' = "idle" /\ pending' /\ pending' \in BOOLEAN /\ out' = Torn
  BY SaveEnds
<1>2. LkgTypeOK'
  BY <1>1 DEF LkgTypeOK
<1>3. LkgPhases'
  BY <1>1 DEF LkgPhases
<1>4. LkgLists'
  BY DEF LkgLists, OfPanel
<1>5. LkgJournal'
  <2>1. \A i \in DOMAIN journal' : journal'[i].rev <= Len(panel)
    <3> TAKE i \in DOMAIN journal'
    <3>1. journal'[i].rev \in Nat
      BY LkgConstants, TornIsNoRecord DEF Record
    <3>2. mem.rev \in 1..Len(panel) /\ Len(panel) \in Nat
      BY LatestGood DEF LkgLists, OfPanel
    <3> QED
      BY <3>1, <3>2
  <2> QED
    BY <1>1, <2>1 DEF LkgJournal, TornIsLast, Sound
<1>6. LkgStored'
  BY <1>1 DEF LkgStored, OfPanel
<1> QED
  BY <1>2, <1>3, <1>4, <1>5, <1>6

(* While a save runs: the snapshot in memory is not older than any record. *)
LEMMA SavingGood ==
    ASSUME LkgIInv, mem # None
    PROVE  /\ mem \in Snapshot /\ OfPanel(mem)
           /\ journal \in Seq(Record \cup {Torn}) /\ Sound(journal)
           /\ \A i \in DOMAIN journal : journal[i].rev <= mem.rev
           /\ mem.rev \in Nat /\ mem.rev > 0
           /\ Replay(mem, journal) = mem
           /\ Replay(mem, <<>>) = mem
<1>1. /\ mem \in Snapshot /\ OfPanel(mem)
      /\ journal \in Seq(Record \cup {Torn}) /\ Sound(journal)
      /\ \A i \in DOMAIN journal : journal[i].rev <= mem.rev
  BY TornIsLastSound DEF LkgIInv, LkgTypeOK, LkgLists, LkgJournal
<1>2. mem.rev \in Nat /\ mem.rev > 0
  BY <1>1, LatestGood DEF OfPanel
<1> QED
  BY <1>1, <1>2, ReplayOld, ReplayEmpty

LEMMA RenameStep == LkgIInv /\ ~MigrationMayFail /\ Rename => LkgIInv'
<1> SUFFICES ASSUME LkgIInv, ~MigrationMayFail, Rename PROVE LkgIInv'
  OBVIOUS
<1>0. pc = "rename" /\ UNCHANGED <<panel, mem, journal, legacy, job, crashes>>
  BY DEF Rename
<1>1. mem # None
  BY <1>0 DEF LkgIInv, LkgPhases
<1>2. /\ mem \in Snapshot /\ OfPanel(mem)
      /\ journal \in Seq(Record \cup {Torn}) /\ Sound(journal)
      /\ \A i \in DOMAIN journal : journal[i].rev <= mem.rev
      /\ Replay(mem, journal) = mem
  BY <1>1, SavingGood
<1>3. CASE base' = mem /\ pc' = "unlink" /\ UNCHANGED <<pending, out>>
  <2> USE DEF LkgIInv
  <2>1. LkgTypeOK'
    BY <1>0, <1>2, <1>3 DEF LkgTypeOK
  <2>2. LkgPhases'
    BY <1>0, <1>1, <1>3 DEF LkgPhases
  <2>3. LkgLists'
    BY <1>0, <1>2, <1>3 DEF LkgLists, OfPanel
  <2>4. LkgJournal'
    BY <1>0, <1>1, <1>2, <1>3 DEF LkgJournal, TornIsLast
  <2>5. LkgStored'
    BY <1>0, <1>2, <1>3 DEF LkgStored, OfPanel
  <2> QED
    BY <2>1, <2>2, <2>3, <2>4, <2>5
<1>4. CASE base' = mem /\ Failed
  BY <1>0, <1>1, <1>2, <1>4, FailStep
<1>5. CASE base' = base /\ Failed
  <2>1. /\ base \in Snapshot \cup {None}
        /\ base # None => OfPanel(base)
        /\ base = None => journal = <<>>
        /\ base # None => OfPanel(Replay(base, journal))
    BY DEF LkgIInv, LkgTypeOK, LkgLists, LkgJournal, LkgStored
  <2> QED
    BY <1>0, <1>1, <1>2, <1>5, <2>1, FailStep
<1> QED
  BY <1>3, <1>4, <1>5 DEF Rename

LEMMA UnlinkStep == LkgIInv /\ ~MigrationMayFail /\ Unlink => LkgIInv'
<1> SUFFICES ASSUME LkgIInv, ~MigrationMayFail, Unlink PROVE LkgIInv'
  OBVIOUS
<1>0. pc = "unlink" /\ UNCHANGED <<panel, mem, base, legacy, job, crashes>>
  BY DEF Unlink
<1>1. mem # None /\ base = mem
  BY <1>0 DEF LkgIInv, LkgPhases, LkgStored
<1>2. /\ mem \in Snapshot /\ OfPanel(mem)
      /\ journal \in Seq(Record \cup {Torn}) /\ Sound(journal)
      /\ \A i \in DOMAIN journal : journal[i].rev <= mem.rev
      /\ Replay(mem, journal) = mem /\ Replay(mem, <<>>) = mem
  BY <1>1, SavingGood
<1>3. CASE journal' = <<>> /\ pc' = "syncdir" /\ UNCHANGED <<pending, out>>
  <2> USE DEF LkgIInv
  <2>1. LkgTypeOK'
    BY <1>0, <1>2, <1>3 DEF LkgTypeOK
  <2>2. LkgPhases'
    BY <1>0, <1>1, <1>3 DEF LkgPhases
  <2>3. LkgLists'
    BY <1>0, <1>2, <1>3 DEF LkgLists, OfPanel
  <2>4. LkgJournal'
    BY <1>0, <1>1, <1>3 DEF LkgJournal, TornIsLast, Complete
  <2>5. LkgStored'
    BY <1>0, <1>1, <1>2, <1>3 DEF LkgStored, OfPanel
  <2> QED
    BY <2>1, <2>2, <2>3, <2>4, <2>5
<1>4. CASE journal' = journal /\ Failed
  BY <1>0, <1>1, <1>2, <1>4, FailStep
<1> QED
  BY <1>3, <1>4 DEF Unlink

(* A save that is done has stored what is in memory. *)
LEMMA DoneStep ==
    ASSUME LkgIInv, Done, UNCHANGED <<panel, mem, base, legacy, job, crashes>>,
           mem # None, base # None,
           journal' \in Seq(Record \cup {Torn}), Complete(journal'),
           \A i \in DOMAIN journal' : journal'[i].rev <= mem.rev,
           Replay(base, journal') = mem
    PROVE  LkgIInv'
<1> USE DEF LkgIInv
<1>0. /\ mem \in Snapshot /\ OfPanel(mem) /\ mem.rev \in Nat
      /\ mem.rev <= Len(panel) /\ Len(panel) \in Nat
  BY SavingGood, LatestGood DEF OfPanel
<1>1. Recovered' = mem
  BY DEF Recovered
<1>2. pc' = (IF job = "save" THEN "idle" ELSE "retire") /\ pending' = FALSE /\ out' = Torn
  BY DEF Done
<1>3. job \in {"load", "save"}
  BY DEF LkgTypeOK
<1>4. LkgTypeOK'
  BY <1>2, <1>3 DEF LkgTypeOK
<1>5. LkgPhases'
  BY <1>2, <1>3 DEF LkgPhases
<1>6. LkgLists'
  BY DEF LkgLists, OfPanel
<1>7. LkgJournal'
  <2>1. \A i \in DOMAIN journal' : journal'[i].rev <= Len(panel)
    <3> TAKE i \in DOMAIN journal'
    <3>1. journal'[i].rev \in Nat
      BY LkgConstants, TornIsNoRecord DEF Record
    <3> QED
      BY <3>1, <1>0
  <2> QED
    BY <1>2, <2>1 DEF LkgJournal, TornIsLast, Complete
<1>8. LkgStored'
  BY <1>0, <1>1, <1>2, <1>3 DEF LkgStored, OfPanel, Contents
<1> QED
  BY <1>4, <1>5, <1>6, <1>7, <1>8

LEMMA SyncDirStep == LkgIInv /\ ~MigrationMayFail /\ SyncDir => LkgIInv'
<1> SUFFICES ASSUME LkgIInv, ~MigrationMayFail, SyncDir PROVE LkgIInv'
  OBVIOUS
<1>0. pc = "syncdir" /\ UNCHANGED <<panel, mem, base, journal, legacy, job, crashes>>
  BY DEF SyncDir
<1>1. mem # None /\ base = mem /\ journal = <<>>
  BY <1>0 DEF LkgIInv, LkgPhases, LkgStored
<1>2. /\ mem \in Snapshot /\ OfPanel(mem)
      /\ journal \in Seq(Record \cup {Torn}) /\ Sound(journal)
      /\ \A i \in DOMAIN journal : journal[i].rev <= mem.rev
      /\ Replay(mem, journal) = mem
  BY <1>1, SavingGood
<1>3. CASE Done
  BY <1>0, <1>1, <1>2, <1>3, DoneStep DEF Complete
<1>4. CASE Failed
  BY <1>0, <1>1, <1>2, <1>4, FailStep
<1> QED
  BY <1>3, <1>4 DEF SyncDir

-----------------------------------------------------------------------------
(* The steps of an append. *)
LEMMA AppendingGood ==
    ASSUME LkgIInv, pc \in {"append", "appending"}
    PROVE  /\ job = "save" /\ ~pending /\ mem # None /\ base # None
           /\ base \in Snapshot /\ OfPanel(base) /\ OfPanel(Replay(base, journal))
           /\ out \in Record /\ out.rev = mem.rev
           /\ Recovered = Replay(base, journal)
           /\ Applied(Recovered, out) = mem
<1>1. /\ job = "save" /\ ~pending /\ mem # None /\ base # None
      /\ base \in Snapshot /\ OfPanel(base) /\ OfPanel(Replay(base, journal))
      /\ out \in Record
      /\ Recovered.cfg = mem.cfg /\ Recovered.rev < out.rev /\ out.rev = mem.rev
      /\ Patched(Recovered.users, out.delta) = mem.users
  BY DEF LkgIInv, LkgTypeOK, LkgPhases, LkgLists, LkgStored
<1>2. Recovered = Replay(base, journal) /\ Recovered \in Snapshot /\ mem \in Snapshot
  BY <1>1, RecoveredGood, SavingGood
<1>3. Recovered.rev \in Nat /\ out.rev \in Nat
  BY <1>1, <1>2, SnapshotFacts, LkgConstants DEF Record
<1>4. ~(out.rev <= Recovered.rev)
  BY <1>1, <1>3
<1>5. Applied(Recovered, out) = [Recovered EXCEPT !.users = Patched(@, out.delta), !.rev = out.rev]
  BY <1>4 DEF Applied
<1>6. Applied(Recovered, out) = [cfg |-> Recovered.cfg, users |-> Patched(Recovered.users, out.delta), rev |-> out.rev]
  BY <1>5, <1>2 DEF Snapshot
<1>7. mem = [cfg |-> mem.cfg, users |-> mem.users, rev |-> mem.rev]
  BY <1>2 DEF Snapshot
<1>8. Applied(Recovered, out) = mem
  BY <1>1, <1>6, <1>7
<1> QED
  BY <1>1, <1>2, <1>8

(* From an append to a save of the whole snapshot. *)
LEMMA ToSaveStep ==
    ASSUME LkgIInv, UNCHANGED <<panel, mem, pending, base, legacy, job, crashes>>,
           job = "save", mem # None, base # None,
           pc' = "rename", out' = Torn,
           journal' \in Seq(Record \cup {Torn}), Sound(journal'),
           \A i \in DOMAIN journal' : journal'[i].rev <= mem.rev,
           OfPanel(Replay(base, journal'))
    PROVE  LkgIInv'
<1> USE DEF LkgIInv
<1>1. LkgTypeOK'
  BY DEF LkgTypeOK
<1>2. LkgPhases'
  BY DEF LkgPhases
<1>3. LkgLists'
  BY DEF LkgLists, OfPanel
<1>4. LkgJournal'
  <2>1. \A i \in DOMAIN journal' : journal'[i].rev <= Len(panel)
    <3> TAKE i \in DOMAIN journal'
    <3>1. journal'[i].rev \in Nat
      BY LkgConstants, TornIsNoRecord DEF Record
    <3>2. mem.rev \in 1..Len(panel) /\ Len(panel) \in Nat
      BY LatestGood DEF LkgLists, OfPanel
    <3> QED
      BY <3>1, <3>2
  <2> QED
    BY <2>1 DEF LkgJournal, TornIsLast, Sound
<1>5. LkgStored'
  BY DEF LkgStored, OfPanel
<1> QED
  BY <1>1, <1>2, <1>3, <1>4, <1>5

LEMMA AppendBeginStep == LkgIInv /\ ~MigrationMayFail /\ AppendBegin => LkgIInv'
<1> SUFFICES ASSUME LkgIInv, ~MigrationMayFail, AppendBegin PROVE LkgIInv'
  OBVIOUS
<1>0. pc = "append" /\ UNCHANGED <<panel, mem, base, legacy, job, crashes>>
  BY DEF AppendBegin
<1>1. /\ job = "save" /\ ~pending /\ mem # None /\ base # None
      /\ base \in Snapshot /\ OfPanel(base) /\ OfPanel(Replay(base, journal))
      /\ Recovered = Replay(base, journal)
  BY <1>0, AppendingGood
<1>2. /\ mem \in Snapshot /\ OfPanel(mem)
      /\ journal \in Seq(Record \cup {Torn}) /\ Sound(journal) /\ Complete(journal)
      /\ \A i \in DOMAIN journal : journal[i].rev <= mem.rev
      /\ mem.rev \in Nat
  BY <1>0, <1>1, SavingGood DEF LkgIInv, LkgJournal
<1>3. CASE journal' = journal /\ pc' = "rename" /\ out' = Torn /\ UNCHANGED pending
  BY <1>0, <1>1, <1>2, <1>3, ToSaveStep
<1>4. CASE journal' = journal /\ Failed
  BY <1>0, <1>1, <1>2, <1>4, FailStep
<1>5. CASE journal' = Append(journal, Torn) /\ pc' = "appending" /\ UNCHANGED <<pending, out>>
  <2> USE DEF LkgIInv
  <2>1. TornTail(journal') /\ Replay(base, journal') = Replay(base, journal)
    BY <1>2, <1>5, ReplayBeginTail
  <2>2. /\ journal' \in Seq(Record \cup {Torn})
        /\ Len(journal') = Len(journal) + 1
        /\ \A i \in 1..Len(journal) : journal'[i] = journal[i]
        /\ journal'[Len(journal) + 1] = Torn
    BY <1>2, <1>5
  <2>3. ASSUME NEW i \in DOMAIN journal'
        PROVE  journal'[i].rev <= mem.rev /\ journal'[i].rev <= Len(panel)
    <3>1. CASE i \in DOMAIN journal
      BY <3>1, <1>2, <2>2 DEF LkgJournal
    <3>2. CASE i = Len(journal) + 1
      BY <3>2, <1>2, <2>2, TornIsNoRecord, LatestGood
    <3> QED
      BY <3>1, <3>2, <2>2, <1>2
  <2>4. Recovered' = Recovered
    BY <1>0, <1>1, <2>1 DEF Recovered
  <2>5. LkgTypeOK'
    BY <1>0, <1>5, <2>1, <2>2 DEF LkgTypeOK, TornTail
  <2>6. LkgPhases'
    BY <1>0, <1>1, <1>5 DEF LkgPhases
  <2>7. LkgLists'
    BY <1>0 DEF LkgLists, OfPanel
  <2>8. LkgJournal'
    BY <1>0, <1>1, <1>5, <2>1, <2>3 DEF LkgJournal, TornIsLast, TornTail
  <2>9. LkgStored'
    BY <1>0, <1>1, <1>5, <2>1, <2>4 DEF LkgStored, OfPanel
  <2> QED
    BY <2>5, <2>6, <2>7, <2>8, <2>9
<1> QED
  BY <1>3, <1>4, <1>5 DEF AppendBegin

(* The record that fills the torn tail brings the store to what is in memory. *)
LEMMA FilledGood ==
    ASSUME LkgIInv, pc = "appending"
    PROVE  LET full == [journal EXCEPT ![Len(journal)] = out]
           IN  /\ full \in Seq(Record \cup {Torn}) /\ Complete(full) /\ Sound(full)
               /\ \A i \in DOMAIN full : full[i].rev <= mem.rev
               /\ Replay(base, full) = mem
<1> DEFINE full == [journal EXCEPT ![Len(journal)] = out]
<1>1. /\ mem # None /\ base # None /\ out \in Record /\ out.rev = mem.rev
      /\ Recovered = Replay(base, journal) /\ Applied(Recovered, out) = mem
  BY AppendingGood
<1>2. /\ journal \in Seq(Record \cup {Torn}) /\ Sound(journal) /\ mem.rev \in Nat
      /\ \A i \in DOMAIN journal : journal[i].rev <= mem.rev
  BY <1>1, SavingGood
<1>3. TornTail(journal)
  BY <1>2 DEF TornTail, Sound, LkgIInv, LkgTypeOK
<1>4. /\ full \in Seq(Record \cup {Torn}) /\ Complete(full)
      /\ Len(full) = Len(journal)
      /\ \A i \in 1..(Len(journal) - 1) : full[i] = journal[i]
      /\ full[Len(journal)] = out
      /\ Replay(base, full) = Applied(Replay(base, journal), out)
  BY <1>1, <1>2, <1>3, ReplayFillTail
<1> HIDE DEF full
<1>5. Sound(full)
  BY <1>4 DEF Sound, Complete
<1>6. ASSUME NEW i \in DOMAIN full PROVE full[i].rev <= mem.rev
  <2>0. Len(journal) \in Nat /\ i \in 1..Len(journal)
    BY <1>2, <1>4
  <2>1. CASE i = Len(journal)
    BY <2>1, <1>1, <1>2, <1>4
  <2>2. CASE i # Len(journal)
    <3>1. i \in 1..(Len(journal) - 1) /\ i \in DOMAIN journal
      BY <2>0, <2>2, <1>2
    <3> QED
      BY <3>1, <1>2, <1>4
  <2> QED
    BY <2>1, <2>2
<1> QED
  BY <1>1, <1>4, <1>5, <1>6 DEF full

LEMMA AppendEndStep == LkgIInv /\ ~MigrationMayFail /\ AppendEnd => LkgIInv'
<1> SUFFICES ASSUME LkgIInv, ~MigrationMayFail, AppendEnd PROVE LkgIInv'
  OBVIOUS
<1> DEFINE full == [journal EXCEPT ![Len(journal)] = out]
<1>0. pc = "appending" /\ UNCHANGED <<panel, mem, base, legacy, job, crashes>>
  BY DEF AppendEnd
<1>1. /\ job = "save" /\ ~pending /\ mem # None /\ base # None
      /\ base \in Snapshot /\ OfPanel(base) /\ OfPanel(Replay(base, journal))
  BY <1>0, AppendingGood
<1>2. /\ mem \in Snapshot /\ OfPanel(mem)
      /\ journal \in Seq(Record \cup {Torn}) /\ Sound(journal)
      /\ \A i \in DOMAIN journal : journal[i].rev <= mem.rev
  BY <1>1, SavingGood
<1>3. /\ full \in Seq(Record \cup {Torn}) /\ Complete(full) /\ Sound(full)
      /\ \A i \in DOMAIN full : full[i].rev <= mem.rev
      /\ Replay(base, full) = mem
  BY <1>0, FilledGood
<1>4. \/ journal' = full /\ pc' = "rename" /\ out' = Torn /\ UNCHANGED pending
      \/ journal' = full /\ Done
      \/ journal' = journal /\ Failed
      \/ journal' = full /\ Failed
  BY DEF AppendEnd
<1> HIDE DEF full
<1>5. CASE journal' = full /\ pc' = "rename" /\ out' = Torn /\ UNCHANGED pending
  BY <1>0, <1>1, <1>2, <1>3, <1>5, ToSaveStep
<1>6. CASE journal' = full /\ Done
  BY <1>0, <1>1, <1>3, <1>6, DoneStep
<1>7. CASE journal' = journal /\ Failed
  BY <1>0, <1>1, <1>2, <1>7, FailStep
<1>8. CASE journal' = full /\ Failed
  BY <1>0, <1>1, <1>2, <1>3, <1>8, FailStep
<1> QED
  BY <1>4, <1>5, <1>6, <1>7, <1>8

-----------------------------------------------------------------------------
(* Crash and recovery. *)
LEMMA CrashStep == LkgIInv /\ Crash => LkgIInv'
<1> SUFFICES ASSUME LkgIInv, Crash PROVE LkgIInv'
  OBVIOUS
<1> USE DEF LkgIInv, Crash
<1>1. crashes' \in 0..MaxCrashes
  BY LkgConstants DEF LkgTypeOK
<1>2. LkgTypeOK'
  BY <1>1 DEF LkgTypeOK
<1>3. LkgPhases'
  BY DEF LkgPhases
<1>4. LkgLists'
  BY DEF LkgLists, OfPanel
<1>5. LkgJournal'
  BY DEF LkgJournal, TornIsLast
<1>6. LkgStored'
  BY DEF LkgStored, OfPanel
<1> QED
  BY <1>2, <1>3, <1>4, <1>5, <1>6

LEMMA BootStep == LkgIInv /\ Boot => LkgIInv'
<1> SUFFICES ASSUME LkgIInv, Boot PROVE LkgIInv'
  OBVIOUS
<1> USE DEF LkgIInv
<1>0. /\ pc = "down" /\ mem' = Recovered
      /\ UNCHANGED <<panel, pending, base, job, out, crashes>>
  BY DEF Boot
<1>1. job = "load" /\ out = Torn /\ ~pending
  BY <1>0 DEF LkgPhases, LkgTypeOK
<1>2. /\ Recovered \in Snapshot \cup {None}
      /\ Recovered # None => OfPanel(Recovered)
      /\ legacy \in Snapshot \cup {None}
      /\ journal \in Seq(Record \cup {Torn}) /\ Sound(journal)
  BY RecoveredGood, TornIsLastSound DEF LkgTypeOK, LkgJournal
<1>3. CASE base # None
  <2>0. pc' = "restore" /\ legacy' \in {legacy, None} /\ journal' = Readable(journal)
    BY <1>3 DEF Boot
  <2>1. /\ Recovered \in Snapshot /\ Recovered = Replay(base, journal)
        /\ \A i \in DOMAIN journal : journal[i].rev <= Recovered.rev
    BY <1>3, RecoveredGood
  <2>2. /\ journal' \in Seq(Record \cup {Torn}) /\ Complete(journal')
        /\ Len(journal') \in 0..Len(journal)
        /\ \A n \in 1..Len(journal') : journal[n] = journal'[n]
    BY <1>2, <2>0, ReadableLength
  <2>3. \A i \in DOMAIN journal' : i \in DOMAIN journal /\ journal'[i] = journal[i]
    BY <1>2, <2>2
  <2>4. Replay(base, journal') = Replay(base, journal)
    BY <1>2, <2>0, ReplayReadable
  <2>5. Recovered' = Recovered
    BY <1>0, <1>3, <2>1, <2>4 DEF Recovered
  <2>6. LkgTypeOK'
    BY <1>0, <1>1, <1>2, <2>0, <2>2 DEF LkgTypeOK
  <2>7. LkgPhases'
    BY <1>0, <1>1, <2>0 DEF LkgPhases
  <2>8. LkgLists'
    BY <1>0, <1>2, <2>0 DEF LkgLists, OfPanel
  <2>9. LkgJournal'
    <3>1. \A i \in DOMAIN journal' : journal'[i].rev <= Recovered.rev /\ journal'[i].rev <= Len(panel)
      BY <2>1, <2>3 DEF LkgJournal
    <3> QED
      BY <1>0, <1>3, <2>2, <3>1 DEF LkgJournal, TornIsLast, Complete
  <2>10. LkgStored'
    BY <1>0, <1>3, <2>0, <2>4, <2>5 DEF LkgStored, OfPanel
  <2> QED
    BY <2>6, <2>7, <2>8, <2>9, <2>10
<1>4. CASE base = None
  <2>0. /\ pc' = IF legacy # None THEN "rename" ELSE "restore"
        /\ UNCHANGED <<legacy, journal>>
    BY <1>4 DEF Boot
  <2>1. Recovered = legacy /\ journal = <<>>
    BY <1>4, RecoveredGood
  <2>2. Recovered' = legacy
    BY <1>0, <1>4, <2>0 DEF Recovered
  <2>3. LkgTypeOK'
    BY <1>0, <1>1, <1>2, <2>0 DEF LkgTypeOK
  <2>4. LkgPhases'
    BY <1>0, <1>1, <2>0, <2>1 DEF LkgPhases
  <2>5. LkgLists'
    BY <1>0, <1>2, <2>0 DEF LkgLists, OfPanel
  <2>6. LkgJournal'
    BY <1>0, <2>0, <2>1 DEF LkgJournal, TornIsLast, Complete
  <2>7. LkgStored'
    BY <1>0, <1>1, <1>4, <2>0, <2>1, <2>2 DEF LkgStored, OfPanel
  <2> QED
    BY <2>3, <2>4, <2>5, <2>6, <2>7
<1> QED
  BY <1>3, <1>4

LEMMA RetireStep == LkgIInv /\ Retire => LkgIInv'
<1> SUFFICES ASSUME LkgIInv, Retire PROVE LkgIInv'
  OBVIOUS
<1> USE DEF LkgIInv
<1>0. /\ pc = "retire" /\ pc' = "restore" /\ legacy' \in {legacy, None}
      /\ UNCHANGED <<panel, mem, pending, base, journal, job, out, crashes>>
  BY DEF Retire
<1>1. mem = Recovered /\ mem # None
  BY <1>0 DEF LkgPhases, LkgStored
<1>2. base # None
  BY <1>0, <1>1 DEF LkgStored
<1>3. Recovered' = Recovered
  BY <1>0, <1>2 DEF Recovered
<1>4. LkgTypeOK'
  BY <1>0 DEF LkgTypeOK
<1>5. LkgPhases'
  BY <1>0 DEF LkgPhases
<1>6. LkgLists'
  BY <1>0 DEF LkgLists, OfPanel
<1>7. LkgJournal'
  BY <1>0 DEF LkgJournal, TornIsLast, Complete
<1>8. LkgStored'
  BY <1>0, <1>1, <1>3 DEF LkgStored, OfPanel
<1> QED
  BY <1>4, <1>5, <1>6, <1>7, <1>8

LEMMA RestoreStep == LkgIInv /\ Restore => LkgIInv'
<1> SUFFICES ASSUME LkgIInv, Restore PROVE LkgIInv'
  OBVIOUS
<1> USE DEF LkgIInv
<1>0. /\ pc = "restore" /\ pc' = "idle" /\ job' = "save" /\ mem' \in {mem, None}
      /\ UNCHANGED <<panel, pending, base, journal, legacy, out, crashes>>
  BY DEF Restore
<1>1. mem = Recovered
  BY <1>0 DEF LkgStored
<1>2. Recovered' = Recovered
  BY <1>0 DEF Recovered
<1>4. LkgTypeOK'
  BY <1>0 DEF LkgTypeOK
<1>5. LkgPhases'
  BY <1>0 DEF LkgPhases
<1>6. LkgLists'
  BY <1>0 DEF LkgLists, OfPanel
<1>7. LkgJournal'
  BY <1>0 DEF LkgJournal, TornIsLast, Complete
<1>8. LkgStored'
  <2>1. mem' # None => mem' = Recovered /\ base # None /\ Recovered.rev <= Recovered.rev
    BY <1>0, <1>1, RecoveredGood, SnapshotFacts DEF LkgStored
  <2> QED
    BY <1>0, <1>2, <2>1 DEF LkgStored, OfPanel
<1> QED
  BY <1>4, <1>5, <1>6, <1>7, <1>8

LEMMA LkgUnchanged == LkgIInv /\ UNCHANGED lkgVars => LkgIInv'
<1> SUFFICES ASSUME LkgIInv, UNCHANGED lkgVars PROVE LkgIInv'
  OBVIOUS
<1> USE DEF LkgIInv, lkgVars
<1>1. Recovered' = Recovered
  BY DEF Recovered
<1>2. LkgTypeOK' /\ LkgPhases'
  BY DEF LkgTypeOK, LkgPhases
<1>3. LkgLists' /\ LkgJournal'
  BY DEF LkgLists, LkgJournal, OfPanel, TornIsLast, Complete
<1>4. LkgStored'
  BY <1>1 DEF LkgStored, OfPanel
<1> QED
  BY <1>2, <1>3, <1>4

LEMMA LkgInvStep == LkgIInv /\ ~MigrationMayFail /\ [LkgNext]_lkgVars => LkgIInv'
BY PanelChangeStep, SyncBaseStep, SyncDeltaStep, SyncSameStep, RenameStep, UnlinkStep,
   SyncDirStep, AppendBeginStep, AppendEndStep, CrashStep, BootStep, RetireStep,
   RestoreStep, LkgUnchanged
   DEF LkgNext

LEMMA LkgInvConsistent == LkgIInv => StoreConsistent
<1> SUFFICES ASSUME LkgIInv PROVE StoreConsistent
  OBVIOUS
<1>1. RecoveredConsistent
  BY RecoveredGood DEF RecoveredConsistent, OfPanel
<1> QED
  BY <1>1 DEF LkgIInv, StoreConsistent, LkgJournal, LkgStored, PendingMarksBehind

(* After a crash between any two file operations of save, append and compaction
   (lkg.rs) a restart serves one revision of the panel, the latest one unless a
   save is owed, and a torn record is only at the end of the journal.  The
   hypothesis is needed: see PendingMarksBehind with a failed migration. *)
THEOREM StoreAlwaysConsistent ==
    ~MigrationMayFail => (LkgSpec => []StoreConsistent)
<1> SUFFICES ASSUME ~MigrationMayFail PROVE LkgSpec => []StoreConsistent
  OBVIOUS
<1>1. LkgInit => LkgIInv
  BY LkgInitInv
<1>2. LkgIInv /\ [LkgNext]_lkgVars => LkgIInv'
  BY LkgInvStep
<1>3. LkgIInv => StoreConsistent
  BY LkgInvConsistent
<1> QED
  BY <1>1, <1>2, <1>3, PTL DEF LkgSpec

-----------------------------------------------------------------------------
(* The refinement: every step of the store is a step of DurableCell or leaves it
   unchanged. *)
LEMMA CellInit == LkgInit => Cell!Init
<1> SUFFICES ASSUME LkgInit PROVE Cell!Init
  OBVIOUS
<1>1. Recovered \in Snapshot \cup {None}
  BY LkgInitInv, RecoveredGood
<1>2. Contents(Recovered) \in (Configs \X UserList) \cup {None}
  BY <1>1, SnapshotFacts DEF Contents
<1> QED
  BY <1>2 DEF Cell!Init, LkgInit

(* The cell in the words of the store. *)
CellApplied == IF job = "load" THEN None ELSE Contents(mem)
CellStored == Contents(Recovered)
CellBusy == job = "save" /\ pc # "idle"

LEMMA CellApply ==
    ASSUME ~CellBusy, CellApplied' \in Configs \X UserList, CellBusy' = TRUE,
           UNCHANGED <<CellStored, pending>>
    PROVE  Cell!Next
BY DEF Cell!Next, Cell!Apply, CellApplied, CellStored, CellBusy

LEMMA CellStore ==
    ASSUME CellBusy, CellStored' = CellApplied, UNCHANGED <<CellApplied, CellBusy, pending>>
    PROVE  Cell!Next
BY DEF Cell!Next, Cell!Store, CellApplied, CellStored, CellBusy

LEMMA CellAck ==
    ASSUME CellBusy, CellStored' = CellApplied, CellBusy' = FALSE, pending' = FALSE,
           UNCHANGED CellApplied
    PROVE  Cell!Next
BY DEF Cell!Next, Cell!Ack, CellApplied, CellStored, CellBusy

LEMMA CellFail ==
    ASSUME CellBusy, CellStored' \in {CellStored, CellApplied}, CellBusy' = FALSE,
           pending' = TRUE, UNCHANGED CellApplied
    PROVE  Cell!Next
BY DEF Cell!Next, Cell!Fail, CellApplied, CellStored, CellBusy

LEMMA CellCrash ==
    ASSUME CellApplied' = None, CellBusy' = FALSE, pending' = FALSE, UNCHANGED CellStored
    PROVE  Cell!Next
BY DEF Cell!Next, Cell!Crash, CellApplied, CellStored, CellBusy

LEMMA CellRecover ==
    ASSUME CellApplied = None, ~CellBusy, CellApplied' = CellStored,
           UNCHANGED <<CellStored, CellBusy, pending>>
    PROVE  Cell!Next
BY DEF Cell!Next, Cell!Recover, CellApplied, CellStored, CellBusy

(* A save that fails and has stored the snapshot in memory, or nothing. *)
LEMMA FailedRefines ==
    ASSUME LkgIInv, ~MigrationMayFail, Failed, UNCHANGED <<mem, job>>,
           pc \notin {"idle", "down"}, Recovered' \in {Recovered, mem}
    PROVE  Cell!Next
<1>1. /\ job = "save" /\ pc' = "idle" /\ pending' /\ pending' \in BOOLEAN
  BY SaveEnds
<1>2. CellBusy /\ CellBusy' = FALSE /\ UNCHANGED CellApplied /\ CellApplied = Contents(mem)
  BY <1>1 DEF CellBusy, CellApplied, Contents
<1>3. CellStored' \in {CellStored, CellApplied}
  BY <1>2 DEF CellStored, Contents
<1> QED
  BY <1>1, <1>2, <1>3, CellFail

(* Step simulation, action by action. *)
LEMMA CellStep ==
    ASSUME LkgIInv, LkgIInv', ~MigrationMayFail, [LkgNext]_lkgVars
    PROVE  [Cell!Next]_(Cell!cell)
<1> DEFINE Same == UNCHANGED <<CellApplied, CellStored, CellBusy, pending>>
<1>0. SUFFICES Cell!Next \/ Same
  BY DEF Cell!cell, CellApplied, CellStored, CellBusy
<1>1. ASSUME UNCHANGED <<base, journal, legacy>> PROVE Recovered' = Recovered /\ CellStored' = CellStored
  BY <1>1 DEF Recovered, CellStored, Contents
<1>2. ASSUME mem' # None, job' = "save" PROVE CellApplied' \in Configs \X UserList
  BY <1>2, SnapshotFacts DEF LkgIInv, LkgTypeOK, CellApplied, Contents
<1>3. CASE PanelChange
  BY <1>1, <1>3 DEF PanelChange, CellApplied, CellBusy, Contents
<1>4. CASE SyncBase
  <2>1. mem' # None
    BY <1>4 DEF SyncBase, LkgIInv, LkgPhases
  <2> QED
    BY <1>1, <1>2, <1>4, <2>1, CellApply DEF SyncBase, CellBusy
<1>5. CASE SyncDelta
  <2>1. mem' # None
    BY <1>5 DEF SyncDelta, LkgIInv, LkgPhases
  <2> QED
    BY <1>1, <1>2, <1>5, <2>1, CellApply DEF SyncDelta, CellBusy
<1>6. CASE SyncSame
  <2>1. mem \in Snapshot /\ mem' = [mem EXCEPT !.rev = Len(panel)]
    BY <1>6 DEF SyncSame, LkgIInv, LkgTypeOK
  <2>2. mem' # None /\ mem # None /\ mem'.cfg = mem.cfg /\ mem'.users = mem.users
    BY <1>6, <2>1, SyncSameStep, LatestGood, SnapshotFacts DEF Snapshot, SyncSame
  <2>3. CASE pending
    BY <1>1, <1>2, <1>6, <2>2, <2>3, CellApply DEF SyncSame, CellBusy
  <2>4. CASE ~pending
    BY <1>1, <1>6, <2>2, <2>4 DEF SyncSame, CellBusy, CellApplied, Contents
  <2> QED
    BY <2>3, <2>4
<1>7. CASE Rename
  <2>0. pc = "rename" /\ UNCHANGED <<panel, mem, journal, legacy, job, crashes>>
    BY <1>7 DEF Rename
  <2>1. mem # None /\ job \in {"load", "save"}
    BY <2>0 DEF LkgIInv, LkgPhases, LkgTypeOK
  <2>2. Replay(mem, journal) = mem
    BY <2>1, SavingGood
  <2>3. base' = mem => Recovered' = mem
    BY <2>0, <2>1, <2>2 DEF Recovered
  <2>4. CASE base' = mem /\ pc' = "unlink" /\ UNCHANGED <<pending, out>>
    <3>1. CASE job = "save"
      <4>1. /\ CellBusy /\ CellApplied = Contents(mem) /\ CellStored' = Contents(mem)
            /\ UNCHANGED <<CellApplied, CellBusy, pending>>
        BY <2>0, <2>3, <2>4, <3>1 DEF CellBusy, CellApplied, CellStored, Contents
      <4> QED
        BY <4>1, CellStore
    <3>2. CASE job = "load"
      <4>1. base = None /\ mem = legacy /\ Recovered = legacy
        BY <2>0, <3>2, RecoveredGood DEF LkgIInv, LkgStored
      <4> QED
        BY <2>0, <2>3, <2>4, <3>2, <4>1 DEF CellBusy, CellApplied, CellStored, Contents
    <3> QED
      BY <2>1, <3>1, <3>2
  <2>5. CASE base' = mem /\ Failed
    BY <2>0, <2>3, <2>5, FailedRefines
  <2>6. CASE base' = base /\ Failed
    BY <1>1, <2>0, <2>6, FailedRefines
  <2> QED
    BY <1>7, <2>4, <2>5, <2>6 DEF Rename
<1>8. CASE Unlink
  <2>0. pc = "unlink" /\ UNCHANGED <<panel, mem, base, legacy, job, crashes>>
    BY <1>8 DEF Unlink
  <2>1. mem # None /\ base = mem /\ job \in {"load", "save"}
    BY <2>0 DEF LkgIInv, LkgPhases, LkgTypeOK, LkgStored
  <2>2. Replay(mem, journal) = mem /\ Replay(mem, <<>>) = mem
    BY <2>1, SavingGood
  <2>3. Recovered = mem
    BY <2>1, <2>2 DEF Recovered
  <2>4. CASE journal' = <<>> /\ pc' = "syncdir" /\ UNCHANGED <<pending, out>>
    <3>1. Recovered' = mem
      BY <2>0, <2>1, <2>2, <2>4 DEF Recovered
    <3> QED
      BY <2>0, <2>3, <2>4, <3>1 DEF CellBusy, CellApplied, CellStored, Contents
  <2>5. CASE journal' = journal /\ Failed
    BY <1>1, <2>0, <2>5, FailedRefines
  <2> QED
    BY <1>8, <2>4, <2>5 DEF Unlink
<1>9. ASSUME Done, UNCHANGED <<mem, job>>, pc \in {"syncdir", "appending"},
             Recovered' = mem,
             job = "load" => Recovered = mem
      PROVE  Cell!Next \/ Same
  <2>1. job \in {"load", "save"} /\ pending \in BOOLEAN /\ (job = "load" => ~pending)
    BY DEF LkgIInv, LkgTypeOK, LkgPhases
  <2>2. CASE job = "save"
    <3>1. /\ CellBusy /\ CellApplied = Contents(mem) /\ CellStored' = Contents(mem)
          /\ CellBusy' = FALSE /\ pending' = FALSE /\ UNCHANGED CellApplied
      BY <1>9, <2>2 DEF Done, CellBusy, CellApplied, CellStored, Contents
    <3> QED
      BY <3>1, CellAck
  <2>3. CASE job = "load"
    BY <1>9, <2>1, <2>3 DEF Done, CellBusy, CellApplied, CellStored, Contents
  <2> QED
    BY <2>1, <2>2, <2>3
<1>10. CASE SyncDir
  <2>0. pc = "syncdir" /\ UNCHANGED <<panel, mem, base, journal, legacy, job, crashes>>
    BY <1>10 DEF SyncDir
  <2>1. mem # None /\ base = mem
    BY <2>0 DEF LkgIInv, LkgPhases, LkgStored
  <2>2. Recovered = mem /\ Recovered' = Recovered
    BY <2>0, <2>1, <1>1, SavingGood DEF Recovered
  <2>3. CASE Done
    BY <1>9, <2>0, <2>2, <2>3
  <2>4. CASE Failed
    BY <2>0, <2>2, <2>4, FailedRefines
  <2> QED
    BY <1>10, <2>3, <2>4 DEF SyncDir
<1>11. CASE AppendBegin
  <2>0. pc = "append" /\ UNCHANGED <<panel, mem, base, legacy, job, crashes>>
    BY <1>11 DEF AppendBegin
  <2>1. job = "save" /\ mem # None /\ base # None
    BY <2>0, AppendingGood
  <2>2. CASE journal' = journal /\ pc' = "rename" /\ out' = Torn /\ UNCHANGED pending
    BY <1>1, <2>0, <2>2 DEF CellBusy, CellApplied, Contents
  <2>3. CASE journal' = journal /\ Failed
    BY <1>1, <2>0, <2>3, FailedRefines
  <2>4. CASE journal' = Append(journal, Torn) /\ pc' = "appending" /\ UNCHANGED <<pending, out>>
    <3>1. journal \in Seq(Record \cup {Torn}) /\ Complete(journal)
      BY <2>0 DEF LkgIInv, LkgTypeOK, LkgJournal
    <3>2. Replay(base, journal') = Replay(base, journal)
      BY <2>4, <3>1, ReplayBeginTail
    <3>3. Recovered' = Recovered
      BY <2>0, <2>1, <3>2 DEF Recovered
    <3> QED
      BY <2>0, <2>4, <3>3 DEF CellBusy, CellApplied, CellStored, Contents
  <2> QED
    BY <1>11, <2>2, <2>3, <2>4 DEF AppendBegin
<1>12. CASE AppendEnd
  <2> DEFINE full == [journal EXCEPT ![Len(journal)] = out]
  <2>0. pc = "appending" /\ UNCHANGED <<panel, mem, base, legacy, job, crashes>>
    BY <1>12 DEF AppendEnd
  <2>1. job = "save" /\ mem # None /\ base # None
    BY <2>0, AppendingGood
  <2>2. Replay(base, full) = mem
    BY <2>0, FilledGood
  <2>3. \/ journal' = full /\ pc' = "rename" /\ out' = Torn /\ UNCHANGED pending
        \/ journal' = full /\ Done
        \/ journal' = journal /\ Failed
        \/ journal' = full /\ Failed
    BY <1>12 DEF AppendEnd
  <2>4. journal' = full => Recovered' = mem
    BY <2>0, <2>1, <2>2 DEF Recovered
  <2> HIDE DEF full
  <2>5. CASE journal' = full /\ pc' = "rename" /\ out' = Torn /\ UNCHANGED pending
    <3>1. /\ CellBusy /\ CellApplied = Contents(mem) /\ CellStored' = Contents(mem)
          /\ UNCHANGED <<CellApplied, CellBusy, pending>>
      BY <2>0, <2>1, <2>4, <2>5 DEF CellBusy, CellApplied, CellStored, Contents
    <3> QED
      BY <3>1, CellStore
  <2>6. CASE journal' = full /\ Done
    BY <1>9, <2>0, <2>1, <2>4, <2>6
  <2>7. CASE journal' = journal /\ Failed
    BY <1>1, <2>0, <2>7, FailedRefines
  <2>8. CASE journal' = full /\ Failed
    BY <2>0, <2>4, <2>8, FailedRefines
  <2> QED
    BY <2>3, <2>5, <2>6, <2>7, <2>8
<1>13. CASE Crash
  BY <1>1, <1>13, CellCrash DEF Crash, CellApplied, CellBusy
<1>14. CASE Boot
  <2>1. pc = "down" /\ job = "load" /\ job' = job /\ pending' = pending /\ base' = base
    BY <1>14 DEF Boot, LkgIInv, LkgPhases
  <2>2. Recovered' = Recovered
    <3>1. CASE base # None
      <4>1. journal \in Seq(Record \cup {Torn}) /\ Sound(journal) /\ journal' = Readable(journal)
        BY <1>14, <3>1, TornIsLastSound DEF Boot, LkgIInv, LkgTypeOK, LkgJournal
      <4>2. Replay(base, journal') = Replay(base, journal)
        BY <4>1, ReplayReadable
      <4> QED
        BY <2>1, <3>1, <4>2 DEF Recovered
    <3>2. CASE base = None
      BY <1>14, <3>2 DEF Boot, Recovered
    <3> QED
      BY <3>1, <3>2
  <2> QED
    BY <2>1, <2>2 DEF CellApplied, CellStored, CellBusy, Contents
<1>15. CASE Retire
  <2>1. /\ pc = "retire" /\ pc' = "restore" /\ job = "load" /\ base # None
        /\ UNCHANGED <<panel, mem, pending, base, journal, job, out, crashes>>
    BY <1>15 DEF Retire, LkgIInv, LkgPhases, LkgStored
  <2>2. Recovered' = Recovered
    BY <2>1 DEF Recovered
  <2> QED
    BY <2>1, <2>2 DEF CellApplied, CellStored, CellBusy, Contents
<1>16. CASE Restore
  <2>1. /\ pc = "restore" /\ pc' = "idle" /\ job = "load" /\ job' = "save"
        /\ mem' \in {mem, None} /\ mem = Recovered
        /\ UNCHANGED <<panel, pending, base, journal, legacy, out, crashes>>
    BY <1>16 DEF Restore, LkgIInv, LkgPhases, LkgStored
  <2>2. /\ CellApplied = None /\ ~CellBusy /\ CellBusy' = CellBusy /\ CellStored' = CellStored
        /\ CellApplied' = Contents(mem')
    BY <1>1, <2>1 DEF CellApplied, CellBusy, Contents
  <2>3. CASE mem' = mem
    <3>1. CellApplied' = CellStored
      BY <2>1, <2>2, <2>3 DEF CellStored, Contents
    <3> QED
      BY <2>1, <2>2, <3>1, CellRecover
  <2>4. CASE mem' = None
    BY <2>1, <2>2, <2>4 DEF Contents
  <2> QED
    BY <2>1, <2>3, <2>4
<1>17. CASE UNCHANGED lkgVars
  BY <1>1, <1>17 DEF lkgVars, CellApplied, CellBusy, Contents
<1> QED
  BY <1>3, <1>4, <1>5, <1>6, <1>7, <1>8, <1>10, <1>11, <1>12, <1>13, <1>14, <1>15,
     <1>16, <1>17 DEF LkgNext

(* The base, the journal and the legacy file of lkg.rs together with the pending
   bit of app.rs implement a cell that survives a crash: a save takes effect in one
   step, success is reported only for what is stored, and a restart recovers what
   was stored last. *)
THEOREM StoreIsDurableCell == ~MigrationMayFail => (LkgSpec => Implements)
<1> SUFFICES ASSUME ~MigrationMayFail PROVE LkgSpec => Implements
  OBVIOUS
<1>1. LkgInit => LkgIInv
  BY LkgInitInv
<1>2. LkgIInv /\ [LkgNext]_lkgVars => LkgIInv'
  BY LkgInvStep
<1>3. LkgInit => Cell!Init
  BY CellInit
<1>4. LkgIInv /\ LkgIInv' /\ [LkgNext]_lkgVars => [Cell!Next]_(Cell!cell)
  BY CellStep
<1> QED
  BY <1>1, <1>2, <1>3, <1>4, PTL DEF LkgSpec, Implements, Cell!Spec

-----------------------------------------------------------------------------
(* UserDelta.  Rows of different ids have one sorted list, and each of the
   algorithms ends with a list of the right rows whose ids increase. *)
Ided(rows) ==
    /\ IsFiniteSet(rows) /\ \A r \in rows : r.id \in Nat
    /\ \A r, s \in rows : r.id = s.id => r = s

Increasing(v) == \A i, j \in 1..Len(v) : i < j => v[i].id < v[j].id

Lists(v, rows) == v \in Seq(rows) /\ ToSet(v) = rows /\ Increasing(v)

Below(rows, r) == {s \in rows : s.id < r.id}

(* The rows below a row, and the number of them. *)
LEMMA BelowFacts ==
    ASSUME NEW rows, Ided(rows)
    PROVE  /\ \A r \in rows : /\ IsFiniteSet(Below(rows, r))
                              /\ Cardinality(Below(rows, r)) \in 0..(Cardinality(rows) - 1)
           /\ \A r, s \in rows : r.id < s.id =>
                  Cardinality(Below(rows, r)) < Cardinality(Below(rows, s))
<1>1. IsFiniteSet(rows) /\ Cardinality(rows) \in Nat /\ \A r \in rows : r.id \in Nat
  BY FS_CardinalityType DEF Ided
<1>2. ASSUME NEW S \in SUBSET rows
      PROVE  IsFiniteSet(S) /\ Cardinality(S) \in Nat
  BY <1>1, FS_Subset, FS_CardinalityType
<1>3. ASSUME NEW S \in SUBSET rows, NEW T \in SUBSET S, NEW x \in S, x \notin T
      PROVE  Cardinality(T) < Cardinality(S)
  <2>1. IsFiniteSet(S) /\ Cardinality(S) \in Nat /\ Cardinality(T) \in Nat
    BY <1>2, <1>3
  <2>2. Cardinality(T) <= Cardinality(S) /\ Cardinality(S) # Cardinality(T)
    BY <2>1, <1>3, FS_Subset
  <2> QED
    BY <2>1, <2>2
<1>4. \A r \in rows : Below(rows, r) \in SUBSET rows /\ r \notin Below(rows, r)
  BY <1>1 DEF Below
<1>5. ASSUME NEW r \in rows
      PROVE  /\ IsFiniteSet(Below(rows, r))
             /\ Cardinality(Below(rows, r)) \in 0..(Cardinality(rows) - 1)
  <2>1. IsFiniteSet(Below(rows, r)) /\ Cardinality(Below(rows, r)) \in Nat
    BY <1>2, <1>4
  <2>2. Cardinality(Below(rows, r)) < Cardinality(rows)
    BY <1>3, <1>4
  <2> QED
    BY <2>1, <2>2, <1>1
<1>6. ASSUME NEW r \in rows, NEW s \in rows, r.id < s.id
      PROVE  Cardinality(Below(rows, r)) < Cardinality(Below(rows, s))
  <2>1. Below(rows, r) \in SUBSET Below(rows, s)
    BY <1>6, <1>1 DEF Below
  <2>2. r \in Below(rows, s)
    BY <1>6 DEF Below
  <2> QED
    BY <2>1, <2>2, <1>3, <1>4
<1> QED
  BY <1>5, <1>6

(* Sorted lists its rows. *)
LEMMA SortedLists ==
    ASSUME NEW rows, Ided(rows)
    PROVE  Lists(Sorted(rows), rows)
<1> DEFINE N == Cardinality(rows)
           v == Sorted(rows)
           f == [r \in rows |-> Cardinality(Below(rows, r)) + 1]
<1>1. IsFiniteSet(rows) /\ N \in Nat /\ \A r \in rows : r.id \in Nat
  BY FS_CardinalityType DEF Ided
<1>2. f \in [rows -> 1..N]
  <2>1. ASSUME NEW r \in rows PROVE Cardinality(Below(rows, r)) + 1 \in 1..N
    <3>1. Cardinality(Below(rows, r)) \in 0..(N - 1)
      BY BelowFacts
    <3> HIDE DEF N
    <3> QED
      BY <3>1, <1>1
  <2> QED
    BY <2>1
<1>3. ASSUME NEW r \in rows, NEW s \in rows, r.id < s.id PROVE f[r] < f[s]
  <2>1. Cardinality(Below(rows, r)) < Cardinality(Below(rows, s))
    BY <1>3, BelowFacts
  <2>2. Cardinality(Below(rows, r)) \in Nat /\ Cardinality(Below(rows, s)) \in Nat
    <3>1. Cardinality(Below(rows, r)) \in 0..(N - 1) /\ Cardinality(Below(rows, s)) \in 0..(N - 1)
      BY BelowFacts
    <3> QED
      BY <3>1
  <2> QED
    BY <2>1, <2>2
<1>4. \A r, s \in rows : f[r] = f[s] => r = s
  <2> SUFFICES ASSUME NEW r \in rows, NEW s \in rows, f[r] = f[s] PROVE r = s
    OBVIOUS
  <2>1. f[r] \in Int /\ f[s] \in Int
    BY <1>2
  <2> HIDE DEF f
  <2>2. ~(r.id < s.id) /\ ~(s.id < r.id)
    BY <2>1, <1>3
  <2>3. r.id = s.id
    BY <2>2, <1>1
  <2> QED
    BY <2>3 DEF Ided
<1> HIDE DEF f
<1>5. f \in Injection(rows, 1..N)
  BY <1>2, <1>4 DEF Injection, IsInjective
<1>6. f \in Surjection(rows, 1..N)
  <2>1. IsFiniteSet(1..N) /\ Cardinality(1..N) = N
    <3> HIDE DEF N
    <3> QED
      BY <1>1, FS_Interval
  <2> QED
    BY <1>5, <2>1, FS_Injection
<1>7. ASSUME NEW n \in 1..N PROVE v[n] \in rows /\ f[v[n]] = n
  <2>1. PICK r \in rows : f[r] = n
    BY <1>6, <1>7 DEF Surjection
  <2>2. \A x \in rows : f[x] = n <=> Cardinality({s \in rows : s.id < x.id}) = n - 1
    <3> SUFFICES ASSUME NEW x \in rows
                 PROVE  f[x] = n <=> Cardinality({s \in rows : s.id < x.id}) = n - 1
      OBVIOUS
    <3>1. f[x] = Cardinality({s \in rows : s.id < x.id}) + 1
      BY DEF f, Below
    <3>2. Cardinality({s \in rows : s.id < x.id}) \in 0..(N - 1)
      BY BelowFacts DEF Below
    <3> QED
      BY <3>1, <3>2
  <2>3. v[n] = CHOOSE x \in rows : Cardinality({s \in rows : s.id < x.id}) = n - 1
    BY <1>7 DEF Sorted
  <2> HIDE DEF v
  <2> QED
    BY <2>1, <2>2, <2>3
<1>8. v \in [1..N -> rows]
  <2> DEFINE e(n) == CHOOSE r \in rows : Cardinality({s \in rows : s.id < r.id}) = n - 1
  <2>0. v = [n \in 1..N |-> e(n)]
    BY DEF Sorted
  <2> HIDE DEF e
  <2>1. v = [n \in 1..N |-> v[n]]
    BY <2>0
  <2> HIDE DEF v, N
  <2> QED
    BY <2>1, <1>7
<1> HIDE DEF v, N
<1>9. v \in Seq(rows) /\ Len(v) = N /\ DOMAIN v = 1..N
  BY <1>8, <1>1, LenProperties
<1>10. ToSet(v) = rows
  <2>1. ASSUME NEW r \in rows PROVE r \in ToSet(v)
    <3>1. f[r] \in 1..N /\ f[v[f[r]]] = f[r] /\ v[f[r]] \in rows
      BY <1>2, <1>7
    <3>2. v[f[r]] = r
      BY <3>1, <1>4
    <3> QED
      BY <3>1, <3>2, <1>9 DEF ToSet
  <2>2. ASSUME NEW x \in ToSet(v) PROVE x \in rows
    BY <1>9, <1>7 DEF ToSet
  <2> QED
    BY <2>1, <2>2
<1>11. Increasing(v)
  <2> SUFFICES ASSUME NEW i \in 1..N, NEW j \in 1..N, i < j PROVE v[i].id < v[j].id
    BY <1>9 DEF Increasing
  <2>1. v[i] \in rows /\ v[j] \in rows /\ f[v[i]] = i /\ f[v[j]] = j
    BY <1>7
  <2>2. v[i] # v[j]
    BY <2>1
  <2>3. ~(v[j].id < v[i].id)
    BY <2>1, <1>3
  <2>4. v[i].id # v[j].id
    BY <2>1, <2>2 DEF Ided
  <2> QED
    BY <2>1, <2>3, <2>4, <1>1
<1> QED
  BY <1>9, <1>10, <1>11 DEF Lists, v

(* A sequence without repetitions is as long as its set of elements is large. *)
LEMMA PrefixCount ==
    ASSUME NEW S, NEW v \in Seq(S), NEW k \in Nat, k <= Len(v),
           \A i, j \in 1..k : v[i] = v[j] => i = j,
           NEW T, T = {v[i] : i \in 1..k}
    PROVE  IsFiniteSet(T) /\ Cardinality(T) = k
<1> DEFINE f == [i \in 1..k |-> v[i]]
<1>1. f \in [1..k -> T]
  OBVIOUS
<1>2. \A i, j \in 1..k : f[i] = f[j] => i = j
  OBVIOUS
<1>3. \A x \in T : \E i \in 1..k : f[i] = x
  OBVIOUS
<1> HIDE DEF f
<1>4. f \in Injection(1..k, T) /\ f \in Surjection(1..k, T)
  BY <1>1, <1>2, <1>3 DEF Injection, IsInjective, Surjection
<1>5. ExistsBijection(1..k, T)
  BY <1>4 DEF ExistsBijection, Bijection
<1>6. IsFiniteSet(T)
  BY <1>5, FS_NatBijection
<1>7. Cardinality(T) = k
  BY <1>5, FS_CountingElements
<1> QED
  BY <1>6, <1>7

(* The rows before a place of a list are those with smaller ids. *)
LEMMA ListBelow ==
    ASSUME NEW rows, Ided(rows), NEW v, Lists(v, rows), NEW k \in 1..Len(v)
    PROVE  /\ v[k] \in rows /\ Below(rows, v[k]) = {v[i] : i \in 1..(k - 1)}
           /\ Cardinality(Below(rows, v[k])) = k - 1
<1>1. /\ v \in Seq(rows) /\ ToSet(v) = rows /\ Len(v) \in Nat /\ DOMAIN v = 1..Len(v)
      /\ \A i, j \in 1..Len(v) : i < j => v[i].id < v[j].id
  BY LenProperties DEF Lists, Increasing
<1>2. \A i \in 1..Len(v) : v[i] \in rows /\ v[i].id \in Nat
  BY <1>1, ElementOfSeq DEF Ided
<1>3. \A i \in 1..Len(v) : v[i].id < v[k].id <=> i < k
  <2> SUFFICES ASSUME NEW i \in 1..Len(v) PROVE v[i].id < v[k].id <=> i < k
    OBVIOUS
  <2>1. CASE i < k
    BY <2>1, <1>1
  <2>2. CASE i = k
    BY <2>2, <1>2
  <2>3. CASE k < i
    <3>1. v[k].id < v[i].id
      BY <2>3, <1>1
    <3> QED
      BY <3>1, <2>3, <1>2
  <2> QED
    BY <2>1, <2>2, <2>3, <1>1
<1>4. \A r \in rows : \E i \in 1..Len(v) : r = v[i]
  BY <1>1 DEF ToSet
<1>5. Below(rows, v[k]) = {v[i] : i \in 1..(k - 1)}
  <2>1. ASSUME NEW r \in Below(rows, v[k]) PROVE r \in {v[i] : i \in 1..(k - 1)}
    <3>1. PICK i \in 1..Len(v) : r = v[i]
      BY <1>4 DEF Below
    <3>2. v[i].id < v[k].id
      BY <3>1 DEF Below
    <3>3. i \in 1..(k - 1)
      BY <3>2, <1>3, <1>1
    <3> QED
      BY <3>1, <3>3
  <2>2. ASSUME NEW i \in 1..(k - 1) PROVE v[i] \in Below(rows, v[k])
    <3>1. i \in 1..Len(v) /\ i < k
      BY <1>1
    <3> QED
      BY <3>1, <1>2, <1>3 DEF Below
  <2> QED
    BY <2>1, <2>2
<1>6. \A i, j \in 1..(k - 1) : v[i] = v[j] => i = j
  <2> SUFFICES ASSUME NEW i \in 1..(k - 1), NEW j \in 1..(k - 1), v[i] = v[j] PROVE i = j
    OBVIOUS
  <2>1. i \in 1..Len(v) /\ j \in 1..Len(v)
    BY <1>1
  <2>2. ~(v[i].id < v[j].id) /\ ~(v[j].id < v[i].id)
    BY <2>1, <1>2
  <2> QED
    BY <2>1, <2>2, <1>1
<1>7. k - 1 \in Nat /\ k - 1 <= Len(v)
  BY <1>1
<1>8. Cardinality({v[i] : i \in 1..(k - 1)}) = k - 1
  <2> DEFINE m == k - 1
  <2>1. m \in Nat /\ m <= Len(v) /\ \A i, j \in 1..m : v[i] = v[j] => i = j
    BY <1>6, <1>7
  <2> DEFINE T == {v[i] : i \in 1..m}
  <2> HIDE DEF m
  <2>2. T = {v[i] : i \in 1..m}
    OBVIOUS
  <2> HIDE DEF T
  <2>3. Cardinality(T) = m
    BY <2>1, <2>2, <1>1, PrefixCount
  <2> QED
    BY <2>3 DEF m, T
<1> QED
  BY <1>2, <1>5, <1>8

(* A list has no repetitions. *)
LEMMA ListDistinct ==
    ASSUME NEW rows, Ided(rows), NEW v, Lists(v, rows)
    PROVE  /\ \A i, j \in 1..Len(v) : v[i].id = v[j].id => i = j
           /\ Len(v) = Cardinality(rows)
<1>1. /\ v \in Seq(rows) /\ ToSet(v) = rows /\ Len(v) \in Nat /\ DOMAIN v = 1..Len(v)
      /\ \A i, j \in 1..Len(v) : i < j => v[i].id < v[j].id
  BY LenProperties DEF Lists, Increasing
<1>2. \A i \in 1..Len(v) : v[i] \in rows /\ v[i].id \in Nat
  BY <1>1, ElementOfSeq DEF Ided
<1>3. \A i, j \in 1..Len(v) : v[i].id = v[j].id => i = j
  <2> SUFFICES ASSUME NEW i \in 1..Len(v), NEW j \in 1..Len(v), v[i].id = v[j].id PROVE i = j
    OBVIOUS
  <2>1. ~(v[i].id < v[j].id) /\ ~(v[j].id < v[i].id)
    BY <1>2
  <2> QED
    BY <2>1, <1>1
<1>4. {v[i] : i \in 1..Len(v)} = rows
  BY <1>1 DEF ToSet
<1>5. Cardinality({v[i] : i \in 1..Len(v)}) = Len(v)
  <2> DEFINE m == Len(v)
  <2>1. m \in Nat /\ m <= Len(v) /\ \A i, j \in 1..m : v[i] = v[j] => i = j
    BY <1>1, <1>3
  <2> DEFINE T == {v[i] : i \in 1..m}
  <2> HIDE DEF m
  <2>2. T = {v[i] : i \in 1..m}
    OBVIOUS
  <2> HIDE DEF T
  <2>3. Cardinality(T) = m
    BY <2>1, <2>2, <1>1, PrefixCount
  <2> QED
    BY <2>3 DEF m, T
<1> QED
  BY <1>3, <1>4, <1>5

(* Rows have one list. *)
LEMMA ListIsSorted ==
    ASSUME NEW rows, Ided(rows), NEW v, Lists(v, rows)
    PROVE  v = Sorted(rows)
<1>1. v \in Seq(rows) /\ Len(v) = Cardinality(rows) /\ Len(v) \in Nat
  BY ListDistinct, LenProperties DEF Lists
<1>2. ASSUME NEW k \in 1..Len(v) PROVE v[k] = Sorted(rows)[k]
  <2>1. v[k] \in rows /\ Cardinality(Below(rows, v[k])) = k - 1
    BY ListBelow
  <2>2. ASSUME NEW r \in rows, Cardinality(Below(rows, r)) = k - 1 PROVE r = v[k]
    <3>1. Cardinality(Below(rows, r)) \in Nat
      <4>1. Cardinality(Below(rows, r)) \in 0..(Cardinality(rows) - 1)
        BY BelowFacts
      <4> QED
        BY <4>1
    <3>2. ~(r.id < v[k].id) /\ ~(v[k].id < r.id)
      BY <2>1, <2>2, <3>1, BelowFacts
    <3>3. r.id \in Nat /\ v[k].id \in Nat
      BY <2>1 DEF Ided
    <3>4. r.id = v[k].id
      BY <3>2, <3>3
    <3> QED
      BY <3>4, <2>1 DEF Ided
  <2>3. Sorted(rows)[k] = CHOOSE r \in rows : Cardinality(Below(rows, r)) = k - 1
    BY <1>1 DEF Sorted, Below
  <2> QED
    BY <2>1, <2>2, <2>3
<1>3. Lists(Sorted(rows), rows)
  BY SortedLists
<1>4. Sorted(rows) \in Seq(rows) /\ Len(Sorted(rows)) = Cardinality(rows)
  BY <1>3, ListDistinct DEF Lists
<1> QED
  BY <1>1, <1>2, <1>4, SeqEqual

(* The sequence kept so far, place by place. *)
KeptSteps(seq, places) ==
    LET kept[n \in 0..Len(seq)] ==
            IF n = 0 THEN <<>>
            ELSE IF n \in places THEN Append(kept[n - 1], seq[n]) ELSE kept[n - 1]
    IN  kept

LEMMA KeptStepsDef ==
    ASSUME NEW seq, NEW places, Len(seq) \in Nat
    PROVE  KeptSteps(seq, places) =
             [n \in 0..Len(seq) |-> IF n = 0 THEN <<>>
                                ELSE IF n \in places THEN Append(KeptSteps(seq, places)[n - 1], seq[n]) ELSE KeptSteps(seq, places)[n - 1]]
<1> DEFINE Step(x, n) == IF n \in places THEN Append(x, seq[n]) ELSE x
           Eqn(g, k) == g = [n \in 0..k |-> IF n = 0 THEN <<>> ELSE Step(g[n - 1], n)]
           P == {k \in Nat : \E g : Eqn(g, k)}
<1> HIDE DEF Step
<1>1. 0 \in P
  <2>1. Eqn([n \in 0..0 |-> <<>>], 0)
    OBVIOUS
  <2> QED
    BY <2>1
<1>2. ASSUME NEW k \in P PROVE k + 1 \in P
  <2>1. PICK g : Eqn(g, k)
    OBVIOUS
  <2> DEFINE h == [n \in 0..(k + 1) |-> IF n = k + 1 THEN Step(g[k], k + 1) ELSE g[n]]
  <2>2. Eqn(h, k + 1)
    <3> DEFINE r == [n \in 0..(k + 1) |-> IF n = 0 THEN <<>> ELSE Step(h[n - 1], n)]
    <3>1. ASSUME NEW n \in 0..(k + 1) PROVE h[n] = r[n]
      <4>1. CASE n = k + 1
        BY <4>1
      <4>2. CASE n = 0
        BY <4>2, <2>1
      <4>3. CASE n \in 1..k
        <5>1. h[n] = g[n] /\ h[n - 1] = g[n - 1]
          BY <4>3
        <5>2. g[n] = Step(g[n - 1], n)
          BY <2>1, <4>3
        <5> QED
          BY <5>1, <5>2, <4>3
      <4> QED
        BY <4>1, <4>2, <4>3
    <3> QED
      BY <3>1
  <2>3. k + 1 \in Nat
    OBVIOUS
  <2> HIDE DEF h, Eqn
  <2> QED
    BY <2>2, <2>3
<1>3. P = Nat
  <2> HIDE DEF P
  <2> QED
    BY <1>1, <1>2, SetInduction DEF P
<1>4. \E g : Eqn(g, Len(seq))
  BY <1>3
<1> QED
  BY <1>4 DEF KeptSteps, Step

(* The places the elements come from, in their order. *)
Selects(at, k, seq, places, n) ==
    /\ at \in [1..Len(k) -> 1..n]
    /\ \A j \in 1..Len(k) : at[j] \in places /\ k[j] = seq[at[j]]
    /\ \A i, j \in 1..Len(k) : i < j => at[i] < at[j]
    /\ \A i \in 1..n : i \in places => \E j \in 1..Len(k) : at[j] = i

LEMMA KeptAtSelects ==
    ASSUME NEW S, NEW seq \in Seq(S), NEW places
    PROVE  /\ KeptAt(seq, places) \in Seq(S)
           /\ \E at : Selects(at, KeptAt(seq, places), seq, places, Len(seq))
<1> DEFINE N == Len(seq)
           h == KeptSteps(seq, places)
           Good(n) == h[n] \in Seq(S) /\ \E at : Selects(at, h[n], seq, places, n)
           P == {n \in Nat : n <= N => Good(n)}
<1>1. N \in Nat /\ \A n \in 1..N : seq[n] \in S
  BY LenProperties, ElementOfSeq
<1>2. h = [n \in 0..N |-> IF n = 0 THEN <<>>
                          ELSE IF n \in places THEN Append(h[n - 1], seq[n]) ELSE h[n - 1]]
  BY <1>1, KeptStepsDef
<1>3. KeptAt(seq, places) = h[N]
  BY DEF KeptAt, KeptSteps
<1> HIDE DEF h, N
<1>4. h[0] = <<>> /\ \A n \in 1..N : h[n] = IF n \in places THEN Append(h[n - 1], seq[n])
                                            ELSE h[n - 1]
  <2>1. 0 \in 0..N /\ \A n \in 1..N : n \in 0..N /\ n # 0
    BY <1>1
  <2> QED
    BY <1>2, <2>1
<1>5. 0 \in P
  <2>1. h[0] \in Seq(S) /\ Len(h[0]) = 0
    BY <1>4, EmptySeq
  <2>2. Selects([j \in 1..0 |-> 0], h[0], seq, places, 0)
    BY <2>1 DEF Selects
  <2> QED
    BY <2>1, <2>2
<1>6. ASSUME NEW n \in P PROVE n + 1 \in P
  <2> SUFFICES ASSUME n + 1 <= N PROVE Good(n + 1)
    OBVIOUS
  <2>1. n \in Nat /\ n <= N /\ n + 1 \in 1..N /\ (n + 1) - 1 = n
    BY <1>1
  <2>2. h[n] \in Seq(S) /\ Len(h[n]) \in Nat
    BY <2>1, LenProperties
  <2>3. PICK at : Selects(at, h[n], seq, places, n)
    BY <2>1
  <2>4. CASE n + 1 \notin places
    <3>1. h[n + 1] = h[n]
      BY <2>1, <2>4, <1>4
    <3>2. Selects(at, h[n], seq, places, n + 1)
      <4>1. 1..n \subseteq 1..(n + 1) /\ \A i \in 1..(n + 1) : i \in 1..n \/ i = n + 1
        BY <2>1
      <4> QED
        BY <4>1, <2>3, <2>4 DEF Selects
    <3> QED
      BY <3>1, <3>2, <2>2
  <2>5. CASE n + 1 \in places
    <3> DEFINE L == Len(h[n])
               new == Append(h[n], seq[n + 1])
               to == [j \in 1..(L + 1) |-> IF j = L + 1 THEN n + 1 ELSE at[j]]
    <3>1. h[n + 1] = new
      BY <2>1, <2>5, <1>4
    <3>2. /\ new \in Seq(S) /\ Len(new) = L + 1 /\ new[L + 1] = seq[n + 1]
          /\ \A j \in 1..L : new[j] = h[n][j]
      BY <2>1, <2>2, <1>1, AppendProperties
    <3>3. /\ at \in [1..L -> 1..n] /\ \A j \in 1..L : at[j] \in places /\ h[n][j] = seq[at[j]]
          /\ \A i, j \in 1..L : i < j => at[i] < at[j]
          /\ \A i \in 1..n : i \in places => \E j \in 1..L : at[j] = i
      BY <2>3 DEF Selects
    <3>4. L \in Nat
      BY <2>2
    <3>5. \A j \in 1..(L + 1) : j \in 1..L \/ j = L + 1
      BY <3>4
    <3>6. L + 1 \in 1..(L + 1) /\ \A j \in 1..L : j \in 1..(L + 1) /\ j # L + 1
      BY <3>4
    <3> HIDE DEF L, new
    <3>7. to[L + 1] = n + 1 /\ \A j \in 1..L : to[j] = at[j]
      BY <3>6
    <3>8. to \in [1..(L + 1) -> 1..(n + 1)]
      <4>1. \A j \in 1..L : at[j] \in 1..(n + 1)
        <5>1. 1..n \subseteq 1..(n + 1)
          BY <2>1
        <5> QED
          BY <5>1, <3>3
      <4>2. n + 1 \in 1..(n + 1)
        BY <2>1
      <4> QED
        BY <4>1, <4>2, <3>5
    <3> HIDE DEF to
    <3>9. \A j \in 1..(L + 1) : to[j] \in places /\ new[j] = seq[to[j]]
      BY <3>2, <3>3, <3>5, <3>7, <2>5
    <3>10. \A i, j \in 1..(L + 1) : i < j => to[i] < to[j]
      <4> SUFFICES ASSUME NEW i \in 1..(L + 1), NEW j \in 1..(L + 1), i < j PROVE to[i] < to[j]
        OBVIOUS
      <4>1. i \in 1..L
        BY <3>4
      <4>2. at[i] \in 1..n
        BY <4>1, <3>3
      <4>3. CASE j \in 1..L
        BY <4>1, <4>3, <3>3, <3>7
      <4>4. CASE j = L + 1
        BY <4>1, <4>2, <4>4, <3>7, <2>1
      <4> QED
        BY <4>3, <4>4, <3>5
    <3>11. \A i \in 1..(n + 1) : i \in places => \E j \in 1..(L + 1) : to[j] = i
      <4> SUFFICES ASSUME NEW i \in 1..(n + 1), i \in places
                   PROVE  \E j \in 1..(L + 1) : to[j] = i
        OBVIOUS
      <4>1. CASE i = n + 1
        BY <4>1, <3>6, <3>7
      <4>2. CASE i \in 1..n
        BY <4>2, <3>3, <3>6, <3>7
      <4> QED
        BY <4>1, <4>2, <2>1
    <3>12. Selects(to, new, seq, places, n + 1)
      BY <3>2, <3>8, <3>9, <3>10, <3>11 DEF Selects
    <3> QED
      BY <3>1, <3>2, <3>12
  <2> QED
    BY <2>4, <2>5
<1>7. P = Nat
  <2>1. P \in SUBSET Nat
    OBVIOUS
  <2> HIDE DEF P
  <2> QED
    BY <1>5, <1>6, <2>1, SetInduction
<1>8. Good(N)
  BY <1>7, <1>1
<1> QED
  BY <1>3, <1>8 DEF N

(* What is kept: the elements at the places, each as often and in the order as
   before. *)
LEMMA KeptAtFacts ==
    ASSUME NEW S, NEW seq \in Seq(S), NEW places
    PROVE  LET k == KeptAt(seq, places)
           IN  /\ k \in Seq(S) /\ ToSet(k) = {seq[n] : n \in (DOMAIN seq) \cap places}
               /\ Increasing(seq) => Increasing(k)
               /\ (\A i, j \in (DOMAIN seq) \cap places : seq[i].id = seq[j].id => i = j)
                     => \A i, j \in 1..Len(k) : k[i].id = k[j].id => i = j
<1> DEFINE k == KeptAt(seq, places)
           N == Len(seq)
<1>1. k \in Seq(S) /\ \E at : Selects(at, k, seq, places, N)
  BY KeptAtSelects
<1> HIDE DEF k
<1>2. PICK at : Selects(at, k, seq, places, N)
  BY <1>1
<1>3. /\ at \in [1..Len(k) -> 1..N] /\ \A j \in 1..Len(k) : at[j] \in places /\ k[j] = seq[at[j]]
      /\ \A i, j \in 1..Len(k) : i < j => at[i] < at[j]
      /\ \A i \in 1..N : i \in places => \E j \in 1..Len(k) : at[j] = i
  BY <1>2 DEF Selects
<1>4. N \in Nat /\ DOMAIN seq = 1..N /\ Len(k) \in Nat /\ DOMAIN k = 1..Len(k)
  BY <1>1, LenProperties
<1> HIDE DEF N
<1>5. \A j \in 1..Len(k) : at[j] \in (DOMAIN seq) \cap places
  BY <1>3, <1>4
<1>6. ToSet(k) = {seq[n] : n \in (DOMAIN seq) \cap places}
  <2>1. ASSUME NEW x \in ToSet(k) PROVE x \in {seq[n] : n \in (DOMAIN seq) \cap places}
    <3>1. PICK j \in 1..Len(k) : x = k[j]
      BY <1>4 DEF ToSet
    <3> QED
      BY <3>1, <1>3, <1>5
  <2>2. ASSUME NEW n \in (DOMAIN seq) \cap places PROVE seq[n] \in ToSet(k)
    <3>1. PICK j \in 1..Len(k) : at[j] = n
      BY <1>3, <1>4
    <3> QED
      BY <3>1, <1>3, <1>4 DEF ToSet
  <2> QED
    BY <2>1, <2>2
<1>7. ASSUME Increasing(seq) PROVE Increasing(k)
  BY <1>7, <1>3, <1>5, <1>4 DEF Increasing, N
<1>8. ASSUME \A i, j \in (DOMAIN seq) \cap places : seq[i].id = seq[j].id => i = j
      PROVE  \A i, j \in 1..Len(k) : k[i].id = k[j].id => i = j
  <2> SUFFICES ASSUME NEW i \in 1..Len(k), NEW j \in 1..Len(k), k[i].id = k[j].id PROVE i = j
    OBVIOUS
  <2>1. at[i] = at[j]
    BY <1>8, <1>3, <1>5
  <2>2. at[i] \in Int /\ at[j] \in Int /\ i \in Int /\ j \in Int
    <3>1. at[i] \in 1..N /\ at[j] \in 1..N
      BY <1>3
    <3> QED
      BY <3>1, <1>4
  <2>3. (i < j => at[i] < at[j]) /\ (j < i => at[j] < at[i])
    BY <1>3
  <2>4. ~(i < j) /\ ~(j < i)
    BY <2>1, <2>2, <2>3
  <2> QED
    BY <2>2, <2>4
<1> QED
  BY <1>1, <1>6, <1>7, <1>8 DEF k

(* A function on 1..n is a sequence, of every set that has its elements. *)
LEMMA FunIsSeq ==
    ASSUME NEW S, NEW n \in Nat, NEW f \in [1..n -> S]
    PROVE  f \in Seq(S) /\ Len(f) = n /\ DOMAIN f = 1..n
OBVIOUS

LEMMA SeqOfPart ==
    ASSUME NEW S, NEW T, NEW s \in Seq(S), \A i \in 1..Len(s) : s[i] \in T
    PROVE  s \in Seq(T)
<1>1. s \in [1..Len(s) -> S] /\ Len(s) \in Nat
  BY LenProperties
<1>2. s \in [1..Len(s) -> T]
  BY <1>1
<1> QED
  BY <1>1, <1>2, FunIsSeq

(* The largest of some places. *)
LEMMA HasLargest ==
    ASSUME NEW n \in Nat, NEW S \in SUBSET (1..n), S # {}
    PROVE  \E m \in S : \A x \in S : x <= m
<1> DEFINE T == {n - x : x \in S}
<1>1. T \in SUBSET Nat /\ T # {}
  <2>1. ASSUME NEW x \in S PROVE n - x \in Nat
    <3>1. x \in 1..n
      OBVIOUS
    <3> QED
      BY <3>1
  <2>2. PICK x \in S : TRUE
    OBVIOUS
  <2> QED
    BY <2>1, <2>2
<1>2. PICK y \in T : \A z \in T : ~(<<z, y>> \in OpToRel(<, Nat))
  <2> HIDE DEF T
  <2> QED
    BY <1>1, WFMin, NatLessThanWellFounded
<1>3. PICK m \in S : y = n - m
  OBVIOUS
<1>4. ASSUME NEW x \in S PROVE x <= m
  <2>1. n - x \in T /\ n - x \in Nat /\ y \in Nat
    BY <1>1
  <2>2. ~(n - x < y)
    BY <2>1, <1>2 DEF OpToRel
  <2>3. x \in 1..n /\ m \in 1..n
    OBVIOUS
  <2> QED
    BY <2>2, <2>3, <1>3
<1> QED
  BY <1>4

(* Where a list has an id. *)
LEMMA PlaceOf ==
    ASSUME NEW rows, Ided(rows), NEW v, Lists(v, rows), NEW k \in 1..Len(v)
    PROVE  Position(v, v[k].id) = k
<1>1. /\ v \in Seq(rows) /\ Len(v) \in Nat /\ DOMAIN v = 1..Len(v)
      /\ \A i, j \in 1..Len(v) : i < j => v[i].id < v[j].id
  BY LenProperties DEF Lists, Increasing
<1>2. \A i \in 1..Len(v) : v[i].id \in Nat
  BY <1>1, ElementOfSeq DEF Ided
<1>3. \A i \in 1..Len(v) : v[i].id < v[k].id <=> i < k
  <2> SUFFICES ASSUME NEW i \in 1..Len(v) PROVE v[i].id < v[k].id <=> i < k
    OBVIOUS
  <2>1. k < i => v[k].id < v[i].id
    BY <1>1
  <2>2. i < k => v[i].id < v[k].id
    BY <1>1
  <2> QED
    BY <2>1, <2>2, <1>1, <1>2
<1>4. {i \in DOMAIN v : v[i].id < v[k].id} = 1..(k - 1)
  BY <1>1, <1>3
<1>5. Cardinality(1..(k - 1)) = k - 1
  <2>1. k \in Int /\ k >= 1
    BY <1>1
  <2>2. Cardinality(1..(k - 1)) = IF 1 > k - 1 THEN 0 ELSE (k - 1) - 1 + 1
    BY <2>1, FS_Interval
  <2> QED
    BY <2>1, <2>2
<1>6. Position(v, v[k].id) = 1 + Cardinality({i \in DOMAIN v : v[i].id < v[k].id})
  BY Zenon DEF Position
<1>7. Position(v, v[k].id) = 1 + (k - 1)
  BY <1>4, <1>5, <1>6, Zenon
<1> QED
  BY <1>1, <1>7

(* Where a list would have an id it has not. *)
LEMMA PlaceFor ==
    ASSUME NEW rows, Ided(rows), NEW v, Lists(v, rows), NEW id \in Nat, ~Has(v, id)
    PROVE  /\ Position(v, id) \in 1..(Len(v) + 1)
           /\ \A i \in 1..Len(v) : /\ i < Position(v, id) => v[i].id < id
                                   /\ Position(v, id) <= i => id < v[i].id
<1> DEFINE S == {i \in DOMAIN v : v[i].id < id}
           N == Len(v)
<1>1. /\ v \in Seq(rows) /\ N \in Nat /\ DOMAIN v = 1..N
      /\ \A i, j \in 1..N : i < j => v[i].id < v[j].id
  BY LenProperties DEF Lists, Increasing
<1>2. \A i \in 1..N : v[i].id \in Nat /\ v[i].id # id
  BY <1>1, ElementOfSeq DEF Ided, Has
<1> HIDE DEF N
<1>3. \E k \in 0..N : S = 1..k
  <2>1. CASE S = {}
    <3>1. S = 1..0 /\ 0 \in 0..N
      BY <2>1, <1>1
    <3> QED
      BY <3>1
  <2>2. CASE S # {}
    <3>1. S \in SUBSET (1..N)
      BY <1>1
    <3>2. PICK m \in S : \A x \in S : x <= m
      BY <3>1, <2>2, <1>1, HasLargest
    <3>3. m \in 1..N /\ v[m].id < id
      BY <1>1
    <3>4. ASSUME NEW i \in 1..m PROVE i \in S
      <4>1. i \in 1..N
        BY <3>3, <1>1
      <4>2. i = m \/ v[i].id < v[m].id
        BY <4>1, <3>3, <1>1
      <4> QED
        BY <4>1, <4>2, <3>3, <1>1, <1>2
    <3>5. ASSUME NEW i \in S PROVE i \in 1..m
      <4>1. i \in 1..N /\ i <= m
        BY <3>1, <3>2
      <4> QED
        BY <4>1, <3>3
    <3>6. S = 1..m /\ m \in 0..N
      BY <3>3, <3>4, <3>5
    <3> QED
      BY <3>6
  <2> QED
    BY <2>1, <2>2
<1>4. PICK k \in 0..N : S = 1..k
  BY <1>3
<1>5. Cardinality(1..k) = k
  <2>1. k \in Int /\ k >= 0
    BY <1>1
  <2>2. Cardinality(1..k) = IF 1 > k THEN 0 ELSE k - 1 + 1
    BY <2>1, FS_Interval
  <2> QED
    BY <2>1, <2>2
<1>6. Position(v, id) = k + 1
  <2>1. Position(v, id) = 1 + Cardinality(S)
    BY Zenon DEF Position
  <2>2. Position(v, id) = 1 + k
    BY <2>1, <1>4, <1>5, Zenon
  <2> QED
    BY <2>2, <1>1
<1>7. ASSUME NEW i \in 1..N
      PROVE  (i < k + 1 => v[i].id < id) /\ (k + 1 <= i => id < v[i].id)
  <2>1. i < k + 1 => i \in S
    BY <1>4, <1>1
  <2>2. k + 1 <= i => i \notin S
    BY <1>4, <1>1
  <2>3. i \in S <=> v[i].id < id
    BY <1>1
  <2> QED
    BY <2>1, <2>2, <2>3, <1>2
<1>8. k + 1 \in 1..(N + 1)
  BY <1>1
<1> QED
  BY <1>6, <1>7, <1>8 DEF N

(* What a place more or less does to a sequence. *)
LEMMA InsertAtFacts ==
    ASSUME NEW S, NEW v \in Seq(S), NEW p \in 1..(Len(v) + 1), NEW e \in S
    PROVE  LET w == InsertAt(v, p, e)
           IN  /\ w \in Seq(S) /\ Len(w) = Len(v) + 1
               /\ \A i \in 1..(Len(v) + 1) :
                     w[i] = IF i < p THEN v[i] ELSE IF i = p THEN e ELSE v[i - 1]
<1> DEFINE N == Len(v)
           a == SubSeq(v, 1, p - 1)
           b == SubSeq(v, p, N)
           c == a \o <<e>>
           w == c \o b
<1>1. N \in Nat /\ \A i \in 1..N : v[i] \in S
  BY LenProperties, ElementOfSeq
<1>2. a \in Seq(S) /\ Len(a) = p - 1 /\ \A i \in 1..(p - 1) : a[i] = v[i]
  <2>1. \A i \in 1..(p - 1) : v[i] \in S
    BY <1>1
  <2>2. /\ a \in Seq(S) /\ Len(a) = IF 1 <= p - 1 THEN p - 1 - 1 + 1 ELSE 0
        /\ \A i \in 1..(p - 1 - 1 + 1) : a[i] = v[1 + i - 1]
    BY <1>1, <2>1, SubSeqProperties
  <2> HIDE DEF a
  <2> QED
    BY <1>1, <2>2
<1>3. b \in Seq(S) /\ Len(b) = N + 1 - p /\ \A i \in 1..(N + 1 - p) : b[i] = v[p + i - 1]
  <2>1. \A i \in p..N : v[i] \in S
    BY <1>1
  <2>2. /\ b \in Seq(S) /\ Len(b) = IF p <= N THEN N - p + 1 ELSE 0
        /\ \A i \in 1..(N - p + 1) : b[i] = v[p + i - 1]
    BY <1>1, <2>1, SubSeqProperties
  <2> HIDE DEF b
  <2> QED
    BY <1>1, <2>2
<1> HIDE DEF a, b
<1>4. <<e>> \in Seq(S) /\ Len(<<e>>) = 1 /\ <<e>>[1] = e
  OBVIOUS
<1>5. c \in Seq(S) /\ Len(c) = p /\ \A i \in 1..p : c[i] = IF i <= p - 1 THEN a[i] ELSE e
  <2>1. /\ c \in Seq(S) /\ Len(c) = Len(a) + 1
        /\ \A i \in 1..(Len(a) + 1) : c[i] = IF i <= Len(a) THEN a[i] ELSE <<e>>[i - Len(a)]
    BY <1>2, <1>4, ConcatProperties
  <2>2. \A i \in 1..p : i <= p - 1 \/ i - (p - 1) = 1
    BY <1>1
  <2> HIDE DEF c
  <2> QED
    BY <2>1, <2>2, <1>1, <1>2, <1>4
<1> HIDE DEF c
<1>6. /\ w \in Seq(S) /\ Len(w) = Len(c) + Len(b)
      /\ \A i \in 1..(Len(c) + Len(b)) : w[i] = IF i <= Len(c) THEN c[i] ELSE b[i - Len(c)]
  BY <1>3, <1>5, ConcatProperties
<1> HIDE DEF w
<1>7. Len(w) = N + 1
  BY <1>1, <1>3, <1>5, <1>6
<1>8. ASSUME NEW i \in 1..(N + 1)
      PROVE  w[i] = IF i < p THEN v[i] ELSE IF i = p THEN e ELSE v[i - 1]
  <2>1. w[i] = IF i <= p THEN c[i] ELSE b[i - p]
    BY <1>1, <1>3, <1>5, <1>6
  <2>2. CASE i < p
    <3>1. i \in 1..p /\ i <= p - 1 /\ i \in 1..(p - 1)
      BY <2>2, <1>1
    <3> QED
      BY <2>1, <2>2, <3>1, <1>2, <1>5
  <2>3. CASE i = p
    <3>1. i \in 1..p /\ ~(i <= p - 1)
      BY <2>3, <1>1
    <3> QED
      BY <2>1, <2>3, <3>1, <1>5
  <2>4. CASE i > p
    <3>1. i - p \in 1..(N + 1 - p) /\ p + (i - p) - 1 = i - 1
      BY <2>4, <1>1
    <3> QED
      BY <2>1, <2>4, <3>1, <1>3
  <2> QED
    BY <2>2, <2>3, <2>4, <1>1
<1> QED
  BY <1>6, <1>7, <1>8 DEF InsertAt, w, c, a, b, N

LEMMA RemoveAtFacts ==
    ASSUME NEW S, NEW v \in Seq(S), NEW p \in 1..Len(v)
    PROVE  LET w == RemoveAt(v, p)
           IN  /\ w \in Seq(S) /\ Len(w) = Len(v) - 1
               /\ \A i \in 1..(Len(v) - 1) : w[i] = IF i < p THEN v[i] ELSE v[i + 1]
<1> DEFINE N == Len(v)
           a == SubSeq(v, 1, p - 1)
           b == SubSeq(v, p + 1, N)
           w == a \o b
<1>1. N \in Nat /\ \A i \in 1..N : v[i] \in S
  BY LenProperties, ElementOfSeq
<1>2. a \in Seq(S) /\ Len(a) = p - 1 /\ \A i \in 1..(p - 1) : a[i] = v[i]
  <2>1. \A i \in 1..(p - 1) : v[i] \in S
    BY <1>1
  <2>2. /\ a \in Seq(S) /\ Len(a) = IF 1 <= p - 1 THEN p - 1 - 1 + 1 ELSE 0
        /\ \A i \in 1..(p - 1 - 1 + 1) : a[i] = v[1 + i - 1]
    BY <1>1, <2>1, SubSeqProperties
  <2> HIDE DEF a
  <2> QED
    BY <1>1, <2>2
<1>3. b \in Seq(S) /\ Len(b) = N - p /\ \A i \in 1..(N - p) : b[i] = v[p + i]
  <2>1. \A i \in (p + 1)..N : v[i] \in S
    BY <1>1
  <2>2. /\ b \in Seq(S) /\ Len(b) = IF p + 1 <= N THEN N - (p + 1) + 1 ELSE 0
        /\ \A i \in 1..(N - (p + 1) + 1) : b[i] = v[p + 1 + i - 1]
    BY <1>1, <2>1, SubSeqProperties
  <2> HIDE DEF b
  <2> QED
    BY <1>1, <2>2
<1> HIDE DEF a, b
<1>4. /\ w \in Seq(S) /\ Len(w) = Len(a) + Len(b)
      /\ \A i \in 1..(Len(a) + Len(b)) : w[i] = IF i <= Len(a) THEN a[i] ELSE b[i - Len(a)]
  BY <1>2, <1>3, ConcatProperties
<1> HIDE DEF w
<1>5. Len(w) = N - 1
  BY <1>1, <1>2, <1>3, <1>4
<1>6. ASSUME NEW i \in 1..(N - 1) PROVE w[i] = IF i < p THEN v[i] ELSE v[i + 1]
  <2>1. w[i] = IF i <= p - 1 THEN a[i] ELSE b[i - (p - 1)]
    BY <1>1, <1>2, <1>3, <1>4
  <2>2. CASE i < p
    <3>1. i <= p - 1 /\ i \in 1..(p - 1)
      BY <2>2, <1>1
    <3> QED
      BY <2>1, <2>2, <3>1, <1>2
  <2>3. CASE i >= p
    <3>1. i - (p - 1) \in 1..(N - p) /\ p + (i - (p - 1)) = i + 1
      BY <2>3, <1>1
    <3> QED
      BY <2>1, <2>3, <3>1, <1>3
  <2> QED
    BY <2>2, <2>3, <1>1
<1> QED
  BY <1>4, <1>5, <1>6 DEF RemoveAt, w, a, b, N

(* The rows when one is replaced or added, and when one is taken away. *)
WithRow(rows, row) == {r \in rows : r.id # row.id} \cup {row}
WithoutId(rows, id) == {r \in rows : r.id # id}

LEMMA IdedPart ==
    ASSUME NEW rows, Ided(rows), NEW S \in SUBSET rows
    PROVE  Ided(S)
BY FS_Subset DEF Ided

LEMMA IdedWith ==
    ASSUME NEW rows, Ided(rows), NEW row, row.id \in Nat
    PROVE  Ided(WithRow(rows, row))
<1>1. Ided({r \in rows : r.id # row.id})
  BY IdedPart
<1>2. IsFiniteSet(WithRow(rows, row))
  BY <1>1, FS_AddElement DEF Ided, WithRow
<1> QED
  BY <1>2 DEF Ided, WithRow

(* Has finds the rows of a list. *)
LEMMA HasRow ==
    ASSUME NEW rows, Ided(rows), NEW v, Lists(v, rows), NEW id
    PROVE  /\ Has(v, id) <=> \E r \in rows : r.id = id
           /\ \A r \in rows : r.id = id => /\ Position(v, id) \in 1..Len(v)
                                         /\ v[Position(v, id)] = r
<1>1. v \in Seq(rows) /\ ToSet(v) = rows /\ DOMAIN v = 1..Len(v)
  BY LenProperties DEF Lists
<1>2. \A r \in rows : \E k \in 1..Len(v) : v[k] = r
  BY <1>1 DEF ToSet
<1>3. \A k \in 1..Len(v) : v[k] \in rows
  BY <1>1, ElementOfSeq
<1>4. Has(v, id) <=> \E r \in rows : r.id = id
  BY <1>1, <1>2, <1>3 DEF Has
<1>5. ASSUME NEW r \in rows, r.id = id
      PROVE  Position(v, id) \in 1..Len(v) /\ v[Position(v, id)] = r
  <2>1. PICK k \in 1..Len(v) : v[k] = r
    BY <1>2
  <2>2. Position(v, v[k].id) = k
    BY PlaceOf
  <2> QED
    BY <2>1, <2>2, <1>5
<1> QED
  BY <1>4, <1>5

LEMMA UpsertLists ==
    ASSUME NEW rows, Ided(rows), NEW v, Lists(v, rows), NEW row, row.id \in Nat
    PROVE  Lists(Upsert(v, row), WithRow(rows, row))
<1> DEFINE N == Len(v)
           new == WithRow(rows, row)
           all == rows \cup {row}
           p == Position(v, row.id)
<1>1. /\ v \in Seq(rows) /\ ToSet(v) = rows /\ N \in Nat /\ DOMAIN v = 1..N
      /\ \A i, j \in 1..N : i < j => v[i].id < v[j].id
  BY LenProperties DEF Lists, Increasing
<1>2. \A i \in 1..N : v[i] \in rows /\ v[i].id \in Nat
  BY <1>1, ElementOfSeq DEF Ided
<1>3. \A r \in rows : \E i \in 1..N : r = v[i]
  BY <1>1 DEF ToSet
<1>4. v \in Seq(all) /\ row \in all
  <2>1. rows \subseteq all
    OBVIOUS
  <2> QED
    BY <2>1, <1>1, SeqMonotonic
<1>5. CASE Has(v, row.id)
  <2> DEFINE w == [v EXCEPT ![p] = row]
  <2>1. PICK r \in rows : r.id = row.id
    BY <1>5, HasRow
  <2>2. p \in 1..N /\ v[p] = r
    BY <2>1, HasRow
  <2>3. Upsert(v, row) = w
    BY <1>5 DEF Upsert
  <2> HIDE DEF p
  <2>4. /\ w \in Seq(all) /\ Len(w) = N
        /\ \A j \in 1..N : w[j] = IF j = p THEN row ELSE v[j]
    BY <2>2, <1>4, ExceptSeq
  <2> HIDE DEF w, N
  <2>5. \A j \in 1..N : j # p => v[j].id # row.id
    <3> SUFFICES ASSUME NEW j \in 1..N, v[j].id = row.id PROVE j = p
      OBVIOUS
    <3>1. \A a, b \in 1..N : v[a].id = v[b].id => a = b
      BY ListDistinct DEF N
    <3> QED
      BY <3>1, <2>1, <2>2
  <2>6. \A j \in 1..N : w[j] \in new /\ w[j].id = v[j].id
    BY <2>1, <2>2, <2>4, <2>5, <1>2 DEF WithRow
  <2>7. w \in Seq(new)
    BY <2>4, <2>6, SeqOfPart
  <2>8. ASSUME NEW x \in new PROVE x \in ToSet(w)
    <3>0. DOMAIN w = 1..N
      BY <2>4, LenProperties
    <3>1. CASE x = row
      BY <3>0, <3>1, <2>2, <2>4 DEF ToSet
    <3>2. CASE x \in rows /\ x.id # row.id
      <4>1. PICK i \in 1..N : x = v[i]
        BY <3>2, <1>3
      <4>2. i # p
        BY <4>1, <3>2, <2>1, <2>2
      <4> QED
        BY <3>0, <4>1, <4>2, <2>4 DEF ToSet
    <3> QED
      BY <3>1, <3>2 DEF WithRow
  <2>9. ToSet(w) = new
    <3>1. DOMAIN w = 1..N
      BY <2>4, LenProperties
    <3> HIDE DEF new
    <3> QED
      BY <3>1, <2>6, <2>8 DEF ToSet
  <2>10. Increasing(w)
    BY <2>4, <2>6, <1>1 DEF Increasing
  <2> QED
    BY <2>3, <2>7, <2>9, <2>10 DEF Lists
<1>6. CASE ~Has(v, row.id)
  <2> DEFINE w == InsertAt(v, p, row)
  <2>1. /\ p \in 1..(N + 1)
        /\ \A i \in 1..N : (i < p => v[i].id < row.id) /\ (p <= i => row.id < v[i].id)
    BY <1>6, PlaceFor
  <2>2. Upsert(v, row) = w
    BY <1>6 DEF Upsert
  <2> HIDE DEF p
  <2>3. /\ w \in Seq(all) /\ Len(w) = N + 1
        /\ \A i \in 1..(N + 1) : w[i] = IF i < p THEN v[i] ELSE IF i = p THEN row ELSE v[i - 1]
    BY <2>1, <1>4, InsertAtFacts
  <2> HIDE DEF w, N
  <2>4. \A r \in rows : r.id # row.id
    BY <1>6, HasRow
  <2>5. \A i \in 1..(N + 1) : w[i] \in new
    <3> SUFFICES ASSUME NEW i \in 1..(N + 1) PROVE w[i] \in new
      OBVIOUS
    <3>1. CASE i < p
      <4>1. i \in 1..N
        BY <3>1, <2>1, <1>1
      <4> QED
        BY <3>1, <4>1, <2>3, <2>4, <1>2 DEF WithRow
    <3>2. CASE i = p
      BY <3>2, <2>3 DEF WithRow
    <3>3. CASE i > p
      <4>1. i - 1 \in 1..N /\ ~(i < p) /\ i # p
        BY <3>3, <2>1, <1>1
      <4> QED
        BY <3>3, <4>1, <2>3, <2>4, <1>2 DEF WithRow
    <3> QED
      BY <3>1, <3>2, <3>3, <2>1, <1>1
  <2>6. w \in Seq(new) /\ DOMAIN w = 1..(N + 1)
    BY <2>3, <2>5, SeqOfPart, LenProperties
  <2>7. ASSUME NEW x \in new PROVE x \in ToSet(w)
    <3>1. CASE x = row
      <4>1. w[p] = row
        BY <2>1, <2>3, <1>1
      <4> QED
        BY <3>1, <4>1, <2>1, <2>6 DEF ToSet
    <3>2. CASE x \in rows
      <4>1. PICK i \in 1..N : x = v[i]
        BY <3>2, <1>3
      <4>2. CASE i < p
        <5>1. i \in 1..(N + 1) /\ w[i] = v[i]
          BY <4>2, <2>3, <1>1
        <5> QED
          BY <5>1, <4>1, <2>6 DEF ToSet
      <4>3. CASE i >= p
        <5>1. /\ i + 1 \in 1..(N + 1) /\ ~(i + 1 < p) /\ i + 1 # p
              /\ (i + 1) - 1 = i
          BY <4>3, <2>1, <1>1
        <5>2. w[i + 1] = v[i]
          BY <5>1, <2>3
        <5> QED
          BY <5>1, <5>2, <4>1, <2>6 DEF ToSet
      <4> QED
        BY <4>2, <4>3, <2>1, <1>1
    <3> QED
      BY <3>1, <3>2 DEF WithRow
  <2>8. ToSet(w) = new
    <3> HIDE DEF new
    <3> QED
      BY <2>5, <2>6, <2>7 DEF ToSet
  <2>9. ASSUME NEW i \in 1..(N + 1), NEW j \in 1..(N + 1), i < j
        PROVE  w[i].id < w[j].id
    <3>1. i \in Int /\ j \in Int /\ p \in Int /\ N \in Int
      BY <2>1, <1>1
    <3>2. CASE j < p
      <4>1. i < p /\ i \in 1..N /\ j \in 1..N
        BY <3>1, <3>2, <2>1, <2>9
      <4> QED
        BY <3>2, <4>1, <2>3, <2>9, <1>1
    <3>3. CASE j = p
      <4>1. i < p /\ i \in 1..N
        BY <3>1, <3>3, <2>1, <2>9
      <4>2. w[i] = v[i] /\ w[j] = row
        BY <3>1, <3>3, <4>1, <2>3
      <4> QED
        BY <4>1, <4>2, <2>1
    <3>4. CASE j > p
      <4>1. j - 1 \in 1..N /\ p <= j - 1
        BY <3>1, <3>4, <2>1
      <4>2. w[j] = v[j - 1]
        BY <3>1, <3>4, <2>3
      <4>3. row.id < v[j - 1].id
        BY <4>1, <2>1
      <4>4. CASE i < p
        <5>1. i \in 1..N /\ w[i] = v[i]
          BY <3>1, <4>4, <2>1, <2>3
        <5>2. v[i].id < row.id
          BY <5>1, <4>4, <2>1
        <5> QED
          BY <5>1, <5>2, <4>1, <4>2, <4>3, <1>2
      <4>5. CASE i = p
        <5>1. w[i] = row
          BY <3>1, <4>5, <2>3
        <5> QED
          BY <5>1, <4>2, <4>3
      <4>6. CASE i > p
        <5>1. i - 1 \in 1..N /\ i - 1 < j - 1
          BY <3>1, <4>6, <2>1, <2>9
        <5>2. w[i] = v[i - 1]
          BY <3>1, <4>6, <2>3
        <5> QED
          BY <5>1, <5>2, <4>1, <4>2, <1>1
      <4> QED
        BY <3>1, <4>4, <4>5, <4>6
    <3> QED
      BY <3>1, <3>2, <3>3, <3>4
  <2>10. Increasing(w)
    BY <2>3, <2>9 DEF Increasing
  <2> QED
    BY <2>2, <2>6, <2>8, <2>10 DEF Lists
<1> QED
  BY <1>5, <1>6

LEMMA DeleteLists ==
    ASSUME NEW rows, Ided(rows), NEW v, Lists(v, rows), NEW id
    PROVE  Lists(Delete(v, id), WithoutId(rows, id))
<1> DEFINE N == Len(v)
           new == WithoutId(rows, id)
           p == Position(v, id)
<1>1. /\ v \in Seq(rows) /\ ToSet(v) = rows /\ N \in Nat /\ DOMAIN v = 1..N
      /\ \A i, j \in 1..N : i < j => v[i].id < v[j].id
  BY LenProperties DEF Lists, Increasing
<1>2. \A i \in 1..N : v[i] \in rows /\ v[i].id \in Nat
  BY <1>1, ElementOfSeq DEF Ided
<1>3. \A r \in rows : \E i \in 1..N : r = v[i]
  BY <1>1 DEF ToSet
<1>4. CASE ~Has(v, id)
  <2>1. \A r \in rows : r.id # id
    BY <1>4, HasRow
  <2>2. new = rows /\ Delete(v, id) = v
    BY <1>4, <2>1 DEF WithoutId, Delete
  <2> QED
    BY <2>2
<1>5. CASE Has(v, id)
  <2> DEFINE w == RemoveAt(v, p)
  <2>1. PICK r \in rows : r.id = id
    BY <1>5, HasRow
  <2>2. p \in 1..N /\ v[p] = r
    BY <2>1, HasRow
  <2>3. Delete(v, id) = w
    BY <1>5 DEF Delete
  <2> HIDE DEF p
  <2>4. /\ w \in Seq(rows) /\ Len(w) = N - 1
        /\ \A i \in 1..(N - 1) : w[i] = IF i < p THEN v[i] ELSE v[i + 1]
    BY <2>2, <1>1, RemoveAtFacts
  <2> HIDE DEF w, N
  <2>5. \A j \in 1..N : j # p => v[j].id # id
    <3> SUFFICES ASSUME NEW j \in 1..N, v[j].id = id PROVE j = p
      OBVIOUS
    <3>1. \A a, b \in 1..N : v[a].id = v[b].id => a = b
      BY ListDistinct DEF N
    <3> QED
      BY <3>1, <2>1, <2>2
  <2> DEFINE from(i) == IF i < p THEN i ELSE i + 1
  <2>6. \A i \in 1..(N - 1) : from(i) \in 1..N /\ from(i) # p /\ w[i] = v[from(i)]
    BY <2>2, <2>4, <1>1
  <2>7. \A i \in 1..(N - 1) : w[i] \in new
    BY <2>5, <2>6, <1>2 DEF WithoutId
  <2>8. w \in Seq(new) /\ DOMAIN w = 1..(N - 1)
    BY <2>4, <2>7, SeqOfPart, LenProperties
  <2>9. ASSUME NEW x \in new PROVE x \in ToSet(w)
    <3>1. PICK i \in 1..N : x = v[i]
      BY <1>3 DEF WithoutId
    <3>2. i # p
      BY <3>1, <2>1, <2>2 DEF WithoutId
    <3>3. CASE i < p
      <4>1. i \in 1..(N - 1) /\ w[i] = v[i]
        BY <3>3, <2>2, <2>4, <1>1
      <4> QED
        BY <4>1, <3>1, <2>8 DEF ToSet
    <3>4. CASE i > p
      <4>1. i - 1 \in 1..(N - 1) /\ ~(i - 1 < p) /\ (i - 1) + 1 = i
        BY <3>4, <2>2, <1>1
      <4>2. w[i - 1] = v[i]
        BY <4>1, <2>4
      <4> QED
        BY <4>1, <4>2, <3>1, <2>8 DEF ToSet
    <3> QED
      BY <3>2, <3>3, <3>4, <2>2, <1>1
  <2>10. ToSet(w) = new
    <3> HIDE DEF new
    <3> QED
      BY <2>7, <2>8, <2>9 DEF ToSet
  <2>11. Increasing(w)
    <3> SUFFICES ASSUME NEW i \in 1..(N - 1), NEW j \in 1..(N - 1), i < j
                 PROVE  w[i].id < w[j].id
      BY <2>4 DEF Increasing
    <3>1. from(i) \in 1..N /\ from(j) \in 1..N /\ from(i) < from(j)
      BY <2>2, <1>1
    <3> HIDE DEF from
    <3> QED
      BY <3>1, <2>6, <1>1
  <2> QED
    BY <2>3, <2>8, <2>10, <2>11 DEF Lists
<1> QED
  BY <1>4, <1>5

(* OneByOne takes one step after the other. *)
LEMMA OneByOneDef ==
    ASSUME NEW vec, NEW updates, NEW removed, Len(updates) + Len(removed) \in Nat
    PROVE  OneByOne(vec, updates, removed) =
             [n \in 0..(Len(updates) + Len(removed)) |-> IF n = 0 THEN vec
                                ELSE IF n <= Len(updates) THEN Upsert(OneByOne(vec, updates, removed)[n - 1], updates[n])
                                     ELSE Delete(OneByOne(vec, updates, removed)[n - 1], removed[n - Len(updates)])]
<1> DEFINE Step(x, n) == IF n <= Len(updates) THEN Upsert(x, updates[n])
                                     ELSE Delete(x, removed[n - Len(updates)])
           Eqn(g, k) == g = [n \in 0..k |-> IF n = 0 THEN vec ELSE Step(g[n - 1], n)]
           P == {k \in Nat : \E g : Eqn(g, k)}
<1> HIDE DEF Step
<1>1. 0 \in P
  <2>1. Eqn([n \in 0..0 |-> vec], 0)
    OBVIOUS
  <2> QED
    BY <2>1
<1>2. ASSUME NEW k \in P PROVE k + 1 \in P
  <2>1. PICK g : Eqn(g, k)
    OBVIOUS
  <2> DEFINE h == [n \in 0..(k + 1) |-> IF n = k + 1 THEN Step(g[k], k + 1) ELSE g[n]]
  <2>2. Eqn(h, k + 1)
    <3> DEFINE r == [n \in 0..(k + 1) |-> IF n = 0 THEN vec ELSE Step(h[n - 1], n)]
    <3>1. ASSUME NEW n \in 0..(k + 1) PROVE h[n] = r[n]
      <4>1. CASE n = k + 1
        BY <4>1
      <4>2. CASE n = 0
        BY <4>2, <2>1
      <4>3. CASE n \in 1..k
        <5>1. h[n] = g[n] /\ h[n - 1] = g[n - 1]
          BY <4>3
        <5>2. g[n] = Step(g[n - 1], n)
          BY <2>1, <4>3
        <5> QED
          BY <5>1, <5>2, <4>3
      <4> QED
        BY <4>1, <4>2, <4>3
    <3> QED
      BY <3>1
  <2>3. k + 1 \in Nat
    OBVIOUS
  <2> HIDE DEF h, Eqn
  <2> QED
    BY <2>2, <2>3
<1>3. P = Nat
  <2> HIDE DEF P
  <2> QED
    BY <1>1, <1>2, SetInduction DEF P
<1>4. \E g : Eqn(g, Len(updates) + Len(removed))
  BY <1>3
<1> QED
  BY <1>4 DEF OneByOne, Step

(* The rows that the first n updates leave, and the first n removals. *)
LatestOf(updates, n) ==
    {updates[j] : j \in {i \in 1..n : \A k \in (i + 1)..n : updates[k].id # updates[i].id}}
UpdatedBy(rows, updates, n) ==
    LatestOf(updates, n) \cup {r \in rows : \A j \in 1..n : updates[j].id # r.id}
RemovedBy(rows, removed, n) == {r \in rows : \A k \in 1..n : removed[k] # r.id}

LEMMA UpdatedStep ==
    ASSUME NEW rows, NEW updates, NEW n \in Nat
    PROVE  /\ UpdatedBy(rows, updates, 0) = rows
           /\ UpdatedBy(rows, updates, n + 1)
                = WithRow(UpdatedBy(rows, updates, n), updates[n + 1])
<1>1. UpdatedBy(rows, updates, 0) = rows
  BY DEF UpdatedBy, LatestOf
<1> DEFINE row == updates[n + 1]
<1>2. /\ n + 1 \in 1..(n + 1) /\ (n + 1 + 1)..(n + 1) = {}
      /\ \A i \in 1..(n + 1) : i \in 1..n \/ i = n + 1
      /\ \A i \in 1..n : i \in 1..(n + 1) /\ n + 1 \in (i + 1)..(n + 1)
      /\ \A i \in 1..n : \A k \in (i + 1)..n : k \in (i + 1)..(n + 1)
      /\ \A i \in 1..n : \A k \in (i + 1)..(n + 1) : k \in (i + 1)..n \/ k = n + 1
  OBVIOUS
<1>3. ASSUME NEW x \in LatestOf(updates, n + 1)
      PROVE  x = row \/ (x \in LatestOf(updates, n) /\ x.id # row.id)
  <2>1. PICK i \in 1..(n + 1) : /\ x = updates[i]
                                /\ \A k \in (i + 1)..(n + 1) : updates[k].id # updates[i].id
    BY DEF LatestOf
  <2>2. CASE i = n + 1
    BY <2>1, <2>2
  <2>3. CASE i \in 1..n
    <3>1. x.id # row.id
      BY <2>1, <2>3, <1>2
    <3>2. \A k \in (i + 1)..n : updates[k].id # updates[i].id
      BY <2>1, <2>3, <1>2
    <3> QED
      BY <3>1, <3>2, <2>1, <2>3 DEF LatestOf
  <2> QED
    BY <2>2, <2>3, <1>2
<1>4. row \in LatestOf(updates, n + 1)
  BY <1>2 DEF LatestOf
<1>5. ASSUME NEW x \in LatestOf(updates, n), x.id # row.id PROVE x \in LatestOf(updates, n + 1)
  <2>1. PICK i \in 1..n : /\ x = updates[i]
                          /\ \A k \in (i + 1)..n : updates[k].id # updates[i].id
    BY DEF LatestOf
  <2>2. \A k \in (i + 1)..(n + 1) : updates[k].id # updates[i].id
    BY <2>1, <1>2, <1>5
  <2> QED
    BY <2>1, <2>2, <1>2 DEF LatestOf
<1>6. \A r : (\A j \in 1..(n + 1) : updates[j].id # r.id)
                <=> (row.id # r.id /\ \A j \in 1..n : updates[j].id # r.id)
  BY <1>2
<1> HIDE DEF row
<1>7. UpdatedBy(rows, updates, n + 1) = WithRow(UpdatedBy(rows, updates, n), row)
  BY <1>3, <1>4, <1>5, <1>6 DEF UpdatedBy, WithRow
<1> QED
  BY <1>1, <1>7 DEF row

LEMMA RemovedStep ==
    ASSUME NEW rows, NEW removed, NEW n \in Nat
    PROVE  /\ RemovedBy(rows, removed, 0) = rows
           /\ RemovedBy(rows, removed, n + 1)
                = WithoutId(RemovedBy(rows, removed, n), removed[n + 1])
<1>1. RemovedBy(rows, removed, 0) = rows
  BY DEF RemovedBy
<1>2. /\ n + 1 \in 1..(n + 1) /\ \A i \in 1..(n + 1) : i \in 1..n \/ i = n + 1
      /\ \A i \in 1..n : i \in 1..(n + 1)
  OBVIOUS
<1>3. \A r : (\A k \in 1..(n + 1) : removed[k] # r.id)
                <=> (r.id # removed[n + 1] /\ \A k \in 1..n : removed[k] # r.id)
  BY <1>2
<1>4. RemovedBy(rows, removed, n + 1) = WithoutId(RemovedBy(rows, removed, n), removed[n + 1])
  BY <1>3 DEF RemovedBy, WithoutId
<1> QED
  BY <1>1, <1>4

(* The fields of a row. *)
LEMMA RowFacts ==
    ASSUME NEW r \in Row
    PROVE  r.id \in Ids /\ r.id \in Nat /\ r # NoUser /\ r.key \in Keys
           /\ r.kind \in {"plain", "limited", "off"} /\ r = [id |-> r.id, key |-> r.key, kind |-> r.kind]
BY DeltaConstants, NoUserIsNoRow DEF Row, Keys

LEMMA OneByOneLists ==
    ASSUME NEW rows, Ided(rows), NEW v, Lists(v, rows),
           NEW updates \in Seq(Row), NEW removed \in Seq(Ids)
    PROVE  LET all == RemovedBy(UpdatedBy(rows, updates, Len(updates)), removed, Len(removed))
           IN  /\ Ided(all)
               /\ Lists(OneByOne(v, updates, removed)[Len(updates) + Len(removed)], all)
               /\ ~InPlaceChanged(v, updates, removed) =>
                    OneByOne(v, updates, removed)[Len(updates) + Len(removed)] = v
<1> DEFINE U == Len(updates)
           D == Len(removed)
           a == OneByOne(v, updates, removed)
           mid == UpdatedBy(rows, updates, U)
<1>1. U \in Nat /\ D \in Nat /\ \A n \in 1..U : updates[n] \in Row
  BY LenProperties, ElementOfSeq
<1>2. a = [n \in 0..(U + D) |-> IF n = 0 THEN v
                                ELSE IF n <= U THEN Upsert(a[n - 1], updates[n])
                                     ELSE Delete(a[n - 1], removed[n - U])]
  <2>1. U + D \in Nat
    BY <1>1
  <2> QED
    BY <2>1, OneByOneDef
<1> HIDE DEF a, U, D
<1>3. /\ a[0] = v
      /\ \A n \in 0..(U - 1) : a[n + 1] = Upsert(a[n], updates[n + 1])
      /\ \A n \in 0..(D - 1) : a[U + n + 1] = Delete(a[U + n], removed[n + 1])
  <2>1. 0 \in 0..(U + D)
    BY <1>1
  <2>2. ASSUME NEW n \in 0..(U - 1) PROVE a[n + 1] = Upsert(a[n], updates[n + 1])
    <3>1. n + 1 \in 0..(U + D) /\ n + 1 # 0 /\ n + 1 <= U /\ (n + 1) - 1 = n
      BY <1>1
    <3> QED
      BY <3>1, <1>2
  <2>3. ASSUME NEW n \in 0..(D - 1) PROVE a[U + n + 1] = Delete(a[U + n], removed[n + 1])
    <3>1. /\ U + n + 1 \in 0..(U + D) /\ U + n + 1 # 0 /\ ~(U + n + 1 <= U)
          /\ (U + n + 1) - 1 = U + n /\ (U + n + 1) - U = n + 1
      BY <1>1
    <3> QED
      BY <3>1, <1>2
  <2> QED
    BY <1>2, <2>1, <2>2, <2>3
<1> DEFINE Up(n) == /\ Ided(UpdatedBy(rows, updates, n))
                    /\ Lists(a[n], UpdatedBy(rows, updates, n))
           P == {n \in Nat : n <= U => Up(n)}
<1>4. P = Nat
  <2>1. 0 \in P
    BY <1>3, UpdatedStep
  <2>2. ASSUME NEW n \in P PROVE n + 1 \in P
    <3> SUFFICES ASSUME n + 1 <= U PROVE Up(n + 1)
      OBVIOUS
    <3>1. n \in Nat /\ n <= U /\ n \in 0..(U - 1) /\ n + 1 \in 1..U
      BY <1>1
    <3>2. Ided(UpdatedBy(rows, updates, n)) /\ Lists(a[n], UpdatedBy(rows, updates, n))
      BY <3>1
    <3>3. UpdatedBy(rows, updates, n + 1) = WithRow(UpdatedBy(rows, updates, n), updates[n + 1])
      BY <3>1, UpdatedStep
    <3>4. updates[n + 1].id \in Nat
      BY <3>1, <1>1, RowFacts
    <3>5. a[n + 1] = Upsert(a[n], updates[n + 1])
      BY <3>1, <1>3
    <3> QED
      BY <3>2, <3>3, <3>4, <3>5, IdedWith, UpsertLists
  <2>3. P \in SUBSET Nat
    OBVIOUS
  <2> HIDE DEF P
  <2> QED
    BY <2>1, <2>2, <2>3, SetInduction
<1>5. Ided(mid) /\ Lists(a[U], mid)
  BY <1>4, <1>1
<1> HIDE DEF mid, P
<1> DEFINE Down(n) == /\ Ided(RemovedBy(mid, removed, n))
                      /\ Lists(a[U + n], RemovedBy(mid, removed, n))
           Q == {n \in Nat : n <= D => Down(n)}
<1>6. Q = Nat
  <2>1. 0 \in Q
    <3>1. U + 0 = U
      BY <1>1
    <3> QED
      BY <3>1, <1>5, RemovedStep
  <2>2. ASSUME NEW n \in Q PROVE n + 1 \in Q
    <3> SUFFICES ASSUME n + 1 <= D PROVE Down(n + 1)
      OBVIOUS
    <3>1. n \in Nat /\ n <= D /\ n \in 0..(D - 1) /\ U + (n + 1) = U + n + 1
      BY <1>1
    <3>2. Ided(RemovedBy(mid, removed, n)) /\ Lists(a[U + n], RemovedBy(mid, removed, n))
      BY <3>1
    <3>3. RemovedBy(mid, removed, n + 1) = WithoutId(RemovedBy(mid, removed, n), removed[n + 1])
      BY <3>1, RemovedStep
    <3>4. a[U + (n + 1)] = Delete(a[U + n], removed[n + 1])
      BY <3>1, <1>3
    <3>5. Lists(a[U + (n + 1)], RemovedBy(mid, removed, n + 1))
      BY <3>2, <3>3, <3>4, DeleteLists
    <3>6. RemovedBy(mid, removed, n + 1) \in SUBSET RemovedBy(mid, removed, n)
      BY <3>3 DEF WithoutId
    <3> QED
      BY <3>2, <3>5, <3>6, IdedPart
  <2>3. Q \in SUBSET Nat
    OBVIOUS
  <2> HIDE DEF Q
  <2> QED
    BY <2>1, <2>2, <2>3, SetInduction
<1>7. Ided(RemovedBy(mid, removed, D)) /\ Lists(a[U + D], RemovedBy(mid, removed, D))
  BY <1>6, <1>1
<1>8. ASSUME ~InPlaceChanged(v, updates, removed) PROVE a[U + D] = v
  <2>1. /\ \A n \in 1..U : a[n] = a[n - 1]
        /\ \A n \in 1..D : ~Has(a[U + n - 1], removed[n])
    BY <1>8 DEF InPlaceChanged, a, U, D
  <2> DEFINE R == {n \in Nat : n <= U + D => a[n] = v}
  <2>2. 0 \in R
    BY <1>3
  <2>3. ASSUME NEW n \in R PROVE n + 1 \in R
    <3> SUFFICES ASSUME n + 1 <= U + D PROVE a[n + 1] = v
      OBVIOUS
    <3>1. n \in Nat /\ a[n] = v
      BY <1>1
    <3>2. CASE n + 1 <= U
      <4>1. n + 1 \in 1..U /\ (n + 1) - 1 = n
        BY <3>1, <3>2, <1>1
      <4> QED
        BY <4>1, <3>1, <2>1
    <3>3. CASE n >= U
      <4> DEFINE m == n - U
      <4>1. /\ m \in 0..(D - 1) /\ m + 1 \in 1..D /\ U + m + 1 = n + 1
            /\ U + (m + 1) - 1 = n /\ U + m = n
        BY <3>1, <3>3, <1>1
      <4> HIDE DEF m
      <4>2. a[n + 1] = Delete(a[n], removed[m + 1]) /\ ~Has(a[n], removed[m + 1])
        BY <4>1, <2>1, <1>3
      <4> QED
        BY <4>2, <3>1 DEF Delete
    <3> QED
      BY <3>1, <3>2, <3>3, <1>1
  <2>4. R \in SUBSET Nat
    OBVIOUS
  <2>5. R = Nat
    <3> HIDE DEF R
    <3> QED
      BY <2>2, <2>3, <2>4, SetInduction
  <2>6. U + D \in Nat
    BY <1>1
  <2> QED
    BY <2>5, <2>6
<1> QED
  BY <1>7, <1>8 DEF a, U, D, mid

(* The rows of a map. *)
LEMMA RowsOfFacts ==
    ASSUME NEW m \in UserMap
    PROVE  /\ Ided(RowsOf(m)) /\ RowsOf(m) \subseteq Row
           /\ \A r \in RowsOf(m) : r.id \in Ids /\ m[r.id] = r
           /\ \A i \in Ids : m[i] # NoUser => m[i] \in RowsOf(m) /\ m[i].id = i
<1>1. /\ m \in [Ids -> Row \cup {NoUser}] /\ \A i \in Ids : m[i] # NoUser => m[i].id = i
  BY DEF UserMap
<1>2. RowsOf(m) \subseteq Row
  BY <1>1 DEF RowsOf
<1>3. \A r \in RowsOf(m) : r.id \in Ids /\ r.id \in Nat /\ m[r.id] = r
  <2> SUFFICES ASSUME NEW r \in RowsOf(m) PROVE r.id \in Ids /\ r.id \in Nat /\ m[r.id] = r
    OBVIOUS
  <2>1. PICK i \in Ids : r = m[i] /\ r # NoUser
    BY DEF RowsOf
  <2>2. r.id = i
    BY <2>1, <1>1
  <2> QED
    BY <2>1, <2>2, DeltaConstants
<1>4. \A i \in Ids : m[i] # NoUser => m[i] \in RowsOf(m) /\ m[i].id = i
  BY <1>1 DEF RowsOf
<1>5. IsFiniteSet(RowsOf(m))
  <2> DEFINE T == {m[i] : i \in Ids}
  <2>1. m \in [Ids -> T] /\ \A x \in T : \E i \in Ids : m[i] = x
    BY <1>1
  <2>2. RowsOf(m) \in SUBSET T
    BY DEF RowsOf
  <2> HIDE DEF T
  <2>3. m \in Surjection(Ids, T)
    BY <2>1 DEF Surjection
  <2>4. IsFiniteSet(T)
    BY <2>3, DeltaConstants, FS_Surjection
  <2> QED
    BY <2>2, <2>4, FS_Subset
<1>6. \A r, s \in RowsOf(m) : r.id = s.id => r = s
  BY <1>3
<1> QED
  BY <1>2, <1>3, <1>4, <1>5, <1>6 DEF Ided

(* A map is known by its rows. *)
LEMMA MapByRows ==
    ASSUME NEW m \in UserMap, NEW n \in UserMap, RowsOf(m) = RowsOf(n)
    PROVE  m = n
<1>1. m \in [Ids -> Row \cup {NoUser}] /\ n \in [Ids -> Row \cup {NoUser}]
  BY DEF UserMap
<1>2. ASSUME NEW i \in Ids PROVE m[i] = n[i]
  <2>1. m[i] # NoUser => m[i] \in RowsOf(n) /\ m[i].id = i
    BY RowsOfFacts
  <2>2. n[i] # NoUser => n[i] \in RowsOf(m) /\ n[i].id = i
    BY RowsOfFacts
  <2>3. m[i] # NoUser => n[i] = m[i]
    BY <2>1, RowsOfFacts
  <2>4. n[i] # NoUser => m[i] = n[i]
    BY <2>2, RowsOfFacts
  <2> QED
    BY <2>3, <2>4
<1> QED
  BY <1>1, <1>2

(* The last update of each id. *)
LEMMA LatestFacts ==
    ASSUME NEW updates \in Seq(Row)
    PROVE  LET latest == LatestOf(updates, Len(updates))
           IN  /\ Ided(latest) /\ latest \subseteq Row
               /\ \A i \in 1..Len(updates) : /\ LastUpdate(updates, updates[i].id) \in latest
                                              /\ LastUpdate(updates, updates[i].id).id = updates[i].id
               /\ \A u \in latest : /\ u = LastUpdate(updates, u.id)
                                     /\ \E i \in 1..Len(updates) : updates[i] = u
<1> DEFINE U == Len(updates)
           latest == LatestOf(updates, U)
<1>1. U \in Nat /\ DOMAIN updates = 1..U /\ \A n \in 1..U : updates[n] \in Row
  BY LenProperties, ElementOfSeq
<1>2. Ided(latest)
  <2>1. Ided({}) /\ Lists(<<>>, {})
    BY FS_EmptySet DEF Ided, Lists, ToSet, Increasing
  <2>2. <<>> \in Seq(Ids) /\ Len(<<>>) = 0
    BY EmptySeq
  <2>3. Ided(RemovedBy(UpdatedBy({}, updates, Len(updates)), <<>>, Len(<<>>)))
    BY <2>1, <2>2, OneByOneLists
  <2>4. RemovedBy(UpdatedBy({}, updates, U), <<>>, 0) = UpdatedBy({}, updates, U)
    BY RemovedStep
  <2>5. UpdatedBy({}, updates, U) = latest
    BY DEF UpdatedBy
  <2> QED
    BY <2>2, <2>3, <2>4, <2>5
<1>3. \A u \in latest : \E i \in 1..U : updates[i] = u
  BY DEF LatestOf
<1>4. latest \subseteq Row
  BY <1>1, <1>3
<1>5. ASSUME NEW i \in 1..U
      PROVE  LastUpdate(updates, updates[i].id) \in latest
             /\ LastUpdate(updates, updates[i].id).id = updates[i].id
  <2> DEFINE S == {j \in DOMAIN updates : updates[j].id = updates[i].id}
  <2>1. S \in SUBSET (1..U) /\ S # {}
    BY <1>1
  <2>2. PICK m \in S : \A x \in S : x <= m
    BY <2>1, <1>1, HasLargest
  <2>3. \A x \in S : x \in Int
    BY <2>1
  <2>4. ASSUME NEW y \in S, \A x \in S : y >= x PROVE y = m
    BY <2>2, <2>3, <2>4
  <2>5. \A x \in S : m >= x
    BY <2>2, <2>3
  <2>6. Max(S) = m
    <3>1. Max(S) = CHOOSE x \in S : \A y \in S : x >= y
      BY DEF Max
    <3> HIDE DEF S
    <3> QED
      BY <3>1, <2>4, <2>5
  <2>7. LastUpdate(updates, updates[i].id) = updates[m]
    BY <2>6 DEF LastUpdate
  <2>8. m \in 1..U /\ updates[m].id = updates[i].id
    BY <2>1
  <2>9. \A k \in (m + 1)..U : updates[k].id # updates[m].id
    <3> SUFFICES ASSUME NEW k \in (m + 1)..U, updates[k].id = updates[m].id PROVE FALSE
      OBVIOUS
    <3>1. k \in 1..U /\ ~(k <= m)
      BY <2>8, <1>1
    <3> QED
      BY <3>1, <2>2, <2>8, <1>1
  <2>10. updates[m] \in latest
    BY <2>8, <2>9 DEF LatestOf
  <2> QED
    BY <2>7, <2>8, <2>10
<1>6. ASSUME NEW u \in latest PROVE u = LastUpdate(updates, u.id)
  <2>1. PICK i \in 1..U : updates[i] = u
    BY <1>3
  <2>2. LastUpdate(updates, u.id) \in latest /\ LastUpdate(updates, u.id).id = u.id
    BY <2>1, <1>5
  <2> QED
    BY <2>2, <1>2 DEF Ided
<1> QED
  BY <1>2, <1>3, <1>4, <1>5, <1>6

(* The reference in terms of rows. *)
LEMMA PatchedRows ==
    ASSUME NEW m \in UserMap, NEW updates \in Seq(Row), NEW removed \in Seq(Ids)
    PROVE  /\ PatchedBy(m, updates, removed) \in UserMap
           /\ RowsOf(PatchedBy(m, updates, removed))
                = RemovedBy(UpdatedBy(RowsOf(m), updates, Len(updates)), removed, Len(removed))
<1> DEFINE U == Len(updates)
           D == Len(removed)
           new == PatchedBy(m, updates, removed)
           latest == LatestOf(updates, U)
           all == RemovedBy(UpdatedBy(RowsOf(m), updates, U), removed, D)
           gone(i) == \E k \in 1..D : removed[k] = i
           set(i) == \E j \in 1..U : updates[j].id = i
<1>1. /\ U \in Nat /\ DOMAIN updates = 1..U /\ \A n \in 1..U : updates[n] \in Row
      /\ D \in Nat /\ DOMAIN removed = 1..D
  BY LenProperties, ElementOfSeq
<1>2. \A i : i \in ToSet(removed) <=> gone(i)
  BY <1>1 DEF ToSet
<1>3. \A i : (\E j \in DOMAIN updates : updates[j].id = i) <=> set(i)
  BY <1>1
<1>4. /\ latest \subseteq Row
      /\ \A i \in 1..U : /\ LastUpdate(updates, updates[i].id) \in latest
                         /\ LastUpdate(updates, updates[i].id).id = updates[i].id
      /\ \A u \in latest : u = LastUpdate(updates, u.id) /\ \E i \in 1..U : updates[i] = u
  BY LatestFacts
<1> HIDE DEF latest
<1>5. \A i : set(i) => LastUpdate(updates, i) \in latest /\ LastUpdate(updates, i).id = i
  BY <1>4
<1>6. \A r : r \in all <=> /\ ~gone(r.id)
                           /\ r \in latest \/ (r \in RowsOf(m) /\ ~set(r.id))
  BY DEF RemovedBy, UpdatedBy, latest
<1>7. new = [i \in Ids |-> IF gone(i) THEN NoUser
                          ELSE IF set(i) THEN LastUpdate(updates, i) ELSE m[i]]
  BY <1>2, <1>3 DEF PatchedBy
<1> HIDE DEF gone, set, all
<1>8. /\ m \in [Ids -> Row \cup {NoUser}] /\ \A i \in Ids : m[i] # NoUser => m[i].id = i
  BY DEF UserMap
<1>9. new \in UserMap
  <2>1. ASSUME NEW i \in Ids
        PROVE  new[i] \in Row \cup {NoUser} /\ (new[i] # NoUser => new[i].id = i)
    BY <1>4, <1>5, <1>7, <1>8
  <2>2. new = [i \in Ids |-> new[i]]
    BY <1>7
  <2> HIDE DEF new
  <2> QED
    BY <2>1, <2>2 DEF UserMap
<1> HIDE DEF new
<1>10. ASSUME NEW r \in RowsOf(new) PROVE r \in all
  <2>1. r.id \in Ids /\ new[r.id] = r /\ r # NoUser
    BY <1>9, RowsOfFacts, NoUserIsNoRow
  <2>2. ~gone(r.id)
    BY <2>1, <1>7
  <2>3. CASE set(r.id)
    BY <2>1, <2>2, <2>3, <1>5, <1>6, <1>7
  <2>4. CASE ~set(r.id)
    <3>1. m[r.id] = r
      BY <2>1, <2>2, <2>4, <1>7
    <3>2. r \in RowsOf(m)
      BY <3>1, <2>1, RowsOfFacts
    <3> QED
      BY <3>2, <2>2, <2>4, <1>6
  <2> QED
    BY <2>3, <2>4
<1>11. ASSUME NEW r \in all PROVE r \in RowsOf(new)
  <2>1. ~gone(r.id) /\ (r \in latest \/ (r \in RowsOf(m) /\ ~set(r.id)))
    BY <1>6
  <2>2. CASE r \in latest
    <3>1. r.id \in Ids /\ r # NoUser
      BY <2>2, <1>4, RowFacts
    <3>2. set(r.id) /\ r = LastUpdate(updates, r.id)
      BY <2>2, <1>4 DEF set
    <3>3. new[r.id] = r
      BY <3>1, <3>2, <2>1, <1>7
    <3> QED
      BY <3>1, <3>3, <1>9, RowsOfFacts
  <2>3. CASE r \in RowsOf(m) /\ ~set(r.id)
    <3>1. r.id \in Ids /\ m[r.id] = r /\ r # NoUser
      BY <2>3, RowsOfFacts, NoUserIsNoRow
    <3>2. new[r.id] = r
      BY <3>1, <2>1, <2>3, <1>7
    <3> QED
      BY <3>1, <3>2, <1>9, RowsOfFacts
  <2> QED
    BY <2>1, <2>2, <2>3
<1> QED
  BY <1>9, <1>10, <1>11 DEF new, all

(* The elements of a sequence behind another one. *)
LEMMA ConcatSet ==
    ASSUME NEW S, NEW a \in Seq(S), NEW b \in Seq(S)
    PROVE  ToSet(a \o b) = ToSet(a) \cup ToSet(b)
<1> DEFINE c == a \o b
           A == Len(a)
           B == Len(b)
<1>1. A \in Nat /\ B \in Nat /\ DOMAIN a = 1..A /\ DOMAIN b = 1..B
  BY LenProperties
<1>2. /\ c \in Seq(S) /\ Len(c) = A + B
      /\ \A i \in 1..(A + B) : c[i] = IF i <= A THEN a[i] ELSE b[i - A]
  BY ConcatProperties
<1>3. DOMAIN c = 1..(A + B)
  BY <1>2, LenProperties
<1> HIDE DEF c, A, B
<1>4. ASSUME NEW x \in ToSet(c) PROVE x \in ToSet(a) \cup ToSet(b)
  <2>1. PICK i \in 1..(A + B) : x = c[i]
    BY <1>3 DEF ToSet
  <2>2. CASE i <= A
    <3>1. i \in 1..A /\ x = a[i]
      BY <2>1, <2>2, <1>1, <1>2
    <3> QED
      BY <3>1, <1>1 DEF ToSet
  <2>3. CASE ~(i <= A)
    <3>1. i - A \in 1..B /\ x = b[i - A]
      BY <2>1, <2>3, <1>1, <1>2
    <3> QED
      BY <3>1, <1>1 DEF ToSet
  <2> QED
    BY <2>2, <2>3
<1>5. ASSUME NEW x \in ToSet(a) PROVE x \in ToSet(c)
  <2>1. PICK i \in 1..A : x = a[i]
    BY <1>1 DEF ToSet
  <2>2. i \in 1..(A + B) /\ i <= A
    BY <1>1
  <2>3. x = c[i]
    BY <2>1, <2>2, <1>2
  <2> QED
    BY <2>2, <2>3, <1>3 DEF ToSet
<1>6. ASSUME NEW x \in ToSet(b) PROVE x \in ToSet(c)
  <2>1. PICK i \in 1..B : x = b[i]
    BY <1>1 DEF ToSet
  <2>2. A + i \in 1..(A + B) /\ ~(A + i <= A) /\ (A + i) - A = i
    BY <1>1
  <2>3. x = c[A + i]
    BY <2>1, <2>2, <1>2
  <2> QED
    BY <2>2, <2>3, <1>3 DEF ToSet
<1> QED
  BY <1>4, <1>5, <1>6 DEF c

(* What is kept of a list is a list. *)
LEMMA KeptLists ==
    ASSUME NEW rows, NEW v, Lists(v, rows), NEW places, NEW part,
           part = {v[n] : n \in (DOMAIN v) \cap places}
    PROVE  Lists(KeptAt(v, places), part)
<1> DEFINE k == KeptAt(v, places)
<1>1. k \in Seq(rows) /\ ToSet(k) = part /\ Increasing(k)
  BY KeptAtFacts DEF Lists
<1> HIDE DEF k
<1>2. DOMAIN k = 1..Len(k)
  BY <1>1, LenProperties
<1>3. \A i \in 1..Len(k) : k[i] \in part
  BY <1>1, <1>2 DEF ToSet
<1>4. k \in Seq(part)
  BY <1>1, <1>3, SeqOfPart
<1> QED
  BY <1>1, <1>4 DEF Lists, k

(* The batch path. *)
LEMMA BatchLists ==
    ASSUME NEW rows, Ided(rows), NEW v, Lists(v, rows),
           NEW updates \in Seq(Row), NEW removed \in Seq(Ids)
    PROVE  LET all == RemovedBy(UpdatedBy(rows, updates, Len(updates)), removed, Len(removed))
           IN  /\ Lists(Batch(v, updates, removed), all)
               /\ ~BatchChanged(v, updates, removed) => all = rows
<1> DEFINE U == Len(updates)
           D == Len(removed)
           latest == LatestOf(updates, U)
           all == RemovedBy(UpdatedBy(rows, updates, U), removed, D)
           gone == ToSet(removed)
           sorted == Deduplicated(updates)
           K == {r \in rows : r.id \notin gone /\ \A u \in latest : u.id # r.id}
           A == {u \in latest : u.id \notin gone}
           inK == {n \in DOMAIN v : v[n].id \notin gone /\ \A u \in ToSet(sorted) : u.id # v[n].id}
           inA == {n \in DOMAIN sorted : sorted[n].id \notin gone}
           kept == KeptAt(v, inK)
           added == KeptAt(sorted, inA)
<1>1. /\ U \in Nat /\ DOMAIN updates = 1..U /\ D \in Nat /\ DOMAIN removed = 1..D
      /\ v \in Seq(rows) /\ ToSet(v) = rows /\ DOMAIN v = 1..Len(v)
  BY LenProperties DEF Lists
<1>2. /\ Ided(latest) /\ latest \subseteq Row
      /\ \A i \in 1..U : /\ LastUpdate(updates, updates[i].id) \in latest
                         /\ LastUpdate(updates, updates[i].id).id = updates[i].id
      /\ \A u \in latest : u = LastUpdate(updates, u.id) /\ \E i \in 1..U : updates[i] = u
  BY LatestFacts
<1> HIDE DEF latest
<1>3. {LastUpdate(updates, updates[j].id) : j \in DOMAIN updates} = latest
  BY <1>1, <1>2
<1>4. sorted = Sorted(latest)
  BY <1>3 DEF Deduplicated
<1>5. Lists(sorted, latest) /\ ToSet(sorted) = latest
  BY <1>2, <1>4, SortedLists DEF Lists
<1> HIDE DEF sorted
<1>6. \A x : x \in gone <=> \E k \in 1..D : removed[k] = x
  BY <1>1 DEF ToSet
<1>7. \A x : (\A u \in latest : u.id # x) <=> (\A j \in 1..U : updates[j].id # x)
  BY <1>2
<1>8. all = K \cup A
  <2>1. \A r : r \in all <=> /\ ~\E k \in 1..D : removed[k] = r.id
                             /\ r \in latest \/ (r \in rows /\ \A j \in 1..U : updates[j].id # r.id)
    BY DEF RemovedBy, UpdatedBy, latest
  <2> HIDE DEF all, gone
  <2> QED
    BY <2>1, <1>6, <1>7
<1>9. Ided(all)
  BY OneByOneLists
<1> HIDE DEF all
<1>10. Lists(kept, K)
  <2>1. K = {v[n] : n \in (DOMAIN v) \cap inK}
    <3>1. ASSUME NEW r \in K PROVE r \in {v[n] : n \in (DOMAIN v) \cap inK}
      <4>1. PICK n \in DOMAIN v : v[n] = r
        BY <1>1 DEF ToSet
      <4> QED
        BY <4>1, <1>5
    <3>2. ASSUME NEW n \in (DOMAIN v) \cap inK PROVE v[n] \in K
      <4>1. v[n] \in rows
        BY <1>1 DEF ToSet
      <4> QED
        BY <4>1, <1>5
    <3> HIDE DEF K, inK
    <3> QED
      BY <3>1, <3>2
  <2> HIDE DEF K, inK
  <2> QED
    BY <2>1, KeptLists
<1>11. Lists(added, A)
  <2>1. A = {sorted[n] : n \in (DOMAIN sorted) \cap inA}
    <3>1. ASSUME NEW r \in A PROVE r \in {sorted[n] : n \in (DOMAIN sorted) \cap inA}
      <4>1. PICK n \in DOMAIN sorted : sorted[n] = r
        BY <1>5 DEF ToSet
      <4> QED
        BY <4>1
    <3>2. ASSUME NEW n \in (DOMAIN sorted) \cap inA PROVE sorted[n] \in A
      <4>1. sorted[n] \in latest
        BY <1>5 DEF ToSet
      <4> QED
        BY <4>1
    <3> HIDE DEF A, inA
    <3> QED
      BY <3>1, <3>2
  <2> HIDE DEF A, inA
  <2> QED
    BY <2>1, <1>5, KeptLists
<1>12. Batch(v, updates, removed)
         = IF added = <<>> THEN kept ELSE Sorted(ToSet(kept \o added))
  BY DEF Batch, sorted
<1> HIDE DEF kept, added, K, A
<1>13. Lists(Batch(v, updates, removed), all)
  <2>1. CASE added = <<>>
    <3>1. A = {}
      BY <2>1, <1>11 DEF Lists, ToSet
    <3> QED
      BY <2>1, <3>1, <1>8, <1>10, <1>12
  <2>2. CASE added # <<>>
    <3>1. kept \in Seq(K \cup A) /\ added \in Seq(K \cup A)
      <4>1. kept \in Seq(K) /\ added \in Seq(A) /\ K \subseteq K \cup A /\ A \subseteq K \cup A
        BY <1>10, <1>11 DEF Lists
      <4> QED
        BY <4>1, SeqMonotonic
    <3>2. ToSet(kept \o added) = ToSet(kept) \cup ToSet(added)
      BY <3>1, ConcatSet
    <3>3. ToSet(kept \o added) = all
      BY <3>2, <1>8, <1>10, <1>11 DEF Lists
    <3> QED
      BY <2>2, <3>3, <1>9, <1>12, SortedLists
  <2> QED
    BY <2>1, <2>2
<1>14. ASSUME ~BatchChanged(v, updates, removed) PROVE all = rows
  <2>1. /\ \A u \in latest : IF Has(v, u.id) THEN u.id \notin gone /\ v[Position(v, u.id)] = u
                             ELSE u.id \in gone
        /\ \A id \in gone : ~Has(v, id)
    BY <1>14, <1>5 DEF BatchChanged, sorted
  <2>2. \A r \in rows : Has(v, r.id) /\ v[Position(v, r.id)] = r
    BY HasRow
  <2>3. ASSUME NEW u \in latest, u.id \notin gone PROVE u \in rows
    <3>1. Has(v, u.id) /\ v[Position(v, u.id)] = u
      BY <2>1, <2>3
    <3>2. PICK r \in rows : r.id = u.id
      BY <3>1, HasRow
    <3> QED
      BY <3>1, <3>2, <2>2
  <2>4. ASSUME NEW r \in rows PROVE r \in K \cup A
    <3>1. r.id \notin gone
      BY <2>1, <2>2
    <3>2. CASE \A u \in latest : u.id # r.id
      BY <3>1, <3>2 DEF K
    <3>3. CASE \E u \in latest : u.id = r.id
      <4>1. PICK u \in latest : u.id = r.id
        BY <3>3
      <4>2. u \in rows
        BY <4>1, <3>1, <2>3
      <4>3. u = r
        BY <4>1, <4>2 DEF Ided
      <4> QED
        BY <4>1, <4>3, <3>1 DEF A
    <3> QED
      BY <3>2, <3>3
  <2> QED
    BY <2>3, <2>4, <1>8 DEF K, A
<1> QED
  BY <1>13, <1>14 DEF all

(* Both paths of merge_user_delta, and the replay, list the rows of the reference,
   and a delta that changes nothing is told by both. *)
LEMMA MergeLists ==
    ASSUME NEW m \in UserMap, NEW v, Lists(v, RowsOf(m)),
           NEW updates \in Seq(Row), NEW removed \in Seq(Ids)
    PROVE  LET new == PatchedBy(m, updates, removed)
           IN  /\ new \in UserMap
               /\ Lists(Merge(v, updates, removed), RowsOf(new))
               /\ Lists(ReplayJournal(v, updates, removed), RowsOf(new))
               /\ ~MergeChanged(v, updates, removed) => new = m
<1> DEFINE new == PatchedBy(m, updates, removed)
           rows == RowsOf(m)
           all == RemovedBy(UpdatedBy(rows, updates, Len(updates)), removed, Len(removed))
<1>1. Ided(rows)
  BY RowsOfFacts
<1>2. new \in UserMap /\ RowsOf(new) = all
  BY PatchedRows
<1>3. /\ Lists(ReplayJournal(v, updates, removed), all)
      /\ Lists(InPlace(v, updates, removed), all)
      /\ ~InPlaceChanged(v, updates, removed) => InPlace(v, updates, removed) = v
  BY <1>1, OneByOneLists DEF ReplayJournal, InPlace
<1>4. /\ Lists(Batch(v, updates, removed), all)
      /\ ~BatchChanged(v, updates, removed) => all = rows
  BY <1>1, BatchLists
<1>5. ~InPlaceChanged(v, updates, removed) => all = rows
  BY <1>3 DEF Lists
<1>6. all = rows => new = m
  BY <1>2, MapByRows
<1> HIDE DEF new, all
<1>7. ~MergeChanged(v, updates, removed) => new = m
  BY <1>4, <1>5, <1>6 DEF MergeChanged
<1>8. Lists(Merge(v, updates, removed), all)
  BY <1>3, <1>4 DEF Merge
<1> QED
  BY <1>2, <1>3, <1>7, <1>8 DEF new

(* The device-limited users, counted by their ids. *)
LimitedIds(m) == {i \in Ids : m[i] # NoUser /\ IsLimited(m[i])}

LEMMA LimitedCount ==
    ASSUME NEW m \in UserMap
    PROVE  /\ IsFiniteSet(LimitedIds(m))
           /\ Cardinality(LimitedIds(m)) \in 0..Cardinality(Ids)
           /\ Cardinality({r \in RowsOf(m) : IsLimited(r)}) = Cardinality(LimitedIds(m))
<1> DEFINE S == LimitedIds(m)
           T == {r \in RowsOf(m) : IsLimited(r)}
           f == [i \in S |-> m[i]]
<1>1. IsFiniteSet(S) /\ Cardinality(S) \in 0..Cardinality(Ids)
  <2>1. S \in SUBSET Ids /\ IsFiniteSet(Ids)
    BY DeltaConstants DEF LimitedIds
  <2>2. IsFiniteSet(S) /\ Cardinality(S) <= Cardinality(Ids)
    BY <2>1, FS_Subset
  <2>3. Cardinality(S) \in Nat /\ Cardinality(Ids) \in Nat
    BY <2>1, <2>2, FS_CardinalityType
  <2> QED
    BY <2>2, <2>3
<1>2. /\ \A r \in RowsOf(m) : r.id \in Ids /\ m[r.id] = r /\ r # NoUser
      /\ \A i \in Ids : m[i] # NoUser => m[i] \in RowsOf(m) /\ m[i].id = i
  BY RowsOfFacts, NoUserIsNoRow
<1>3. f \in [S -> T]
  BY <1>2 DEF LimitedIds
<1>4. \A i, j \in S : f[i] = f[j] => i = j
  BY <1>2 DEF LimitedIds
<1>5. \A r \in T : \E i \in S : f[i] = r
  <2> SUFFICES ASSUME NEW r \in T PROVE \E i \in S : f[i] = r
    OBVIOUS
  <2>1. r.id \in S /\ f[r.id] = r
    BY <1>2 DEF LimitedIds
  <2> QED
    BY <2>1
<1> HIDE DEF f, S, T
<1>6. f \in Bijection(S, T)
  BY <1>3, <1>4, <1>5 DEF Bijection, Injection, IsInjective, Surjection
<1>7. Cardinality(T) = Cardinality(S)
  BY <1>1, <1>6, FS_Bijection DEF ExistsBijection
<1> QED
  BY <1>1, <1>7 DEF S, T

(* The count after a delta. *)
LEMMA CountExact ==
    ASSUME NEW m \in UserMap, NEW v, Lists(v, RowsOf(m)),
           NEW updates \in Seq(Row), NEW removed \in Seq(Ids), NEW n,
           n = Cardinality(LimitedIds(m))
    PROVE  CountAfter(n, v, updates, removed)
             = Cardinality(LimitedIds(PatchedBy(m, updates, removed)))
<1> DEFINE U == Len(updates)
           new == PatchedBy(m, updates, removed)
           L == LimitedIds(m)
           M == LimitedIds(new)
           gone == ToSet(removed)
           touched == gone \cup {updates[j].id : j \in DOMAIN updates}
           Old(id) == Has(v, id) /\ IsLimited(v[Position(v, id)])
           New(id) == id \notin gone /\ IsLimited(LastUpdate(updates, id))
           A == {id \in touched : ~Old(id) /\ New(id)}
           B == {id \in touched : Old(id) /\ ~New(id)}
<1>1. new \in UserMap
  BY PatchedRows
<1>2. CountAfter(n, v, updates, removed) = n + Cardinality(A) - Cardinality(B)
  BY DEF CountAfter
<1>3. touched \subseteq Ids
  <2>1. \A j \in DOMAIN updates : updates[j].id \in Ids
    BY LenProperties, ElementOfSeq, RowFacts
  <2>2. \A j \in DOMAIN removed : removed[j] \in Ids
    BY LenProperties, ElementOfSeq
  <2> QED
    BY <2>1, <2>2 DEF ToSet
<1>4. \A id \in Ids : Old(id) <=> id \in L
  <2> SUFFICES ASSUME NEW id \in Ids PROVE Old(id) <=> id \in L
    OBVIOUS
  <2>1. Ided(RowsOf(m))
    BY RowsOfFacts
  <2>2. CASE m[id] # NoUser
    <3>1. m[id] \in RowsOf(m) /\ m[id].id = id
      BY <2>2, RowsOfFacts
    <3>2. Has(v, id) /\ v[Position(v, id)] = m[id]
      BY <3>1, <2>1, HasRow
    <3> QED
      BY <3>2, <2>2 DEF LimitedIds
  <2>3. CASE m[id] = NoUser
    <3>1. \A r \in RowsOf(m) : r.id # id
      BY <2>3, RowsOfFacts, NoUserIsNoRow
    <3>2. ~Has(v, id)
      BY <3>1, <2>1, HasRow
    <3> QED
      BY <3>2, <2>3 DEF LimitedIds
  <2> QED
    BY <2>2, <2>3
<1>5. /\ \A id \in touched : New(id) <=> id \in M
      /\ \A id \in Ids \ touched : new[id] = m[id]
  <2>0. DOMAIN updates = 1..U
    BY LenProperties
  <2>1. \A id \in Ids : new[id] = IF id \in gone THEN NoUser
                                 ELSE IF \E j \in DOMAIN updates : updates[j].id = id
                                      THEN LastUpdate(updates, id) ELSE m[id]
    BY DEF PatchedBy
  <2>2. \A j \in DOMAIN updates : LastUpdate(updates, updates[j].id) # NoUser
    BY <2>0, LatestFacts, NoUserIsNoRow
  <2> HIDE DEF new, gone
  <2>3. ASSUME NEW id \in touched PROVE New(id) <=> id \in M
    <3>1. id \in Ids
      BY <1>3
    <3>2. CASE id \in gone
      BY <3>1, <3>2, <2>1 DEF LimitedIds
    <3>3. CASE id \notin gone
      <4>1. PICK j \in DOMAIN updates : updates[j].id = id
        BY <3>3
      <4>2. new[id] = LastUpdate(updates, id) /\ new[id] # NoUser
        BY <4>1, <3>1, <3>3, <2>1, <2>2
      <4> QED
        BY <4>2, <3>1, <3>3 DEF LimitedIds
    <3> QED
      BY <3>2, <3>3
  <2>4. \A id \in Ids \ touched : new[id] = m[id]
    BY <2>1
  <2> QED
    BY <2>3, <2>4
<1>6. /\ IsFiniteSet(L) /\ Cardinality(L) \in 0..Cardinality(Ids)
      /\ IsFiniteSet(M) /\ Cardinality(M) \in 0..Cardinality(Ids)
  BY <1>1, LimitedCount
<1>7. L \subseteq Ids /\ M \subseteq Ids /\ \A id \in Ids \ touched : id \in L <=> id \in M
  BY <1>5 DEF LimitedIds
<1> HIDE DEF L, M, touched, Old, New, new
<1>8. A = M \ L /\ B = L \ M
  BY <1>3, <1>4, <1>5, <1>7
<1>9. /\ Cardinality(M \ L) = Cardinality(M) - Cardinality(M \cap L)
      /\ Cardinality(L \ M) = Cardinality(L) - Cardinality(L \cap M)
  BY <1>6, FS_Difference
<1>10. M \cap L = L \cap M
  OBVIOUS
<1> HIDE DEF A, B
<1>11. Cardinality(L \cap M) \in Nat /\ Cardinality(L) \in Nat /\ Cardinality(M) \in Nat
  BY <1>6, FS_Intersection, FS_CardinalityType
<1>12. Cardinality(A) = Cardinality(M) - Cardinality(L \cap M)
  BY <1>8, <1>9, <1>10
<1>13. Cardinality(B) = Cardinality(L) - Cardinality(L \cap M)
  BY <1>8, <1>9
<1>14. n = Cardinality(L)
  BY DEF L
<1>15. n + Cardinality(A) - Cardinality(B) = Cardinality(M)
  BY <1>11, <1>12, <1>13, <1>14
<1> QED
  BY <1>2, <1>15 DEF M, new

(* A live table of some rows: both indexes lead from a row back to its place. *)
GoodTable(t, rows) ==
    /\ t.keys \in Seq(rows) /\ ToSet(t.keys) = rows
    /\ DOMAIN t.byUid = {r.id : r \in rows} /\ DOMAIN t.byHash = {r.key : r \in rows}
    /\ \A n \in 1..Len(t.keys) : t.byUid[t.keys[n].id] = n /\ t.byHash[t.keys[n].key] = n

LEMMA TableGood ==
    ASSUME NEW rows, NEW v \in Seq(rows), ToSet(v) = rows,
           \A i, j \in 1..Len(v) : v[i].id = v[j].id \/ v[i].key = v[j].key => i = j
    PROVE  GoodTable(Table(v), rows)
<1> DEFINE t == Table(v)
<1>1. DOMAIN v = 1..Len(v)
  BY LenProperties
<1>2. /\ t.keys = v
      /\ t.byUid = [i \in {r.id : r \in rows} |-> CHOOSE n \in DOMAIN v : v[n].id = i]
      /\ t.byHash = [k \in {r.key : r \in rows} |-> CHOOSE n \in DOMAIN v : v[n].key = k]
  BY DEF Table
<1> HIDE DEF t
<1>3. ASSUME NEW n \in 1..Len(v) PROVE t.byUid[v[n].id] = n /\ t.byHash[v[n].key] = n
  <2>1. v[n] \in rows
    BY ElementOfSeq
  <2>2. t.byUid[v[n].id] = CHOOSE i \in DOMAIN v : v[i].id = v[n].id
    BY <2>1, <1>2
  <2>3. t.byHash[v[n].key] = CHOOSE i \in DOMAIN v : v[i].key = v[n].key
    BY <2>1, <1>2
  <2>4. (CHOOSE i \in DOMAIN v : v[i].id = v[n].id) = n
    <3>1. \A i \in DOMAIN v : v[i].id = v[n].id <=> i = n
      BY <1>1
    <3> QED
      BY <3>1, <1>1
  <2>5. (CHOOSE i \in DOMAIN v : v[i].key = v[n].key) = n
    <3>1. \A i \in DOMAIN v : v[i].key = v[n].key <=> i = n
      BY <1>1
    <3> QED
      BY <3>1, <1>1
  <2> QED
    BY <2>2, <2>3, <2>4, <2>5
<1>4. DOMAIN t.byUid = {r.id : r \in rows} /\ DOMAIN t.byHash = {r.key : r \in rows}
  BY <1>2
<1> QED
  BY <1>2, <1>3, <1>4 DEF GoodTable, t

(* In a table every row has its place, and no two rows share an id or a key. *)
LEMMA TablePlaces ==
    ASSUME NEW t, NEW rows, GoodTable(t, rows)
    PROVE  /\ t.keys \in Seq(rows) /\ Len(t.keys) \in Nat /\ DOMAIN t.keys = 1..Len(t.keys)
           /\ \A n \in 1..Len(t.keys) : t.keys[n] \in rows
           /\ \A r \in rows : /\ t.byUid[r.id] \in 1..Len(t.keys) /\ t.keys[t.byUid[r.id]] = r
                              /\ t.byHash[r.key] = t.byUid[r.id]
           /\ \A r, s \in rows : r.id = s.id \/ r.key = s.key => r = s
<1>1. /\ t.keys \in Seq(rows) /\ ToSet(t.keys) = rows
      /\ \A n \in 1..Len(t.keys) : t.byUid[t.keys[n].id] = n /\ t.byHash[t.keys[n].key] = n
  BY DEF GoodTable
<1>2. Len(t.keys) \in Nat /\ DOMAIN t.keys = 1..Len(t.keys)
  BY <1>1, LenProperties
<1>3. \A n \in 1..Len(t.keys) : t.keys[n] \in rows
  BY <1>1, ElementOfSeq
<1>4. \A r \in rows : \E n \in 1..Len(t.keys) : r = t.keys[n]
  BY <1>1, <1>2 DEF ToSet
<1>5. \A r \in rows : /\ t.byUid[r.id] \in 1..Len(t.keys) /\ t.keys[t.byUid[r.id]] = r
                     /\ t.byHash[r.key] = t.byUid[r.id]
  BY <1>1, <1>4
<1>6. \A r, s \in rows : r.id = s.id \/ r.key = s.key => r = s
  BY <1>5
<1> QED
  BY <1>1, <1>2, <1>3, <1>5, <1>6

(* swap_remove keeps a table. *)
LEMMA RemoveGood ==
    ASSUME NEW t, NEW rows, GoodTable(t, rows), NEW uid
    PROVE  GoodTable(RemoveUid(t, uid), WithoutId(rows, uid))
<1> DEFINE new == WithoutId(rows, uid)
           N == Len(t.keys)
           u == RemoveUid(t, uid)
<1>1. /\ t.keys \in Seq(rows) /\ N \in Nat /\ DOMAIN t.keys = 1..N
      /\ \A n \in 1..N : t.keys[n] \in rows
      /\ \A r \in rows : /\ t.byUid[r.id] \in 1..N /\ t.keys[t.byUid[r.id]] = r
                         /\ t.byHash[r.key] = t.byUid[r.id]
      /\ \A r, s \in rows : r.id = s.id \/ r.key = s.key => r = s
  BY TablePlaces
<1>2. /\ DOMAIN t.byUid = {r.id : r \in rows} /\ DOMAIN t.byHash = {r.key : r \in rows}
      /\ \A n \in 1..N : t.byUid[t.keys[n].id] = n /\ t.byHash[t.keys[n].key] = n
  BY DEF GoodTable
<1>3. CASE uid \notin DOMAIN t.byUid
  <2>1. u = t
    BY <1>3 DEF RemoveUid
  <2>2. new = rows
    BY <1>2, <1>3 DEF WithoutId
  <2> QED
    BY <2>1, <2>2
<1>4. CASE uid \in DOMAIN t.byUid
  <2>1. PICK gone \in rows : gone.id = uid
    BY <1>2, <1>4
  <2> DEFINE n == t.byUid[uid]
             moved == t.keys[N]
             w == IF n = N THEN SubSeq(t.keys, 1, N - 1)
                  ELSE SubSeq([t.keys EXCEPT ![n] = moved], 1, N - 1)
             uids == Less(t.byUid, uid)
             hashes == Less(t.byHash, gone.key)
  <2>2. n \in 1..N /\ t.keys[n] = gone
    BY <2>1, <1>1
  <2>3. /\ u.keys = w
        /\ u.byUid = IF n = N THEN uids ELSE PutUser(uids, moved.id, n)
        /\ u.byHash = IF n = N THEN hashes ELSE PutUser(hashes, moved.key, n)
    BY <1>4, <2>2 DEF RemoveUid
  <2> HIDE DEF n, u
  <2>4. /\ w \in Seq(rows) /\ Len(w) = N - 1
        /\ \A i \in 1..(N - 1) : w[i] = IF i = n THEN moved ELSE t.keys[i]
    <3>1. CASE n = N
      <4>1. \A i \in 1..(N - 1) : t.keys[i] \in rows
        BY <1>1
      <4> DEFINE x == SubSeq(t.keys, 1, N - 1)
      <4>2. /\ x \in Seq(rows) /\ Len(x) = IF 1 <= N - 1 THEN N - 1 - 1 + 1 ELSE 0
            /\ \A i \in 1..(N - 1 - 1 + 1) : x[i] = t.keys[1 + i - 1]
        BY <4>1, <1>1, SubSeqProperties
      <4>3. w = x
        BY <3>1
      <4> HIDE DEF x, w, N
      <4> QED
        BY <3>1, <4>2, <4>3, <2>2, <1>1
    <3>2. CASE n # N
      <4> DEFINE k == [t.keys EXCEPT ![n] = moved]
                 x == SubSeq(k, 1, N - 1)
      <4>0. moved \in rows
        BY <2>2, <1>1
      <4>1. \A i \in 1..N : k[i] = IF i = n THEN moved ELSE t.keys[i]
        BY <1>1
      <4>2. \A i \in 1..(N - 1) : k[i] \in rows
        BY <4>0, <4>1, <1>1
      <4>3. w = x
        BY <3>2
      <4> HIDE DEF k
      <4>4. /\ x \in Seq(rows) /\ Len(x) = IF 1 <= N - 1 THEN N - 1 - 1 + 1 ELSE 0
            /\ \A i \in 1..(N - 1 - 1 + 1) : x[i] = k[1 + i - 1]
        BY <4>2, <1>1, SubSeqProperties
      <4> HIDE DEF x, w, N, moved
      <4>5. Len(w) = N - 1
        BY <4>3, <4>4, <2>2, <1>1
      <4>6. ASSUME NEW i \in 1..(N - 1) PROVE w[i] = IF i = n THEN moved ELSE t.keys[i]
        <5>1. x[i] = k[i] /\ i \in 1..N
          BY <4>4, <1>1
        <5> QED
          BY <5>1, <4>1, <4>3
      <4> QED
        BY <4>3, <4>4, <4>5, <4>6
    <3> QED
      BY <3>1, <3>2
  <2> HIDE DEF w
  <2> DEFINE from(i) == IF i = n THEN N ELSE i
  <2>5. \A i \in 1..(N - 1) : from(i) \in 1..N /\ from(i) # n /\ w[i] = t.keys[from(i)]
    BY <2>2, <2>4, <1>1
  <2>6. \A i \in 1..N : t.keys[i].id = uid <=> i = n
    <3> SUFFICES ASSUME NEW i \in 1..N PROVE t.keys[i].id = uid <=> i = n
      OBVIOUS
    <3>1. t.byUid[t.keys[i].id] = i
      BY <1>2
    <3> QED
      BY <3>1, <2>1, <2>2 DEF n
  <2>7. \A i \in 1..(N - 1) : w[i] \in new
    BY <2>5, <2>6, <1>1 DEF WithoutId
  <2>8. w \in Seq(new) /\ DOMAIN w = 1..(N - 1)
    BY <2>4, <2>7, SeqOfPart, LenProperties
  <2>9. ASSUME NEW r \in new PROVE \E i \in 1..(N - 1) : w[i] = r
    <3>1. r \in rows /\ r.id # uid
      BY DEF WithoutId
    <3>2. PICK j \in 1..N : t.keys[j] = r
      BY <3>1, <1>1
    <3>3. j # n
      BY <3>1, <3>2, <2>6
    <3>4. CASE j = N
      <4>1. n \in 1..(N - 1)
        BY <3>3, <3>4, <2>2, <1>1
      <4> QED
        BY <4>1, <3>2, <3>4, <2>5
    <3>5. CASE j # N
      <4>1. j \in 1..(N - 1)
        BY <3>5, <1>1
      <4> QED
        BY <4>1, <3>2, <3>3, <2>5
    <3> QED
      BY <3>4, <3>5
  <2>10. ToSet(w) = new
    <3> HIDE DEF new
    <3> QED
      BY <2>7, <2>8, <2>9 DEF ToSet
  <2>11. DOMAIN uids = {r.id : r \in new} /\ DOMAIN hashes = {r.key : r \in new}
    <3>1. {r.id : r \in rows} \ {uid} = {r.id : r \in new}
      BY DEF WithoutId
    <3>2. {r.key : r \in rows} \ {gone.key} = {r.key : r \in new}
      <4>1. \A r \in rows : r.key = gone.key <=> r.id = uid
        BY <2>1, <1>1
      <4> QED
        BY <4>1 DEF WithoutId
    <3> QED
      BY <3>1, <3>2, <1>2 DEF Less
  <2>12. n # N => moved \in new
    <3>1. n # N => N \in 1..N
      BY <2>2, <1>1
    <3> QED
      BY <3>1, <2>6, <1>1 DEF WithoutId
  <2>13. DOMAIN u.byUid = {r.id : r \in new} /\ DOMAIN u.byHash = {r.key : r \in new}
    <3> HIDE DEF uids, hashes, new, moved
    <3> QED
      BY <2>3, <2>11, <2>12 DEF PutUser
  <2>14. ASSUME NEW i \in 1..(N - 1) PROVE u.byUid[w[i].id] = i /\ u.byHash[w[i].key] = i
    <3>1. /\ from(i) \in 1..N /\ from(i) # n /\ w[i] = t.keys[from(i)]
          /\ w[i] \in rows /\ w[i].id # uid
      BY <2>5, <2>6, <1>1
    <3>2. w[i].key # gone.key
      BY <3>1, <2>1, <1>1
    <3>3. t.byUid[w[i].id] = from(i) /\ t.byHash[w[i].key] = from(i)
      BY <3>1, <1>2
    <3>4. w[i].id \in DOMAIN uids /\ w[i].key \in DOMAIN hashes
      BY <2>7, <2>11
    <3>5. uids[w[i].id] = from(i) /\ hashes[w[i].key] = from(i)
      BY <3>3, <3>4 DEF Less
    <3>6. CASE i = n
      <4>1. n # N /\ w[i] = moved
        BY <3>6, <2>5, <1>1
      <4> HIDE DEF uids, hashes, moved
      <4>2. u.byUid[moved.id] = n /\ u.byHash[moved.key] = n
        BY <4>1, <2>3 DEF PutUser
      <4> QED
        BY <4>1, <4>2, <3>6
    <3>7. CASE i # n
      <4>1. from(i) = i
        BY <3>7
      <4>2. n # N => w[i].id # moved.id /\ w[i].key # moved.key
        <5> SUFFICES ASSUME n # N, w[i].id = moved.id \/ w[i].key = moved.key PROVE FALSE
          OBVIOUS
        <5>1. N \in 1..N /\ moved \in rows
          BY <2>2, <1>1
        <5>2. w[i] = moved
          BY <5>1, <3>1, <1>1
        <5>3. i = N
          BY <5>1, <5>2, <3>3, <4>1, <1>2
        <5> QED
          BY <5>3, <1>1
      <4> HIDE DEF uids, hashes, moved
      <4> QED
        BY <4>1, <4>2, <3>4, <3>5, <2>3 DEF PutUser
    <3> QED
      BY <3>6, <3>7
  <2> QED
    BY <2>3, <2>4, <2>8, <2>10, <2>13, <2>14 DEF GoodTable, u
<1> QED
  BY <1>3, <1>4

(* A row whose id and key are new keeps a table. *)
LEMMA InsertGood ==
    ASSUME NEW t, NEW rows, GoodTable(t, rows), NEW row,
           \A r \in rows : r.id # row.id /\ r.key # row.key
    PROVE  GoodTable(Insert(t, row), rows \cup {row})
<1> DEFINE new == rows \cup {row}
           N == Len(t.keys)
           w == Append(t.keys, row)
           u == Insert(t, row)
<1>1. t.keys \in Seq(rows) /\ N \in Nat /\ \A n \in 1..N : t.keys[n] \in rows
  BY TablePlaces
<1>2. /\ DOMAIN t.byUid = {r.id : r \in rows} /\ DOMAIN t.byHash = {r.key : r \in rows}
      /\ \A n \in 1..N : t.byUid[t.keys[n].id] = n /\ t.byHash[t.keys[n].key] = n
      /\ ToSet(t.keys) = rows
  BY DEF GoodTable
<1>3. /\ u.keys = w /\ u.byUid = PutUser(t.byUid, row.id, N + 1)
      /\ u.byHash = PutUser(t.byHash, row.key, N + 1)
  BY DEF Insert
<1>4. t.keys \in Seq(new) /\ row \in new
  <2>1. rows \subseteq new
    OBVIOUS
  <2> QED
    BY <2>1, <1>1, SeqMonotonic
<1>5. w \in Seq(new) /\ Len(w) = N + 1 /\ w[N + 1] = row /\ \A i \in 1..N : w[i] = t.keys[i]
  BY <1>1, <1>4, AppendProperties
<1>6. /\ \A i \in 1..(N + 1) : i \in 1..N \/ i = N + 1
      /\ N + 1 \in 1..(N + 1) /\ \A i \in 1..N : i \in 1..(N + 1)
  BY <1>1
<1>7. DOMAIN w = 1..(N + 1) /\ DOMAIN t.keys = 1..N
  BY <1>1, <1>5, LenProperties
<1> HIDE DEF w, u, N
<1>8. ToSet(w) = new
  <2>1. ASSUME NEW x \in new PROVE x \in ToSet(w)
    <3>1. CASE x = row
      BY <3>1, <1>5, <1>6, <1>7 DEF ToSet
    <3>2. CASE x \in rows
      <4>1. PICK i \in 1..N : x = t.keys[i]
        BY <3>2, <1>2, <1>7 DEF ToSet
      <4> QED
        BY <4>1, <1>5, <1>6, <1>7 DEF ToSet
    <3> QED
      BY <3>1, <3>2
  <2>2. ASSUME NEW x \in ToSet(w) PROVE x \in new
    BY <1>5, <1>7, ElementOfSeq DEF ToSet
  <2> QED
    BY <2>1, <2>2
<1>9. DOMAIN u.byUid = {r.id : r \in new} /\ DOMAIN u.byHash = {r.key : r \in new}
  BY <1>2, <1>3 DEF PutUser
<1>10. ASSUME NEW i \in 1..(N + 1) PROVE u.byUid[w[i].id] = i /\ u.byHash[w[i].key] = i
  <2>1. CASE i = N + 1
    BY <2>1, <1>3, <1>5 DEF PutUser
  <2>2. CASE i \in 1..N
    <3>1. /\ w[i] = t.keys[i] /\ w[i] \in rows /\ w[i].id # row.id /\ w[i].key # row.key
          /\ w[i].id \in DOMAIN t.byUid /\ w[i].key \in DOMAIN t.byHash
      BY <2>2, <1>1, <1>2, <1>5
    <3>2. t.byUid[w[i].id] = i /\ t.byHash[w[i].key] = i
      BY <2>2, <3>1, <1>2
    <3> QED
      BY <3>1, <3>2, <1>3 DEF PutUser
  <2> QED
    BY <2>1, <2>2, <1>6
<1> QED
  BY <1>3, <1>5, <1>8, <1>9, <1>10 DEF GoodTable, u

(* The table after each removal, and after each insertion. *)
RemoveSteps(table, rows) ==
    LET after[n \in 0..Len(rows)] ==
            IF n = 0 THEN table ELSE RemoveUid(after[n - 1], rows[n].id)
    IN  after

LEMMA RemoveStepsDef ==
    ASSUME NEW table, NEW rows, Len(rows) \in Nat
    PROVE  RemoveSteps(table, rows) =
             [n \in 0..Len(rows) |-> IF n = 0 THEN table
                                ELSE RemoveUid(RemoveSteps(table, rows)[n - 1], rows[n].id)]
<1> DEFINE Step(x, n) == RemoveUid(x, rows[n].id)
           Eqn(g, k) == g = [n \in 0..k |-> IF n = 0 THEN table ELSE Step(g[n - 1], n)]
           P == {k \in Nat : \E g : Eqn(g, k)}
<1> HIDE DEF Step
<1>1. 0 \in P
  <2>1. Eqn([n \in 0..0 |-> table], 0)
    OBVIOUS
  <2> QED
    BY <2>1
<1>2. ASSUME NEW k \in P PROVE k + 1 \in P
  <2>1. PICK g : Eqn(g, k)
    OBVIOUS
  <2> DEFINE h == [n \in 0..(k + 1) |-> IF n = k + 1 THEN Step(g[k], k + 1) ELSE g[n]]
  <2>2. Eqn(h, k + 1)
    <3> DEFINE r == [n \in 0..(k + 1) |-> IF n = 0 THEN table ELSE Step(h[n - 1], n)]
    <3>1. ASSUME NEW n \in 0..(k + 1) PROVE h[n] = r[n]
      <4>1. CASE n = k + 1
        BY <4>1
      <4>2. CASE n = 0
        BY <4>2, <2>1
      <4>3. CASE n \in 1..k
        <5>1. h[n] = g[n] /\ h[n - 1] = g[n - 1]
          BY <4>3
        <5>2. g[n] = Step(g[n - 1], n)
          BY <2>1, <4>3
        <5> QED
          BY <5>1, <5>2, <4>3
      <4> QED
        BY <4>1, <4>2, <4>3
    <3> QED
      BY <3>1
  <2>3. k + 1 \in Nat
    OBVIOUS
  <2> HIDE DEF h, Eqn
  <2> QED
    BY <2>2, <2>3
<1>3. P = Nat
  <2> HIDE DEF P
  <2> QED
    BY <1>1, <1>2, SetInduction DEF P
<1>4. \E g : Eqn(g, Len(rows))
  BY <1>3
<1> QED
  BY <1>4 DEF RemoveSteps, Step

InsertSteps(table, rows) ==
    LET after[n \in 0..Len(rows)] == IF n = 0 THEN table ELSE Insert(after[n - 1], rows[n])
    IN  after

LEMMA InsertStepsDef ==
    ASSUME NEW table, NEW rows, Len(rows) \in Nat
    PROVE  InsertSteps(table, rows) =
             [n \in 0..Len(rows) |-> IF n = 0 THEN table
                                ELSE Insert(InsertSteps(table, rows)[n - 1], rows[n])]
<1> DEFINE Step(x, n) == Insert(x, rows[n])
           Eqn(g, k) == g = [n \in 0..k |-> IF n = 0 THEN table ELSE Step(g[n - 1], n)]
           P == {k \in Nat : \E g : Eqn(g, k)}
<1> HIDE DEF Step
<1>1. 0 \in P
  <2>1. Eqn([n \in 0..0 |-> table], 0)
    OBVIOUS
  <2> QED
    BY <2>1
<1>2. ASSUME NEW k \in P PROVE k + 1 \in P
  <2>1. PICK g : Eqn(g, k)
    OBVIOUS
  <2> DEFINE h == [n \in 0..(k + 1) |-> IF n = k + 1 THEN Step(g[k], k + 1) ELSE g[n]]
  <2>2. Eqn(h, k + 1)
    <3> DEFINE r == [n \in 0..(k + 1) |-> IF n = 0 THEN table ELSE Step(h[n - 1], n)]
    <3>1. ASSUME NEW n \in 0..(k + 1) PROVE h[n] = r[n]
      <4>1. CASE n = k + 1
        BY <4>1
      <4>2. CASE n = 0
        BY <4>2, <2>1
      <4>3. CASE n \in 1..k
        <5>1. h[n] = g[n] /\ h[n - 1] = g[n - 1]
          BY <4>3
        <5>2. g[n] = Step(g[n - 1], n)
          BY <2>1, <4>3
        <5> QED
          BY <5>1, <5>2, <4>3
      <4> QED
        BY <4>1, <4>2, <4>3
    <3> QED
      BY <3>1
  <2>3. k + 1 \in Nat
    OBVIOUS
  <2> HIDE DEF h, Eqn
  <2> QED
    BY <2>2, <2>3
<1>3. P = Nat
  <2> HIDE DEF P
  <2> QED
    BY <1>1, <1>2, SetInduction DEF P
<1>4. \E g : Eqn(g, Len(rows))
  BY <1>3
<1> QED
  BY <1>4 DEF InsertSteps, Step

(* After some removals the table has the rows whose ids are not among them. *)
LEMMA RemoveUidsGood ==
    ASSUME NEW t, NEW rows, GoodTable(t, rows), NEW s, Len(s) \in Nat
    PROVE  GoodTable(RemoveUids(t, s), {r \in rows : \A k \in 1..Len(s) : s[k].id # r.id})
<1> DEFINE N == Len(s)
           h == RemoveSteps(t, s)
           Left(n) == {r \in rows : \A k \in 1..n : s[k].id # r.id}
           P == {n \in Nat : n <= N => GoodTable(h[n], Left(n))}
<1>1. h = [n \in 0..N |-> IF n = 0 THEN t ELSE RemoveUid(h[n - 1], s[n].id)]
  BY RemoveStepsDef
<1>2. RemoveUids(t, s) = h[N]
  BY DEF RemoveUids, RemoveSteps
<1> HIDE DEF h, N
<1>3. N \in Nat
  BY DEF N
<1>4. 0 \in P
  <2>1. h[0] = t /\ Left(0) = rows
    BY <1>1, <1>3
  <2> QED
    BY <2>1
<1>5. ASSUME NEW n \in P PROVE n + 1 \in P
  <2> SUFFICES ASSUME n + 1 <= N PROVE GoodTable(h[n + 1], Left(n + 1))
    <3> HIDE DEF Left
    <3>1. n + 1 \in Nat
      OBVIOUS
    <3> QED
      BY <3>1
  <2>1. n \in Nat /\ n <= N /\ n + 1 \in 0..N /\ n + 1 # 0 /\ (n + 1) - 1 = n
    BY <1>3
  <2>2. GoodTable(h[n], Left(n))
    <3> HIDE DEF Left
    <3> QED
      BY <2>1
  <2>3. h[n + 1] = RemoveUid(h[n], s[n + 1].id)
    BY <2>1, <1>1
  <2>4. WithoutId(Left(n), s[n + 1].id) = Left(n + 1)
    <3>1. \A k \in 1..(n + 1) : k \in 1..n \/ k = n + 1
      BY <2>1
    <3>2. n + 1 \in 1..(n + 1) /\ \A k \in 1..n : k \in 1..(n + 1)
      BY <2>1
    <3> QED
      BY <3>1, <3>2 DEF WithoutId
  <2> HIDE DEF Left
  <2> QED
    BY <2>2, <2>3, <2>4, RemoveGood
<1>6. P = Nat
  <2>1. P \in SUBSET Nat
    OBVIOUS
  <2> HIDE DEF P
  <2> QED
    BY <2>1, <1>4, <1>5, SetInduction
<1>7. GoodTable(h[N], Left(N))
  <2>1. N <= N
    BY <1>3
  <2>2. N \in P
    <3> HIDE DEF P
    <3> QED
      BY <1>3, <1>6
  <2> HIDE DEF Left
  <2> QED
    BY <2>1, <2>2
<1> QED
  BY <1>2, <1>7 DEF N

(* After some insertions it has those rows too, when all ids and keys differ. *)
LEMMA InsertRowsGood ==
    ASSUME NEW t, NEW rows, GoodTable(t, rows), NEW s, Len(s) \in Nat,
           \A i, j \in 1..Len(s) : s[i].id = s[j].id \/ s[i].key = s[j].key => i = j,
           \A r \in rows : \A k \in 1..Len(s) : s[k].id # r.id /\ s[k].key # r.key
    PROVE  GoodTable(InsertRows(t, s), rows \cup {s[k] : k \in 1..Len(s)})
<1> DEFINE N == Len(s)
           h == InsertSteps(t, s)
           All(n) == rows \cup {s[k] : k \in 1..n}
           P == {n \in Nat : n <= N => GoodTable(h[n], All(n))}
<1>1. h = [n \in 0..N |-> IF n = 0 THEN t ELSE Insert(h[n - 1], s[n])]
  BY InsertStepsDef
<1>2. InsertRows(t, s) = h[N]
  BY DEF InsertRows, InsertSteps
<1> HIDE DEF h, N
<1>3. N \in Nat
  BY DEF N
<1>4. 0 \in P
  <2>1. h[0] = t /\ All(0) = rows
    BY <1>1, <1>3
  <2> QED
    BY <2>1
<1>5. ASSUME NEW n \in P PROVE n + 1 \in P
  <2> SUFFICES ASSUME n + 1 <= N PROVE GoodTable(h[n + 1], All(n + 1))
    <3> HIDE DEF All
    <3>1. n + 1 \in Nat
      OBVIOUS
    <3> QED
      BY <3>1
  <2>1. n \in Nat /\ n <= N /\ n + 1 \in 0..N /\ n + 1 # 0 /\ (n + 1) - 1 = n
    BY <1>3
  <2>2. GoodTable(h[n], All(n))
    <3> HIDE DEF All
    <3> QED
      BY <2>1
  <2>3. h[n + 1] = Insert(h[n], s[n + 1])
    BY <2>1, <1>1
  <2>4. All(n) \cup {s[n + 1]} = All(n + 1)
    <3>1. \A k \in 1..(n + 1) : k \in 1..n \/ k = n + 1
      BY <2>1
    <3>2. n + 1 \in 1..(n + 1) /\ \A k \in 1..n : k \in 1..(n + 1)
      BY <2>1
    <3> QED
      BY <3>1, <3>2
  <2>5. \A r \in All(n) : r.id # s[n + 1].id /\ r.key # s[n + 1].key
    <3>1. n + 1 \in 1..N /\ \A k \in 1..n : k \in 1..N /\ k # n + 1
      BY <2>1, <1>3
    <3> QED
      BY <3>1 DEF N
  <2> HIDE DEF All
  <2> QED
    BY <2>2, <2>3, <2>4, <2>5, InsertGood
<1>6. P = Nat
  <2>1. P \in SUBSET Nat
    OBVIOUS
  <2> HIDE DEF P
  <2> QED
    BY <2>1, <1>4, <1>5, SetInduction
<1>7. GoodTable(h[N], All(N))
  <2>1. N <= N
    BY <1>3
  <2>2. N \in P
    <3> HIDE DEF P
    <3> QED
      BY <1>3, <1>6
  <2> HIDE DEF All
  <2> QED
    BY <2>1, <2>2
<1> QED
  BY <1>2, <1>7 DEF N

(* The rows of a delta that stay, the ids it takes away, the rows that may connect,
   and those of them it does not touch. *)
Staying(updates, removed) ==
    {u \in LatestOf(updates, Len(updates)) : u.id \notin ToSet(removed)}
GoneIds(rows, removed) == ToSet(removed) \cup {r.id : r \in {x \in rows : ~Active(x)}}
Usable(rows) == {r \in rows : Active(r)}
Untouched(rows, gone, added) ==
    {r \in Usable(rows) : r.id \notin gone /\ \A a \in added : a.id # r.id}

(* effective_delta_updates keeps the last update of each id that stays. *)
LEMMA EffectiveFacts ==
    ASSUME NEW updates \in Seq(Row), NEW removed
    PROVE  LET e == EffectiveUpdates(updates, removed)
           IN  /\ e \in Seq(Row)
               /\ ToSet(e) = Staying(updates, removed)
               /\ \A i, j \in 1..Len(e) : e[i].id = e[j].id => i = j
<1> DEFINE U == Len(updates)
           places == {j \in DOMAIN updates :
                        /\ updates[j].id \notin ToSet(removed)
                        /\ \A k \in DOMAIN updates : k > j => updates[k].id # updates[j].id}
           e == KeptAt(updates, places)
<1>1. U \in Nat /\ DOMAIN updates = 1..U
  BY LenProperties
<1>2. \A i, j \in places : updates[i].id = updates[j].id => i = j
  <2> SUFFICES ASSUME NEW i \in places, NEW j \in places, updates[i].id = updates[j].id
               PROVE  i = j
    OBVIOUS
  <2>1. i \in 1..U /\ j \in 1..U /\ ~(i > j) /\ ~(j > i)
    BY <1>1
  <2> QED
    BY <2>1, <1>1
<1>3. (DOMAIN updates) \cap places = places
  OBVIOUS
<1>4. ASSUME NEW i \in 1..U
      PROVE  (\A k \in (i + 1)..U : updates[k].id # updates[i].id)
               <=> \A k \in 1..U : k > i => updates[k].id # updates[i].id
  BY <1>1
<1>5. {updates[n] : n \in places}
        = {u \in LatestOf(updates, U) : u.id \notin ToSet(removed)}
  <2> HIDE DEF U
  <2> QED
    BY <1>1, <1>4 DEF LatestOf
<1> HIDE DEF places, U
<1>6. /\ e \in Seq(Row) /\ ToSet(e) = {updates[n] : n \in places}
      /\ \A i, j \in 1..Len(e) : e[i].id = e[j].id => i = j
  BY <1>2, <1>3, KeptAtFacts
<1> QED
  BY <1>5, <1>6 DEF EffectiveUpdates, places, U, Staying

LEMMA ActiveFacts ==
    ASSUME NEW S, NEW v \in Seq(S),
           \A i, j \in 1..Len(v) : v[i].id = v[j].id => i = j
    PROVE  LET a == ActiveRows(v)
           IN  /\ a \in Seq(S) /\ ToSet(a) = Usable(ToSet(v))
               /\ \A i, j \in 1..Len(a) : a[i].id = a[j].id => i = j
<1> DEFINE places == {n \in DOMAIN v : Active(v[n])}
           a == KeptAt(v, places)
<1>1. DOMAIN v = 1..Len(v)
  BY LenProperties
<1>2. \A i, j \in (DOMAIN v) \cap places : v[i].id = v[j].id => i = j
  BY <1>1
<1>3. {v[n] : n \in (DOMAIN v) \cap places} = Usable(ToSet(v))
  BY DEF Usable, ToSet
<1> HIDE DEF places
<1>4. /\ a \in Seq(S) /\ ToSet(a) = {v[n] : n \in (DOMAIN v) \cap places}
      /\ \A i, j \in 1..Len(a) : a[i].id = a[j].id => i = j
  BY <1>2, KeptAtFacts
<1> QED
  BY <1>3, <1>4 DEF ActiveRows, places

(* effective_delta_removed lists the removed ids and those of disabled rows. *)
LEMMA GoneFacts ==
    ASSUME NEW e \in Seq(Row), NEW removed \in Seq(Ids)
    PROVE  LET g == EffectiveRemoved(e, removed)
           IN  /\ Len(g) \in Nat /\ DOMAIN g = 1..Len(g)
               /\ {x.id : x \in ToSet(g)}
                    = GoneIds(ToSet(e), removed)
<1> DEFINE ids == ToSet(removed) \cup {r.id : r \in {x \in ToSet(e) : ~Active(x)}}
           T == {[id |-> i] : i \in ids}
           f == [i \in ids |-> [id |-> i]]
           g == Sorted(T)
<1>1. ids \in SUBSET Ids
  <2>1. /\ \A x \in ToSet(removed) : x \in Ids
        /\ \A x \in ToSet(e) : x.id \in Ids
    <3>1. /\ DOMAIN removed = 1..Len(removed) /\ DOMAIN e = 1..Len(e)
          /\ \A i \in 1..Len(removed) : removed[i] \in Ids
          /\ \A i \in 1..Len(e) : e[i] \in Row
      BY LenProperties, ElementOfSeq
    <3> QED
      BY <3>1, RowFacts DEF ToSet
  <2> QED
    BY <2>1
<1>2. IsFiniteSet(ids)
  BY <1>1, DeltaConstants, FS_Subset
<1> HIDE DEF ids
<1>3. f \in Surjection(ids, T)
  <2>1. f \in [ids -> T] /\ \A x \in T : \E i \in ids : f[i] = x
    OBVIOUS
  <2> HIDE DEF f, T
  <2> QED
    BY <2>1 DEF Surjection
<1>4. IsFiniteSet(T)
  <2> HIDE DEF f, T
  <2> QED
    BY <1>2, <1>3, FS_Surjection
<1>5. Ided(T)
  BY <1>1, <1>4, DeltaConstants DEF Ided
<1>6. {x.id : x \in T} = ids
  <2>1. \A x \in T : \E i \in ids : x = [id |-> i]
    OBVIOUS
  <2>2. \A x \in T : x.id \in ids
    BY <2>1
  <2>3. \A i \in ids : [id |-> i] \in T /\ [id |-> i].id = i
    OBVIOUS
  <2> HIDE DEF T
  <2> QED
    BY <2>2, <2>3
<1> HIDE DEF T
<1>7. g \in Seq(T) /\ ToSet(g) = T
  BY <1>5, SortedLists DEF Lists
<1>8. Len(g) \in Nat /\ DOMAIN g = 1..Len(g)
  BY <1>7, LenProperties
<1>9. g = EffectiveRemoved(e, removed)
  BY DEF EffectiveRemoved, T, ids
<1> QED
  BY <1>6, <1>7, <1>8, <1>9 DEF ids, GoneIds

(* The users that may connect after a delta: those it does not touch, and the
   rows it adds. *)
LEMMA UsableAfter ==
    ASSUME NEW rows, NEW updates \in Seq(Row), NEW removed \in Seq(Ids), NEW A, NEW E, NEW gone,
           E = Staying(updates, removed),
           A = Usable(E), gone = GoneIds(E, removed)
    PROVE  Usable(RemovedBy(UpdatedBy(rows, updates, Len(updates)), removed, Len(removed)))
             = Untouched(rows, gone, A) \cup A
<1> DEFINE U == Len(updates)
           latest == LatestOf(updates, U)
<1>1. /\ DOMAIN removed = 1..Len(removed)
      /\ \A i : i \in ToSet(removed) <=> \E k \in 1..Len(removed) : removed[k] = i
  BY LenProperties DEF ToSet
<1>2. /\ \A i \in 1..U : \E u \in latest : u.id = updates[i].id
      /\ \A u \in latest : \E i \in 1..U : updates[i] = u
  BY LatestFacts
<1> HIDE DEF U, latest
<1>3. \A r : (\A j \in 1..U : updates[j].id # r.id) <=> \A u \in latest : u.id # r.id
  BY <1>2
<1>4. RemovedBy(UpdatedBy(rows, updates, U), removed, Len(removed))
        = {r \in latest : r.id \notin ToSet(removed)}
          \cup {r \in rows : r.id \notin ToSet(removed) /\ \A u \in latest : u.id # r.id}
  BY <1>1, <1>3 DEF RemovedBy, UpdatedBy, latest
<1>5. \A r \in rows : (r.id \notin ToSet(removed) /\ \A u \in latest : u.id # r.id)
                        <=> (r.id \notin gone /\ \A a \in A : a.id # r.id)
  <2>1. E = {u \in latest : u.id \notin ToSet(removed)}
    BY DEF latest, U, Staying
  <2> QED
    BY <2>1 DEF Usable, GoneIds
<1>6. E = {u \in latest : u.id \notin ToSet(removed)}
  BY DEF latest, U, Staying
<1> QED
  BY <1>4, <1>5, <1>6 DEF Usable, U, Untouched

(* A delta is valid for the live table exactly when the list it leads to has no
   key twice. *)
LEMMA ValidateExact ==
    ASSUME NEW rows, Ided(rows), KeysDistinct(rows), NEW t, GoodTable(t, Usable(rows)),
           NEW a \in Seq(Row), NEW A, A = ToSet(a), A = Usable(A),
           \A i, j \in 1..Len(a) : a[i].id = a[j].id => i = j,
           NEW gone, NEW all,
           Usable(all) = Untouched(rows, gone, A) \cup A
    PROVE  Validate(t, a, gone) <=> KeysDistinct(all)
<1> DEFINE K == Untouched(rows, gone, A)
           inc == {r.id : r \in A}
<1>1. KeysDistinct(all) <=> \A x, y \in K \cup A : x.key = y.key => x.id = y.id
  <2>1. KeysDistinct(all) <=> \A x, y \in Usable(all) : x.key = y.key => x.id = y.id
    BY DEF KeysDistinct, Usable
  <2> QED
    BY <2>1
<1>2. /\ DOMAIN a = 1..Len(a) /\ \A x \in A : \E i \in 1..Len(a) : x = a[i]
      /\ \A i \in 1..Len(a) : a[i] \in A
  <2>1. DOMAIN a = 1..Len(a)
    BY LenProperties
  <2> QED
    BY <2>1 DEF ToSet
<1>3. /\ DOMAIN t.byHash = {r.key : r \in Usable(rows)}
      /\ \A r \in Usable(rows) : t.keys[t.byHash[r.key]] = r
  <2>1. DOMAIN t.byHash = {r.key : r \in Usable(rows)}
    BY DEF GoodTable
  <2> QED
    BY <2>1, TablePlaces
<1>4. Validate(t, a, gone)
        <=> /\ \A i, j \in 1..Len(a) : a[i].key = a[j].key => i = j
            /\ \A x \in A : \A r \in Usable(rows) :
                  r.key = x.key => r.id \in {x.id} \cup gone \cup inc
  <2> DEFINE Second == \A x \in A : x.key \in DOMAIN t.byHash =>
                          t.keys[t.byHash[x.key]].id \in {x.id} \cup gone \cup inc
  <2>1. Validate(t, a, gone)
          <=> (\A i, j \in 1..Len(a) : a[i].key = a[j].key => i = j) /\ Second
    BY <1>2 DEF Validate
  <2>2. Second <=> \A x \in A : \A r \in Usable(rows) :
                      r.key = x.key => r.id \in {x.id} \cup gone \cup inc
    <3> HIDE DEF inc
    <3> QED
      BY <1>3
  <2> QED
    BY <2>1, <2>2
<1>5. \A x, y \in K : x.key = y.key => x.id = y.id
  BY DEF KeysDistinct, Usable, Untouched
<1>6. ASSUME Validate(t, a, gone) PROVE KeysDistinct(all)
  <2>1. \A x, y \in A : x.key = y.key => x.id = y.id
    BY <1>6, <1>4, <1>2
  <2>2. ASSUME NEW x \in A, NEW y \in K, x.key = y.key PROVE FALSE
    <3>1. y.id \in {x.id} \cup gone \cup inc
      BY <2>2, <1>6, <1>4 DEF Untouched
    <3> QED
      BY <3>1 DEF Untouched
  <2> HIDE DEF K
  <2> QED
    BY <2>1, <2>2, <1>5, <1>1
<1>7. ASSUME KeysDistinct(all) PROVE Validate(t, a, gone)
  <2>1. \A x, y \in K \cup A : x.key = y.key => x.id = y.id
    BY <1>7, <1>1
  <2>2. \A i, j \in 1..Len(a) : a[i].key = a[j].key => i = j
    <3>1. \A i, j \in 1..Len(a) : a[i].key = a[j].key => a[i].id = a[j].id
      BY <2>1, <1>2
    <3> QED
      BY <3>1
  <2>3. ASSUME NEW x \in A, NEW r \in Usable(rows), r.key = x.key
        PROVE  r.id \in {x.id} \cup gone \cup inc
    <3>1. CASE r \in K
      BY <3>1, <2>1, <2>3
    <3>2. CASE r \notin K
      BY <3>2 DEF Untouched
    <3> QED
      BY <3>1, <3>2
  <2> QED
    BY <2>2, <2>3, <1>4
<1> QED
  BY <1>6, <1>7

(* A valid delta leaves a table of the users that may connect. *)
LEMMA ApplyGood ==
    ASSUME NEW rows, NEW t, GoodTable(t, Usable(rows)),
           NEW a \in Seq(Row), NEW A, A = ToSet(a),
           \A i, j \in 1..Len(a) : a[i].id = a[j].id => i = j,
           NEW g, Len(g) \in Nat, DOMAIN g = 1..Len(g), NEW gone, gone = {x.id : x \in ToSet(g)},
           NEW all, KeysDistinct(all),
           Usable(all) = Untouched(rows, gone, A) \cup A
    PROVE  GoodTable(ApplyDelta(t, a, g), Usable(all))
<1> DEFINE K == Untouched(rows, gone, A)
           K1 == {r \in Usable(rows) : \A k \in 1..Len(a) : a[k].id # r.id}
           K2 == {r \in K1 : \A k \in 1..Len(g) : g[k].id # r.id}
           t1 == RemoveUids(t, a)
           t2 == RemoveUids(t1, g)
<1>1. Len(a) \in Nat /\ DOMAIN a = 1..Len(a)
  BY LenProperties
<1>2. A = {a[k] : k \in 1..Len(a)} /\ gone = {g[k].id : k \in 1..Len(g)}
  BY <1>1 DEF ToSet
<1>3. GoodTable(t1, K1)
  BY <1>1, RemoveUidsGood
<1>4. GoodTable(t2, K2)
  <2> HIDE DEF t1, K1
  <2> QED
    BY <1>3, RemoveUidsGood
<1>5. K2 = K
  BY <1>2 DEF Untouched
<1>6. \A x, y \in Usable(all) : x.key = y.key => x.id = y.id
  BY DEF KeysDistinct, Usable
<1>7. /\ \A i, j \in 1..Len(a) : a[i].id = a[j].id \/ a[i].key = a[j].key => i = j
      /\ \A r \in K : \A k \in 1..Len(a) : a[k].id # r.id /\ a[k].key # r.key
  <2>1. \A k \in 1..Len(a) : a[k] \in A /\ a[k] \in Usable(all)
    BY <1>2
  <2>2. \A r \in K : r \in Usable(all) /\ \A k \in 1..Len(a) : a[k].id # r.id
    BY <2>1 DEF Untouched
  <2> HIDE DEF K
  <2>3. \A i, j \in 1..Len(a) : a[i].key = a[j].key => a[i].id = a[j].id
    BY <2>1, <1>6
  <2> QED
    BY <2>1, <2>2, <2>3, <1>6
<1> HIDE DEF K, K1, K2, t1, t2
<1>8. GoodTable(InsertRows(t2, a), K \cup {a[k] : k \in 1..Len(a)})
  BY <1>1, <1>4, <1>5, <1>7, InsertRowsGood
<1>9. K \cup {a[k] : k \in 1..Len(a)} = Usable(all)
  BY <1>2 DEF K
<1> QED
  BY <1>8, <1>9 DEF ApplyDelta, t2, t1

(* A delta answer for the four representations at once. *)
LEMMA DeltaExact ==
    ASSUME NEW m \in UserMap, KeysDistinct(RowsOf(m)), NEW t, GoodTable(t, Usable(RowsOf(m))),
           NEW updates \in Seq(Row), NEW removed \in Seq(Ids)
    PROVE  LET e == EffectiveUpdates(updates, removed)
               a == ActiveRows(e)
               g == EffectiveRemoved(e, removed)
               all == RowsOf(PatchedBy(m, updates, removed))
           IN  /\ Validate(t, a, {x.id : x \in ToSet(g)}) <=> KeysDistinct(all)
               /\ KeysDistinct(all) => GoodTable(ApplyDelta(t, a, g), Usable(all))
<1> DEFINE e == EffectiveUpdates(updates, removed)
           a == ActiveRows(e)
           g == EffectiveRemoved(e, removed)
           all == RowsOf(PatchedBy(m, updates, removed))
           rows == RowsOf(m)
           E == ToSet(e)
           A == ToSet(a)
           gone == {x.id : x \in ToSet(g)}
<1>1. /\ e \in Seq(Row)
      /\ E = Staying(updates, removed)
      /\ \A i, j \in 1..Len(e) : e[i].id = e[j].id => i = j
  BY EffectiveFacts
<1> HIDE DEF e
<1>2. a \in Seq(Row) /\ A = Usable(E) /\ \A i, j \in 1..Len(a) : a[i].id = a[j].id => i = j
  BY <1>1, ActiveFacts
<1>3. /\ Len(g) \in Nat /\ DOMAIN g = 1..Len(g)
      /\ gone = GoneIds(E, removed)
  BY <1>1, GoneFacts
<1>4. all = RemovedBy(UpdatedBy(rows, updates, Len(updates)), removed, Len(removed))
  BY PatchedRows
<1>5. Ided(rows)
  BY RowsOfFacts
<1>6. A = Usable(A)
  BY <1>2 DEF Usable
<1> HIDE DEF a, g, all, rows, E, A, gone
<1>7. Usable(all) = Untouched(rows, gone, A) \cup A
  <2>1. /\ E = Staying(updates, removed)
        /\ A = Usable(E) /\ gone = GoneIds(E, removed)
    BY <1>1, <1>2, <1>3
  <2>2. Usable(RemovedBy(UpdatedBy(rows, updates, Len(updates)), removed, Len(removed)))
          = Untouched(rows, gone, A) \cup A
    BY <2>1, UsableAfter
  <2> QED
    BY <2>2, <1>4
<1>8. A = ToSet(a) /\ gone = {x.id : x \in ToSet(g)}
  BY DEF A, gone
<1>9. KeysDistinct(rows) /\ GoodTable(t, Usable(rows))
  BY DEF rows
<1>10. Validate(t, a, gone) <=> KeysDistinct(all)
  BY <1>2, <1>5, <1>6, <1>7, <1>8, <1>9, ValidateExact
<1>11. ASSUME KeysDistinct(all) PROVE GoodTable(ApplyDelta(t, a, g), Usable(all))
  <2>1. a \in Seq(Row) /\ \A i, j \in 1..Len(a) : a[i].id = a[j].id => i = j
    BY <1>2
  <2>2. Len(g) \in Nat /\ DOMAIN g = 1..Len(g)
    BY <1>3
  <2> QED
    BY <1>11, <2>1, <2>2, <1>7, <1>8, <1>9, ApplyGood
<1> QED
  BY <1>8, <1>10, <1>11 DEF a, g, all, e

(* A full answer builds a table of the users that may connect. *)
LEMMA FullGood ==
    ASSUME NEW m \in UserMap, KeysDistinct(RowsOf(m))
    PROVE  GoodTable(Table(ActiveRows(Sorted(RowsOf(m)))), Usable(RowsOf(m)))
<1> DEFINE rows == RowsOf(m)
           v == Sorted(rows)
           a == ActiveRows(v)
<1>1. Ided(rows)
  BY RowsOfFacts
<1>2. Lists(v, rows)
  BY <1>1, SortedLists
<1> HIDE DEF v
<1>3. v \in Seq(rows) /\ ToSet(v) = rows /\ \A i, j \in 1..Len(v) : v[i].id = v[j].id => i = j
  BY <1>1, <1>2, ListDistinct DEF Lists
<1> HIDE DEF rows
<1>4. /\ a \in Seq(rows) /\ ToSet(a) = Usable(rows)
      /\ \A i, j \in 1..Len(a) : a[i].id = a[j].id => i = j
  BY <1>3, ActiveFacts
<1> HIDE DEF a
<1>5. \A i \in 1..Len(a) : a[i] \in Usable(rows)
  <2>1. DOMAIN a = 1..Len(a)
    BY <1>4, LenProperties
  <2> QED
    BY <2>1, <1>4 DEF ToSet
<1>6. a \in Seq(Usable(rows))
  BY <1>4, <1>5, SeqOfPart
<1>7. \A i, j \in 1..Len(a) : a[i].key = a[j].key => a[i].id = a[j].id
  BY <1>5 DEF KeysDistinct, Usable, rows
<1>8. \A i, j \in 1..Len(a) : a[i].id = a[j].id \/ a[i].key = a[j].key => i = j
  BY <1>4, <1>7
<1>9. GoodTable(Table(a), Usable(rows))
  BY <1>4, <1>6, <1>8, TableGood
<1> QED
  BY <1>9 DEF a, v, rows

(* The inductive invariant.  The vector lists the rows of the reference with
   increasing ids, so that every binary search finds its place, and both indexes
   of the live table lead from a row back to the place it is at: LiveExact alone
   says only that the row found has the right id. *)
DeltaIInv ==
    /\ want \in UserMap /\ KeysDistinct(RowsOf(want))
    /\ Lists(users, RowsOf(want)) /\ replayed = users
    /\ count = Cardinality(LimitedIds(want))
    /\ GoodTable(live, Usable(RowsOf(want)))
    /\ last \in [clash : BOOLEAN, accepted : BOOLEAN, changed : BOOLEAN]
    /\ last.accepted = ~last.clash

LEMMA DeltaInitially == DeltaInit => DeltaIInv
<1> SUFFICES ASSUME DeltaInit PROVE DeltaIInv
  OBVIOUS
<1>1. want \in UserMap
  BY DEF DeltaInit, UserMap
<1>2. RowsOf(want) = {}
  BY DEF DeltaInit, RowsOf
<1>3. Lists(users, RowsOf(want))
  BY <1>2 DEF DeltaInit, Lists, ToSet, Increasing
<1>4. count = Cardinality(LimitedIds(want))
  <2>1. LimitedIds(want) = {}
    BY DEF DeltaInit, LimitedIds
  <2> QED
    BY <2>1, FS_EmptySet DEF DeltaInit
<1>5. GoodTable(live, Usable(RowsOf(want)))
  <2>1. Usable(RowsOf(want)) = {}
    BY <1>2 DEF Usable
  <2>2. <<>> \in Seq({}) /\ ToSet(<<>>) = {} /\ Len(<<>>) = 0
    BY DEF ToSet
  <2>3. GoodTable(Table(<<>>), {})
    <3>1. \A i, j \in 1..Len(<<>>) :
             <<>>[i].id = <<>>[j].id \/ <<>>[i].key = <<>>[j].key => i = j
      BY <2>2
    <3> QED
      BY <2>2, <3>1, TableGood
  <2> QED
    BY <2>1, <2>3 DEF DeltaInit
<1>6. KeysDistinct(RowsOf(want))
  BY <1>2 DEF KeysDistinct
<1>7. /\ replayed = users /\ last.accepted = ~last.clash
      /\ last \in [clash : BOOLEAN, accepted : BOOLEAN, changed : BOOLEAN]
  BY DEF DeltaInit
<1> QED
  BY <1>1, <1>3, <1>4, <1>5, <1>6, <1>7 DEF DeltaIInv

LEMMA FullAnswerKeeps ==
    ASSUME DeltaIInv, NEW map \in UserMap, FullAnswer(map)
    PROVE  DeltaIInv'
<1>1. /\ KeysDistinct(RowsOf(map)) /\ want' = map /\ users' = Sorted(RowsOf(map))
      /\ replayed' = users' /\ count' = Cardinality({r \in RowsOf(map) : IsLimited(r)})
      /\ live' = Table(ActiveRows(Sorted(RowsOf(map))))
      /\ last' = [clash |-> FALSE, accepted |-> TRUE, changed |-> Sorted(RowsOf(map)) # users]
  BY DEF FullAnswer
<1>2. Lists(users', RowsOf(want'))
  BY <1>1, RowsOfFacts, SortedLists
<1>3. count' = Cardinality(LimitedIds(want'))
  BY <1>1, LimitedCount
<1>4. GoodTable(live', Usable(RowsOf(want')))
  BY <1>1, FullGood
<1>5. /\ last' \in [clash : BOOLEAN, accepted : BOOLEAN, changed : BOOLEAN]
      /\ last'.accepted = ~last'.clash
  BY <1>1
<1> QED
  BY <1>1, <1>2, <1>3, <1>4, <1>5 DEF DeltaIInv

LEMMA DeltaAnswerKeeps ==
    ASSUME DeltaIInv, NEW updates \in Seq(Row), NEW removed \in Seq(Ids),
           DeltaAnswer(updates, removed)
    PROVE  DeltaIInv'
<1> DEFINE e == EffectiveUpdates(updates, removed)
           a == ActiveRows(e)
           g == EffectiveRemoved(e, removed)
           new == PatchedBy(want, updates, removed)
           changed == MergeChanged(users, updates, removed)
           valid == Validate(live, a, {x.id : x \in ToSet(g)})
<1>1. /\ want \in UserMap /\ KeysDistinct(RowsOf(want)) /\ Lists(users, RowsOf(want))
      /\ replayed = users /\ count = Cardinality(LimitedIds(want))
      /\ GoodTable(live, Usable(RowsOf(want)))
  BY DEF DeltaIInv
<1>2. /\ last' = [clash |-> ~KeysDistinct(RowsOf(new)), accepted |-> (changed => valid),
                  changed |-> changed]
      /\ (changed => valid) =>
            /\ want' = new /\ users' = Merge(users, updates, removed)
            /\ replayed' = IF changed THEN ReplayJournal(replayed, updates, removed) ELSE replayed
            /\ count' = CountAfter(count, users, updates, removed)
            /\ live' = IF changed THEN ApplyDelta(live, a, g) ELSE live
      /\ ~(changed => valid) => UNCHANGED <<want, users, replayed, count, live>>
  BY DEF DeltaAnswer
<1>3. /\ new \in UserMap /\ Lists(Merge(users, updates, removed), RowsOf(new))
      /\ Lists(ReplayJournal(users, updates, removed), RowsOf(new)) /\ (~changed => new = want)
  BY <1>1, MergeLists
<1>4. /\ valid <=> KeysDistinct(RowsOf(new))
      /\ KeysDistinct(RowsOf(new)) => GoodTable(ApplyDelta(live, a, g), Usable(RowsOf(new)))
  BY <1>1, DeltaExact
<1>5. CountAfter(count, users, updates, removed) = Cardinality(LimitedIds(new))
  BY <1>1, CountExact
<1>6. changed \in BOOLEAN /\ valid \in BOOLEAN /\ KeysDistinct(RowsOf(new)) \in BOOLEAN
  BY DEF MergeChanged, InPlaceChanged, BatchChanged, Validate, KeysDistinct
<1> HIDE DEF e, a, g, new, changed, valid
<1>7. (changed => valid) <=> KeysDistinct(RowsOf(new))
  BY <1>1, <1>3, <1>4
<1>8. /\ last' \in [clash : BOOLEAN, accepted : BOOLEAN, changed : BOOLEAN]
      /\ last'.accepted = ~last'.clash
  BY <1>2, <1>6, <1>7
<1>9. CASE changed => valid
  <2>1. /\ want' = new /\ users' = Merge(users, updates, removed)
        /\ replayed' = IF changed THEN ReplayJournal(users, updates, removed) ELSE users
        /\ count' = Cardinality(LimitedIds(new))
        /\ live' = IF changed THEN ApplyDelta(live, a, g) ELSE live
    BY <1>1, <1>2, <1>5, <1>9
  <2>2. Ided(RowsOf(new))
    BY <1>3, RowsOfFacts
  <2>3. Lists(users', RowsOf(new)) /\ Lists(replayed', RowsOf(new))
    BY <2>1, <1>1, <1>3
  <2>4. users' = Sorted(RowsOf(new)) /\ replayed' = Sorted(RowsOf(new))
    BY <2>2, <2>3, ListIsSorted
  <2>5. GoodTable(live', Usable(RowsOf(new)))
    BY <2>1, <1>1, <1>3, <1>4, <1>7, <1>9
  <2>6. KeysDistinct(RowsOf(new))
    BY <1>7, <1>9
  <2> QED
    BY <2>1, <2>3, <2>4, <2>5, <2>6, <1>3, <1>8 DEF DeltaIInv
<1>10. CASE ~(changed => valid)
  BY <1>1, <1>2, <1>8, <1>10 DEF DeltaIInv
<1> QED
  BY <1>9, <1>10

(* The bounded inputs of the runs are sequences. *)
LEMMA InputsAreSeqs ==
    ASSUME NEW S, NEW n \in Nat, NEW s \in UpTo(S, n)
    PROVE  s \in Seq(S)
<1>1. PICK k \in 0..n : s \in [1..k -> S]
  BY DEF UpTo
<1> QED
  BY <1>1, FunIsSeq

LEMMA DeltaInductive ==
    ASSUME DeltaIInv, [DeltaNext]_deltaVars
    PROVE  DeltaIInv'
<1>1. ASSUME NEW map \in UserMap, FullAnswer(map) PROVE DeltaIInv'
  BY <1>1, FullAnswerKeeps
<1>2. ASSUME NEW updates \in Updates, NEW removed \in Removals, DeltaAnswer(updates, removed)
      PROVE  DeltaIInv'
  <2>1. updates \in Seq(Row) /\ removed \in Seq(Ids)
    BY DeltaConstants, InputsAreSeqs DEF Updates, Removals
  <2> QED
    BY <2>1, <1>2, DeltaAnswerKeeps
<1>3. CASE UNCHANGED deltaVars
  BY <1>3 DEF DeltaIInv, deltaVars
<1> QED
  BY <1>1, <1>2, <1>3 DEF DeltaNext

LEMMA DeltaIInvImplies == DeltaIInv => DeltasAgree
<1> SUFFICES ASSUME DeltaIInv PROVE DeltasAgree
  OBVIOUS
<1> DEFINE rows == RowsOf(want)
           act == Usable(rows)
<1>1. /\ want \in UserMap /\ Lists(users, rows) /\ replayed = users
      /\ count = Cardinality(LimitedIds(want)) /\ GoodTable(live, act)
      /\ last \in [clash : BOOLEAN, accepted : BOOLEAN, changed : BOOLEAN]
      /\ last.accepted = ~last.clash
  BY DEF DeltaIInv
<1>2. Ided(rows) /\ rows \subseteq Row /\ act \subseteq rows
  BY <1>1, RowsOfFacts DEF Usable
<1>3. MergeExact /\ ReplayAgrees /\ RefusedIffClash
  BY <1>1, <1>2, ListIsSorted DEF MergeExact, ReplayAgrees, RefusedIffClash
<1>4. CountAgrees /\ count \in 0..Cardinality(Ids)
  BY <1>1, LimitedCount DEF CountAgrees
<1>5. users \in Seq(Row) /\ live.keys \in Seq(Row)
  <2>1. users \in Seq(rows) /\ live.keys \in Seq(act) /\ act \subseteq Row
    BY <1>1, <1>2 DEF Lists, GoodTable
  <2> QED
    BY <2>1, <1>2, SeqMonotonic
<1>6. /\ Len(live.keys) \in Nat /\ DOMAIN live.keys = 1..Len(live.keys)
      /\ \A r \in act : /\ live.byUid[r.id] \in 1..Len(live.keys)
                        /\ live.keys[live.byUid[r.id]] = r /\ live.byHash[r.key] = live.byUid[r.id]
  BY <1>1, TablePlaces
<1>7. /\ ToSet(live.keys) = act /\ live.keys \in Seq(act)
      /\ DOMAIN live.byUid = {r.id : r \in act} /\ DOMAIN live.byHash = {r.key : r \in act}
      /\ \A n \in 1..Len(live.keys) : live.byUid[live.keys[n].id] = n
  BY <1>1 DEF GoodTable
<1> HIDE DEF act
<1>8. /\ \A i \in DOMAIN live.byUid : /\ live.byUid[i] \in DOMAIN live.keys
                                      /\ live.keys[live.byUid[i]].id = i
      /\ \A k \in DOMAIN live.byHash : /\ live.byHash[k] \in DOMAIN live.keys
                                       /\ live.keys[live.byHash[k]].key = k
  BY <1>6, <1>7
<1>9. Len(live.keys) = Cardinality(ToSet(live.keys))
  <2> DEFINE n == Len(live.keys)
             T == ToSet(live.keys)
  <2>1. n \in Nat /\ n <= Len(live.keys) /\ T = {live.keys[i] : i \in 1..n}
    BY <1>6 DEF ToSet
  <2>2. \A i, j \in 1..n : live.keys[i] = live.keys[j] => i = j
    BY <1>7
  <2> HIDE DEF n, T
  <2>3. Cardinality(T) = n
    BY <2>1, <2>2, <1>7, PrefixCount
  <2> QED
    BY <2>3 DEF n, T
<1>10. LiveExact
  BY <1>7, <1>8, <1>9 DEF LiveExact, act, Usable, rows
<1>11. DeltaTypeOK
  BY <1>1, <1>4, <1>5, <1>8 DEF DeltaTypeOK
<1> QED
  BY <1>3, <1>4, <1>10, <1>11 DEF DeltasAgree

(* After every answer of the panel, whole list or delta, of any length and with ids
   repeated or both updated and removed, the list merge_user_delta leaves (by either
   path), the list a restart replays from the journal, the counter
   device_limit_count_after_delta keeps and the live AEAD2022 table with its two
   indexes describe the same users, and refresh_node_user_delta refuses exactly the
   deltas that would give one key to two users. *)
THEOREM DeltasAlwaysAgree == DeltaSpec => []DeltasAgree
<1>1. DeltaInit => DeltaIInv
  BY DeltaInitially
<1>2. DeltaIInv /\ [DeltaNext]_deltaVars => DeltaIInv'
  BY DeltaInductive
<1>3. DeltaIInv => DeltasAgree
  BY DeltaIInvImplies
<1> QED
  BY <1>1, <1>2, <1>3, PTL DEF DeltaSpec
=============================================================================
