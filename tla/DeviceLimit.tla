---------------------------- MODULE DeviceLimit ----------------------------
(***************************************************************************)
(* Admission of devices on one node: the tracker's alive map, the guards   *)
(* that connections hold on it, the panel's alive list, the deletion of    *)
(* users by a sync, and the online report with its commit.                 *)
(*                                                                         *)
(* Tracker state is keyed by node, so one node stands for all.  Every      *)
(* operation on a user runs under the lock of the user's shard and is one  *)
(* step; admission is a step of its own, later than authentication.        *)
(***************************************************************************)
EXTENDS Naturals, FiniteSets

CONSTANTS
    Users,        \* user ids
    IPs,          \* client addresses
    Conns,        \* connection slots
    Limits,       \* device limits the panel may set; 0 is unlimited
    PanelCounts,  \* alive counts the panel may report
    MinOnline,    \* device_online_min_traffic
    MaxTraffic    \* bound: traffic recorded for one user between two reports

ASSUME DeviceConstants ==
    /\ Users # {} /\ IPs # {} /\ Limits # {}
    /\ IsFiniteSet(Conns)
    /\ Limits \subseteq Nat
    /\ PanelCounts \subseteq Nat
    /\ MinOnline \in Nat
    /\ MaxTraffic \in Nat

VARIABLES
    member,       \* users in the published table
    limit,        \* their device_limit
    conn,         \* connection: phase, user, address, limit it authenticated with
    alive,        \* TrackerState.alive: user -> address -> number of guards
    aliveTraffic, \* TrackerState.alive_traffic
    panelAlive,   \* TrackerState.panel_alive
    report,       \* the AliveSnapshot a push has out: user -> consumed traffic
    churned       \* history: users deleted so far

vars == <<member, limit, conn, alive, aliveTraffic, panelAlive, report, churned>>

Phase == {"closed", "authenticated", "open"}

(* A connection's AuthenticatedUser and peer address. *)
Connection == [phase : Phase, uid : Users, ip : IPs, limit : Limits]

Closed == CHOOSE c \in Connection : c.phase = "closed"

(* report[u] when user u is not in the snapshot, or none is out. *)
NotReported == MaxTraffic + 1

LocalIPs(u) == {ip \in IPs : alive[u][ip] > 0}
OpenOn(u, ip) == {c \in Conns : /\ conn[c].phase = "open"
                                /\ conn[c].uid = u
                                /\ conn[c].ip = ip}
OpenIPs(u) == {ip \in IPs : OpenOn(u, ip) # {}}

-----------------------------------------------------------------------------
(* A client authenticates against the published table; the connection keeps
   the AuthenticatedUser, with the limit of that moment. *)
Authenticate(c, u, ip) ==
    /\ conn[c].phase = "closed"
    /\ u \in member
    /\ conn' = [conn EXCEPT ![c] = [phase |-> "authenticated", uid |-> u,
                                    ip |-> ip, limit |-> limit[u]]]
    /\ UNCHANGED <<member, limit, alive, aliveTraffic, panelAlive, report, churned>>

(* A bug: off by one, the limit itself is let through. *)
AdmitsOneMore(u, ip, lim) ==
    \/ ip \in LocalIPs(u)
    \/ lim = 0
    \/ panelAlive[u] < lim /\ Cardinality(LocalIPs(u)) <= lim

(* add_alive_ip_and_check_limit: an address that is already counted is let in;
   a new one must find both the panel's count and the local one below the
   limit. *)
Admits(u, ip, lim) ==
    \/ ip \in LocalIPs(u)
    \/ lim = 0
    \/ panelAlive[u] < lim /\ Cardinality(LocalIPs(u)) < lim

(* check_device_limit on an authenticated connection: the guard is taken... *)
Admit(c) ==
    LET u == conn[c].uid  ip == conn[c].ip
    IN  /\ conn[c].phase = "authenticated"
        /\ Admits(u, ip, conn[c].limit)
        /\ conn' = [conn EXCEPT ![c].phase = "open"]
        /\ alive' = [alive EXCEPT ![u][ip] = @ + 1]
        /\ UNCHANGED <<member, limit, aliveTraffic, panelAlive, report, churned>>

(* ... or the connection is refused; a client may also give up first. *)
Refuse(c) ==
    /\ conn[c].phase = "authenticated"
    /\ conn' = [conn EXCEPT ![c] = Closed]
    /\ UNCHANGED <<member, limit, alive, aliveTraffic, panelAlive, report, churned>>

(* add_traffic: counted as online traffic while the user has an address. *)
AddTraffic(c) ==
    LET u == conn[c].uid
    IN  /\ conn[c].phase = "open"
        /\ LocalIPs(u) # {}
        /\ aliveTraffic[u] < MaxTraffic
        /\ aliveTraffic' = [aliveTraffic EXCEPT ![u] = @ + 1]
        /\ UNCHANGED <<member, limit, conn, alive, panelAlive, report, churned>>

(* A bug: the guard's release forgets the other connections of the address. *)
CloseReleasesAll(c) ==
    LET u == conn[c].uid  ip == conn[c].ip
        left == LocalIPs(u) \ {ip}
    IN  /\ conn[c].phase = "open"
        /\ conn' = [conn EXCEPT ![c] = Closed]
        /\ alive' = [alive EXCEPT ![u][ip] = 0]
        /\ aliveTraffic' = [aliveTraffic EXCEPT ![u] = IF left = {} THEN 0 ELSE @]
        /\ UNCHANGED <<member, limit, panelAlive, report, churned>>

(* AliveIpGuard::drop -> remove_alive_ip: the count goes down (saturating), a
   count of zero removes the address, and with the last address the user's
   online traffic is dropped. *)
Close(c) ==
    LET u == conn[c].uid  ip == conn[c].ip
        n == IF alive[u][ip] = 0 THEN 0 ELSE alive[u][ip] - 1
        gone == LocalIPs(u) # {} /\ (IF n = 0 THEN LocalIPs(u) \ {ip}
                                              ELSE LocalIPs(u)) = {}
    IN  /\ conn[c].phase = "open"
        /\ conn' = [conn EXCEPT ![c] = Closed]
        /\ alive' = [alive EXCEPT ![u][ip] = n]
        /\ aliveTraffic' = [aliveTraffic EXCEPT ![u] = IF gone THEN 0 ELSE @]
        /\ UNCHANGED <<member, limit, panelAlive, report, churned>>

-----------------------------------------------------------------------------
(* push(): snapshot_alive reports the users with an address and enough
   traffic; nothing is sent when there are none.  The push is out until the
   panel answers. *)
Online(u) == LocalIPs(u) # {} /\ aliveTraffic[u] >= MinOnline

SnapshotAlive ==
    /\ \A u \in Users : report[u] = NotReported
    /\ \E u \in Users : Online(u)
    /\ report' = [u \in Users |-> IF Online(u) THEN aliveTraffic[u] ELSE NotReported]
    /\ UNCHANGED <<member, limit, conn, alive, aliveTraffic, panelAlive, churned>>

(* push_alive returned Ok: commit_alive_snapshot takes the reported traffic
   off what is there now. *)
CommitAlive ==
    /\ \E u \in Users : report[u] # NotReported
    /\ aliveTraffic' = [u \in Users |->
          IF report[u] = NotReported THEN aliveTraffic[u]
          ELSE IF report[u] > aliveTraffic[u] THEN 0
          ELSE aliveTraffic[u] - report[u]]
    /\ report' = [u \in Users |-> NotReported]
    /\ UNCHANGED <<member, limit, conn, alive, panelAlive, churned>>

(* push_alive returned Err: nothing is committed. *)
AliveFailed ==
    /\ \E u \in Users : report[u] # NotReported
    /\ report' = [u \in Users |-> NotReported]
    /\ UNCHANGED <<member, limit, conn, alive, aliveTraffic, panelAlive, churned>>

(* sync() of the same controller runs only between two pushes. *)
Syncing == \A u \in Users : report[u] = NotReported

(* get_alive_list + replace_panel_alive. *)
ReplacePanelAlive ==
    /\ Syncing
    /\ panelAlive' \in [Users -> PanelCounts]
    /\ UNCHANGED <<member, limit, conn, alive, aliveTraffic, report, churned>>

(* A user list that changes a limit is published. *)
SetLimit(u, lim) ==
    /\ Syncing
    /\ u \in member
    /\ limit' = [limit EXCEPT ![u] = lim]
    /\ UNCHANGED <<member, conn, alive, aliveTraffic, panelAlive, report, churned>>

(* A user list without the user is published, then reconcile_users (or
   remove_users) forgets the user, also one that was admitted after an earlier
   list had dropped it.  Connections and their guards stay. *)
RemoveUser(u) ==
    /\ Syncing
    /\ member' = member \ {u}
    /\ churned' = churned \cup {u}
    /\ alive' = [alive EXCEPT ![u] = [ip \in IPs |-> 0]]
    /\ aliveTraffic' = [aliveTraffic EXCEPT ![u] = 0]
    /\ panelAlive' = [panelAlive EXCEPT ![u] = 0]
    /\ UNCHANGED <<limit, conn, report>>

(* The panel lists the user again. *)
AddUser(u) ==
    /\ Syncing
    /\ u \notin member
    /\ member' = member \cup {u}
    /\ UNCHANGED <<limit, conn, alive, aliveTraffic, panelAlive, report, churned>>

-----------------------------------------------------------------------------
Init ==
    /\ member = Users
    /\ limit \in [Users -> Limits]
    /\ conn = [c \in Conns |-> Closed]
    /\ alive = [u \in Users |-> [ip \in IPs |-> 0]]
    /\ aliveTraffic = [u \in Users |-> 0]
    /\ panelAlive = [u \in Users |-> 0]
    /\ report = [u \in Users |-> NotReported]
    /\ churned = {}

Next ==
    \/ \E c \in Conns :
          \/ \E u \in Users, ip \in IPs : Authenticate(c, u, ip)
          \/ Admit(c) \/ Refuse(c) \/ AddTraffic(c) \/ Close(c)
    \/ SnapshotAlive \/ CommitAlive \/ AliveFailed \/ ReplacePanelAlive
    \/ \E u \in Users : \/ \E lim \in Limits : SetLimit(u, lim)
                        \/ RemoveUser(u) \/ AddUser(u)

Spec == Init /\ [][Next]_vars

-----------------------------------------------------------------------------
(* Properties. *)

(* The type of the state; online traffic is kept only for users with an
   address. *)
TypeOK ==
    /\ member \subseteq Users
    /\ limit \in [Users -> Limits]
    /\ conn \in [Conns -> Connection]
    /\ alive \in [Users -> [IPs -> Nat]]
    /\ aliveTraffic \in [Users -> 0..MaxTraffic]
    /\ panelAlive \in [Users -> PanelCounts \cup {0}]
    /\ report \in [Users -> 0..NotReported]
    /\ churned \subseteq Users
    /\ \A u \in Users : LocalIPs(u) = {} => aliveTraffic[u] = 0

(* A device slot is never leaked: the tracker never counts more guards for an
   address than there are open connections, also when users are deleted and
   re-created under their open connections. *)
NoLeakedSlot ==
    \A u \in Users, ip \in IPs : alive[u][ip] <= Cardinality(OpenOn(u, ip))

(* docs/v2board-runtime-support.md: existing local connections are tracked
   exactly, as long as their user has not been deleted under them; and no
   deletion leaks a slot. *)
TrackedExactly ==
    /\ NoLeakedSlot
    /\ \A u \in Users \ churned, ip \in IPs : alive[u][ip] = Cardinality(OpenOn(u, ip))

Admitted(c) == conn[c].phase = "authenticated" /\ conn'[c].phase = "open"

(* docs/v2board-runtime-support.md: device_limit counts currently connected
   distinct source IPs and the panel's aggregate before a new distinct local
   address is admitted.  A connection from a new address never takes the user
   past the limit the connection authenticated with.  (The connections of a user
   who was deleted and listed again are no longer counted, so this is stated for
   users who were not.) *)
LimitRespected ==
    [][\A c \in Conns :
          LET u == conn[c].uid  lim == conn[c].limit
          IN  Admitted(c) /\ u \notin churned /\ lim > 0 /\ conn[c].ip \notin OpenIPs(u)
              => Cardinality(OpenIPs(u)) < lim /\ panelAlive[u] < lim]_vars

(* A further connection from an address the user is connected from is not
   refused by the limit, whatever the panel reports and however the limit
   changes between authentication and admission (deleted users excepted, whose
   connections are no longer counted). *)
ReuseAdmitted ==
    \A c \in Conns :
        /\ conn[c].phase = "authenticated"
        /\ conn[c].uid \notin churned
        /\ conn[c].ip \in OpenIPs(conn[c].uid)
        => Admits(conn[c].uid, conn[c].ip, conn[c].limit)

=============================================================================
