--------------------------- MODULE NodeController ---------------------------
(***************************************************************************)
(* The controller of one Shadowsocks node: restore_lkg, the pull that       *)
(* fetches configuration, plugin manifest, user list and alive list, applies *)
(* what changed and saves it, and the plugin status report.  Every request  *)
(* to the panel is a step of its own, and the panel may change in between.  *)
(*                                                                         *)
(* RuntimeGraph and LkgStore describe the replacement of listeners and the  *)
(* snapshot on disk in detail; here a replacement succeeds, fails and keeps *)
(* the old generation, or fails and loses it, and the disk is one record.   *)
(* A node of another type skips the plugin manifest and is otherwise alike. *)
(*                                                                         *)
(* A user list maps ids to rows, Absent included; revision r of the panel   *)
(* is element r of lists; revision 0 stands for None and asks since=0.      *)
(***************************************************************************)
EXTENDS Naturals, Sequences, FiniteSets

CONSTANTS
    Uids,        \* user ids
    Rows,        \* what the panel may list for one user
    Absent,      \* the row of a user that is not listed
    Limited,     \* rows with a device limit
    FirstList,   \* the panel's user list at revision 1
    None,        \* no value
    MaxChanges,  \* bound: changes of the panel
    MaxFaults    \* bound: failed requests, applications, saves; crashes

ASSUME NodeConstants ==
    /\ Absent \in Rows \ Limited
    /\ Limited \subseteq Rows
    /\ IsFiniteSet(Uids)
    /\ FirstList \in [Uids -> Rows]
    /\ MaxChanges \in Nat
    /\ MaxFaults \in Nat

VARIABLES
    config,   \* the panel's /config: settings and plugin revision
    lists,    \* the panel's user list at each revision
    style,    \* whether the panel sends ETags, and revisions with deltas
    mem,      \* the controller's cached values and validators
    next,     \* the next_* variables of the running sync
    pc,       \* "boot", "idle" or the step of sync that comes next
    runtime,  \* the configuration the listeners run, or None
    table,    \* the user table the listeners read, or None
    disk,     \* the snapshot a restart would load, or None
    changes,  \* changes of the panel so far
    faults    \* faults so far

panel == <<config, lists, style, changes>>
node == <<mem, next, runtime, table, disk>>
vars == <<config, lists, style, mem, next, pc, runtime, table, disk, changes, faults>>

UserList == [Uids -> Rows]
Config == [net : 0..1, plug : 0..MaxChanges]
Revs == 0..(MaxChanges + 1)
Delta == UNION {[D -> Rows] : D \in SUBSET Uids}

Body == [full : BOOLEAN, rows : Delta, rev : Revs]

Snapshot == [cfg : Config, cfgTag : Config \cup {None}, users : UserList,
             userTag : Revs \cup {None}, rev : Revs, plug : 0..MaxChanges]

(* The cached values and validators of the controller. *)
Cached == [cfg : Config \cup {None}, cfgTag : Config \cup {None},
           users : UserList \cup {None}, userTag : Revs \cup {None}, rev : Revs,
           hash : Body \cup {None}, plug : 0..MaxChanges \cup {None},
           limited : 0..Cardinality(Uids),
           ready : 0..MaxChanges \cup {None}, force : BOOLEAN, pending : BOOLEAN]

(* The next_* variables of sync: a pull has always fetched a configuration. *)
Candidate == [cfg : Config, cfgTag : Config \cup {None}, users : UserList \cup {None},
              userTag : Revs \cup {None}, rev : Revs, hash : Body \cup {None},
              plug : 0..MaxChanges \cup {None}, limited : 0..Cardinality(Uids),
              delta : Delta \cup {None}, usersChanged : BOOLEAN, otherChanged : BOOLEAN]

(* None is no value it stands beside. *)
ASSUME NoneIsNoValue ==
    /\ None \notin Nat
    /\ None \notin UserList
    /\ None \notin Config
    /\ None \notin Body
    /\ None \notin Snapshot

Latest == lists[Len(lists)]

(* NodeController::new *)
Blank == [cfg |-> None, cfgTag |-> None, users |-> None, userTag |-> None, rev |-> 0,
          hash |-> None, plug |-> None, limited |-> 0,
          ready |-> None, force |-> FALSE, pending |-> FALSE]

(* What sync has found out so far: the next_* values, the delta, and whether
   the user list or anything else changed. *)
Unchanged == [cfg |-> mem.cfg, cfgTag |-> mem.cfgTag, users |-> mem.users,
              userTag |-> mem.userTag, rev |-> mem.rev, hash |-> mem.hash,
              plug |-> mem.plug, limited |-> mem.limited,
              delta |-> None, usersChanged |-> FALSE, otherChanged |-> FALSE]

(* merge_user_delta, apply_user_delta of the journal and the delta of a live
   table; module UserDelta has their algorithms. *)
Patched(users, delta) ==
    [u \in Uids |-> IF u \in DOMAIN delta THEN delta[u] ELSE users[u]]

Difference(old, new) ==
    [u \in {v \in Uids : old[v] # new[v]} |-> new[u]]

Count(users) == Cardinality({u \in Uids : users[u] \in Limited})

(* device_limit_count_after_delta *)
CountAfter(count, users, delta) ==
    count + Cardinality({u \in DOMAIN delta : users[u] \notin Limited /\ delta[u] \in Limited})
          - Cardinality({u \in DOMAIN delta : users[u] \in Limited /\ delta[u] \notin Limited})

Fault ==
    /\ faults < MaxFaults
    /\ faults' = faults + 1

(* sync returns early: nothing of next is kept. *)
Abandon ==
    /\ pc' = "idle"
    /\ next' = None

----------------------------------------------------------------------------
(* The panel changes a setting (or changes it back), the plugin profile, or
   one user. *)
PanelChange ==
    /\ changes < MaxChanges
    /\ changes' = changes + 1
    /\ \/ /\ config' = [config EXCEPT !.net = 1 - @]
          /\ UNCHANGED lists
       \/ /\ config' = [config EXCEPT !.plug = @ + 1]
          /\ UNCHANGED lists
       \/ \E u \in Uids, r \in Rows :
             /\ r # Latest[u]
             /\ lists' = Append(lists, [Latest EXCEPT ![u] = r])
             /\ UNCHANGED config
    /\ UNCHANGED <<style, node, pc, faults>>

----------------------------------------------------------------------------
(* sync, one request after the other. *)

(* A request fails or its answer cannot be read.  A failed alive list also
   invalidates the user cache if there is no list: then it is empty. *)
RequestFails ==
    /\ pc \in {"idle", "plugin", "users", "alive"}
    /\ Fault
    /\ Abandon
    /\ UNCHANGED <<panel, mem, runtime, table, disk>>

(* The ETag of an answer. *)
Tag(version) == IF style.tags THEN version ELSE None

(* get_server_config: 304 for the ETag sent, or the configuration. *)
FetchConfig ==
    /\ pc = "idle"
    /\ pc' = "plugin"
    /\ IF mem.cfgTag = config
       THEN next' = Unchanged
       ELSE next' = [Unchanged EXCEPT !.cfg = config, !.cfgTag = Tag(config),
                                      !.otherChanged = mem.cfg # config]
    /\ UNCHANGED <<panel, mem, runtime, table, disk, faults>>

(* get_plugin_config: 304 unless a refresh is forced, or the manifest. *)
FetchPlugin ==
    /\ pc = "plugin"
    /\ pc' = "users"
    /\ IF ~mem.force /\ mem.plug = config.plug
       THEN UNCHANGED next
       ELSE next' = [next EXCEPT !.plug = config.plug,
                                 !.otherChanged = @ \/ mem.plug # config.plug]
    /\ UNCHANGED <<panel, mem, runtime, table, disk, faults>>

(* The decoded user list: a full one replaces the cached list, a delta is
   merged into it; neither counts as a change if no row differs. *)
Decoded(body, tag) ==
    LET seen == [next EXCEPT !.userTag = tag, !.rev = body.rev, !.hash = body]
        merged == Patched(mem.users, body.rows)
    IN  IF body.full
        THEN [seen EXCEPT !.users = body.rows,
                          !.usersChanged = body.rows # mem.users,
                          !.limited = IF body.rows = mem.users THEN @ ELSE Count(body.rows)]
        ELSE [seen EXCEPT !.users = merged,
                          !.usersChanged = merged # mem.users,
                          !.delta = IF merged = mem.users THEN None ELSE body.rows,
                          !.limited = CountAfter(@, mem.users, body.rows)]

(* The answers of the panel to a request since mem.rev: the list, or the
   delta from a revision it has given out. *)
Answers ==
    {[full |-> TRUE, rows |-> Latest, rev |-> IF style.deltas THEN Len(lists) ELSE 0]}
        \cup (IF mem.rev = 0 THEN {}
              ELSE {[full |-> FALSE, rows |-> Difference(lists[mem.rev], Latest),
                     rev |-> Len(lists)]})

AfterUsers(n) ==
    /\ next' = n
    /\ pc' = IF n.limited > 0 THEN "alive" ELSE "apply"

(* 304, or a body with the ETag sent. *)
FetchUsersSame ==
    /\ pc = "users"
    /\ mem.userTag = Len(lists)
    /\ AfterUsers(next)
    /\ UNCHANGED <<panel, mem, runtime, table, disk, faults>>

(* get_user_list: a body with the digest of the last one is not decoded. *)
FetchUsers ==
    /\ pc = "users"
    /\ mem.userTag # Len(lists)
    /\ \E body \in Answers :
          AfterUsers(IF mem.hash = body THEN [next EXCEPT !.userTag = Tag(Len(lists))]
                     ELSE Decoded(body, Tag(Len(lists))))
    /\ UNCHANGED <<panel, mem, runtime, table, disk, faults>>

(* A delta without a cached list: invalidate_user_cache, and the next pull
   asks for everything. *)
FetchUsersBaseless ==
    /\ pc = "users"
    /\ mem.users = None
    /\ Fault
    /\ Abandon
    /\ mem' = [mem EXCEPT !.userTag = None, !.rev = 0, !.hash = None, !.users = None]
    /\ UNCHANGED <<panel, runtime, table, disk>>

(* get_alive_list, asked for when a user has a device limit. *)
FetchAlive ==
    /\ pc = "alive"
    /\ pc' = "apply"
    /\ UNCHANGED <<panel, mem, next, runtime, table, disk, faults>>

----------------------------------------------------------------------------
(* The second half of sync. *)

(* A bug: a node without a runtime waits for the panel to change. *)
ChangedOnly == next.usersChanged \/ next.otherChanged

(* applied_generation: something changed, or there is no runtime. *)
NewGeneration == next.usersChanged \/ next.otherChanged \/ runtime = None

(* users_only: published into the running listeners. *)
UsersOnly == next.usersChanged /\ ~next.otherChanged /\ runtime # None

(* prepare_shadowsocks_plugin_nodes rejects the pair. *)
Incoherent == next.cfg.plug # next.plug

(* The validators and values are committed; what comes next is the save. *)
Commit(ready) ==
    /\ mem' = [cfg |-> next.cfg, cfgTag |-> next.cfgTag, users |-> next.users,
               userTag |-> next.userTag, rev |-> next.rev, hash |-> next.hash,
               plug |-> next.plug, limited |-> next.limited,
               ready |-> ready, force |-> FALSE, pending |-> mem.pending]
    /\ IF NewGeneration \/ mem.pending
       THEN pc' = "save" /\ UNCHANGED next
       ELSE Abandon

(* refresh_users_delta: the delta into the live table, or a table built anew. *)
Refresh ==
    /\ pc = "apply"
    /\ UsersOnly
    /\ \/ /\ next.delta # None
          /\ table' = Patched(table, next.delta)
       \/ table' = next.users
    /\ Commit(mem.ready)
    /\ UNCHANGED <<panel, runtime, disk, faults>>

(* apply_runtime with a replacement that succeeds. *)
Apply ==
    /\ pc = "apply"
    /\ NewGeneration /\ ~UsersOnly
    /\ ~Incoherent
    /\ runtime' = next.cfg
    /\ table' = next.users
    /\ Commit(next.plug)
    /\ UNCHANGED <<panel, disk, faults>>

(* Nothing changed: only validators are committed. *)
Keep ==
    /\ pc = "apply"
    /\ ~NewGeneration
    /\ Commit(mem.ready)
    /\ UNCHANGED <<panel, runtime, table, disk, faults>>

(* A bug: the validators of a failed candidate are kept. *)
RejectCommits ==
    /\ pc = "apply"
    /\ NewGeneration /\ ~UsersOnly
    /\ Incoherent
    /\ Abandon
    /\ mem' = [mem EXCEPT !.cfg = next.cfg, !.cfgTag = next.cfgTag]
    /\ UNCHANGED <<panel, runtime, table, disk, faults>>

(* The manifest does not belong to the configuration. *)
Reject ==
    /\ pc = "apply"
    /\ NewGeneration /\ ~UsersOnly
    /\ Incoherent
    /\ Abandon
    /\ UNCHANGED <<panel, mem, runtime, table, disk, faults>>

(* A bug: the user validators are committed before the listeners run. *)
ApplyFailsCommits ==
    /\ pc = "apply"
    /\ NewGeneration
    /\ Fault
    /\ runtime' \in IF UsersOnly THEN {runtime} ELSE {runtime, None}
    /\ Abandon
    /\ mem' = [mem EXCEPT !.userTag = next.userTag, !.rev = next.rev]
    /\ UNCHANGED <<panel, table, disk>>

(* The mapping or the replacement fails.  The old generation is kept or
   restored, or lost with a failed rollback; the table is left alone. *)
ApplyFails ==
    /\ pc = "apply"
    /\ NewGeneration
    /\ Fault
    /\ runtime' \in IF UsersOnly THEN {runtime} ELSE {runtime, None}
    /\ Abandon
    /\ UNCHANGED <<panel, mem, table, disk>>

----------------------------------------------------------------------------
(* The save at the end of sync. *)

SnapshotOf(m) == [cfg |-> m.cfg, cfgTag |-> m.cfgTag, users |-> m.users,
                  userTag |-> m.userTag, rev |-> m.rev, plug |-> m.plug]

(* A delta is appended to the journal only if nothing else is owed. *)
Appendable ==
    /\ ~mem.pending
    /\ ~next.otherChanged
    /\ next.delta # None
    /\ mem.rev > 0

(* append_user_delta: what a restart then recovers. *)
Appended ==
    IF disk = None THEN None
    ELSE [disk EXCEPT !.users = Patched(@, next.delta), !.rev = mem.rev,
                      !.userTag = mem.userTag]

(* The journal record, or the whole snapshot: also when the journal is full
   or refuses the record. *)
Written == {SnapshotOf(mem)} \cup (IF Appendable THEN {Appended} ELSE {})

Save ==
    /\ pc = "save"
    /\ disk' \in Written
    /\ mem' = [mem EXCEPT !.pending = FALSE]
    /\ Abandon
    /\ UNCHANGED <<panel, runtime, table, faults>>

(* A bug: the failed save is not remembered. *)
SaveFailsSilently ==
    /\ pc = "save"
    /\ Fault
    /\ disk' \in Written \cup {disk}
    /\ Abandon
    /\ UNCHANGED <<panel, mem, runtime, table>>

(* The save fails, with or without an effect on the disk, and is owed. *)
SaveFails ==
    /\ pc = "save"
    /\ Fault
    /\ disk' \in Written \cup {disk}
    /\ mem' = [mem EXCEPT !.pending = TRUE]
    /\ Abandon
    /\ UNCHANGED <<panel, runtime, table>>

----------------------------------------------------------------------------
(* push_plugin_status: the panel answers 409 to a revision that is not its
   own, and the next pull fetches the manifest unconditionally. *)
StatusRefused ==
    /\ pc = "idle"
    /\ mem.ready \notin {None, config.plug}
    /\ ~mem.force
    /\ mem' = [mem EXCEPT !.force = TRUE]
    /\ UNCHANGED <<panel, next, pc, runtime, table, disk, faults>>

(* restore_lkg before the first pull. *)
Boot ==
    /\ pc = "boot"
    /\ pc' = "idle"
    /\ IF disk = None
       THEN UNCHANGED <<mem, runtime, table, faults>>
       ELSE \/ /\ runtime' = disk.cfg
               /\ table' = disk.users
               /\ mem' = [Blank EXCEPT !.cfg = disk.cfg, !.cfgTag = disk.cfgTag,
                                       !.users = disk.users, !.userTag = disk.userTag,
                                       !.rev = disk.rev, !.plug = disk.plug,
                                       !.ready = disk.plug, !.limited = Count(disk.users)]
               /\ UNCHANGED faults
            \/ /\ Fault
               /\ UNCHANGED <<mem, runtime, table>>
    /\ UNCHANGED <<panel, next, disk>>

(* The process ends, by a crash at any step or by a shutdown. *)
Crash ==
    /\ pc # "boot"
    /\ Fault
    /\ pc' = "boot"
    /\ mem' = Blank
    /\ next' = None
    /\ runtime' = None
    /\ table' = None
    /\ UNCHANGED <<panel, disk>>

----------------------------------------------------------------------------
Init ==
    /\ config = [net |-> 0, plug |-> 0]
    /\ lists = <<FirstList>>
    /\ style \in [tags : BOOLEAN, deltas : BOOLEAN]
    /\ mem = Blank
    /\ next = None
    /\ pc = "boot"
    /\ runtime = None
    /\ table = None
    /\ disk = None
    /\ changes = 0
    /\ faults = 0

Pull ==
    \/ FetchConfig \/ FetchPlugin
    \/ FetchUsersSame \/ FetchUsers \/ FetchAlive
    \/ Refresh \/ Apply \/ Keep \/ Reject
    \/ Save

Next ==
    \/ PanelChange
    \/ Pull
    \/ RequestFails \/ FetchUsersBaseless \/ ApplyFails \/ SaveFails
    \/ StatusRefused
    \/ Boot
    \/ Crash

Spec == Init /\ [][Next]_vars

(* The pull timer ticks for ever, and every request returns. *)
FairSpec == Spec /\ WF_vars(Pull) /\ WF_vars(Boot)

----------------------------------------------------------------------------
TypeOK ==
    /\ config \in Config
    /\ lists \in Seq(UserList)
    /\ style \in [tags : BOOLEAN, deltas : BOOLEAN]
    /\ mem \in Cached
    /\ pc \in {"boot", "idle", "plugin", "users", "alive", "apply", "save"}
    /\ next \in IF pc \in {"boot", "idle"} THEN {None} ELSE Candidate
    /\ runtime \in Config \cup {None}
    /\ table \in UserList \cup {None}
    /\ disk \in Snapshot \cup {None}
    /\ changes \in 0..MaxChanges
    /\ faults \in 0..MaxFaults

(* The validators the next request carries describe what is cached, in memory
   and on disk: the list is the panel's at that revision and ETag, the
   configuration the one of that ETag.  One that ran ahead would make the
   panel answer 304, or a delta, against something the node does not hold. *)
Describes(m) ==
    /\ m.rev > 0 => m.users = lists[m.rev]
    /\ m.userTag # None => m.users = lists[m.userTag]
    /\ m.cfgTag # None => m.cfg = m.cfgTag

ValidatorsHonest ==
    /\ Describes(mem)
    /\ disk # None => Describes(disk)

(* app.rs says of the validators and values that they "describe the applied
   generation, not merely the most recently observed payload": what runs is
   what is cached, also after failed candidates, rollbacks and deltas put
   into the live table. *)
ServesCache ==
    runtime # None =>
        /\ runtime = mem.cfg
        /\ table = mem.users
        /\ mem.ready = runtime.plug
        /\ mem.plug = mem.ready

(* "The snapshot's contents stay correct, because everything that changes
   them sets applied_generation": unless a save is running or owed, a
   restart recovers what is applied. *)
SavedUnlessOwed ==
    pc # "save" /\ mem.users # None /\ ~mem.pending =>
        /\ disk # None
        /\ disk.cfg = mem.cfg
        /\ disk.users = mem.users
        /\ disk.plug = mem.plug

(* The count that decides whether the alive list is fetched is kept up to
   date delta by delta and never drifts from the list. *)
LimitedCountExact ==
    mem.users # None => mem.limited = Count(mem.users)

(* "A failed candidate keeps the prior applied revision and runtime", and
   ready is reported only for the committed runtime: what the next status
   report calls ready is running. *)
ReadyMeansRunning ==
    pc = "idle" /\ mem.ready # None => runtime # None

(* Once the panel is quiet and requests succeed, the node serves the panel's
   configuration and users, from whatever state it was left in. *)
Converges ==
    <>[](runtime = config /\ table = Latest)
=============================================================================
