------------------------------ MODULE LkgStore ------------------------------
(***************************************************************************)
(* The last-known-good store of one node: a base snapshot, the journal of  *)
(* user deltas behind it, the snapshot of the previous encoding, and the   *)
(* end of sync() that decides what is written.  Every system call that     *)
(* changes a file is a step; the process may die between any two.          *)
(*                                                                         *)
(* A user list is a function from user ids to versions of a user, Absent   *)
(* included.  Revision 0 stands for None: the code never skips a record    *)
(* against it and asks the panel with since=0.                             *)
(***************************************************************************)
EXTENDS Naturals, Sequences, SequencesExt

CONSTANTS
    Uids,         \* user ids
    Versions,     \* what the panel may publish for one user
    Absent,       \* the version of a user that is not listed
    Configs,      \* server (and plugin) configurations
    None,         \* no snapshot
    CompactLen,   \* journal records at which an append asks for compaction
    MaxRev,       \* bound: revisions of the panel
    MaxCrashes,   \* bound: crashes
    MigrationMayFail  \* TRUE: the save of a migrated snapshot may fail

ASSUME LkgConstants ==
    /\ Absent \in Versions
    /\ CompactLen \in Nat \ {0}
    /\ MaxRev \in Nat \ {0}
    /\ MaxCrashes \in Nat
    /\ MigrationMayFail \in BOOLEAN

VARIABLES
    panel,    \* the panel's user list at each revision
    mem,      \* the controller's snapshot, or None
    pending,  \* lkg_persist_pending
    base,     \* the .mpk file: a snapshot or None
    journal,  \* the .journal file: records, possibly torn ones
    legacy,   \* the .json file: a snapshot or None
    job,      \* "load" until restore_lkg has returned, then "save"
    pc,       \* the next step of the job
    out,      \* the record being appended
    crashes   \* number of crashes so far

lkgVars == <<panel, mem, pending, base, journal, legacy, job, pc, out, crashes>>

UserList == [Uids -> Versions]
Snapshot == [cfg : Configs, users : UserList, rev : 0..MaxRev]
Delta == UNION {[D -> Versions] : D \in SUBSET Uids}

ASSUME NoneIsNoSnapshot ==
    None \notin Snapshot /\ None \notin Configs \X UserList

(* A complete record; a torn one fails the length or the checksum test. *)
Record == [rev : 1..MaxRev, delta : Delta]
Torn == [rev |-> 0, delta |-> <<>>]

Latest == panel[Len(panel)]

(* apply_user_delta *)
Patched(users, delta) ==
    [u \in Uids |-> IF u \in DOMAIN delta THEN delta[u] ELSE users[u]]

(* The users a delta response lists. *)
Difference(old, new) ==
    [u \in {v \in Uids : old[v] # new[v]} |-> new[u]]

(* The records in front of the first torn one. *)
Readable(j) ==
    SubSeq(j, 1, SelectInSeq(j \o <<Torn>>, LAMBDA r : r = Torn) - 1)

(* A bug: a record is applied also when the base contains it. *)
AlwaysApplied(s, r) == [s EXCEPT !.users = Patched(@, r.delta), !.rev = r.rev]

(* One turn of the replay: a record at or below the revision reached so far is
   skipped. *)
Applied(s, r) ==
    IF s.rev > 0 /\ r.rev <= s.rev THEN s
    ELSE [s EXCEPT !.users = Patched(@, r.delta), !.rev = r.rev]

(* replay_user_delta_journal_blocking: the readable records, in order. *)
Replay(snapshot, j) ==
    LET after[n \in 0..Len(j)] ==
            IF n = 0 THEN snapshot ELSE Applied(after[n - 1], j[n])
    IN  after[Len(Readable(j))]

(* load: the base with its journal, or else the legacy snapshot alone. *)
Recovered ==
    IF base # None THEN Replay(base, journal) ELSE legacy

Contents(s) == IF s = None THEN None ELSE <<s.cfg, s.users>>

-----------------------------------------------------------------------------
(* The panel publishes a version of one user; its revision advances, also
   when the node's list does not change. *)
PanelChange ==
    /\ Len(panel) < MaxRev
    /\ \E u \in Uids, v \in Versions :
          panel' = Append(panel, [Latest EXCEPT ![u] = v])
    /\ UNCHANGED <<mem, pending, base, journal, legacy, job, pc, out, crashes>>

-----------------------------------------------------------------------------
(* The end of sync(), once the candidate is applied and the validators are
   committed. *)

(* A configuration or a full list that changes something: a new base. *)
SyncBase ==
    /\ job = "save" /\ pc = "idle"
    /\ \E c \in Configs :
          LET new == [cfg |-> c, users |-> Latest, rev |-> Len(panel)]
          IN  /\ Contents(new) # Contents(mem)
              /\ mem' = new
    /\ pc' = "rename"
    /\ UNCHANGED <<panel, pending, base, journal, legacy, job, out, crashes>>

(* A delta that changes something: a journal record, unless a full save is
   owed. *)
SyncDelta ==
    /\ job = "save" /\ pc = "idle"
    /\ mem # None
    /\ mem.rev \in 1..Len(panel)
    /\ LET delta == Difference(panel[mem.rev], Latest)
       IN  /\ Patched(mem.users, delta) # mem.users
           /\ mem' = [mem EXCEPT !.users = Patched(@, delta), !.rev = Len(panel)]
           /\ out' = IF pending THEN Torn ELSE [rev |-> Len(panel), delta |-> delta]
    /\ pc' = IF pending THEN "rename" ELSE "append"
    /\ UNCHANGED <<panel, pending, base, journal, legacy, job, crashes>>

(* Nothing changed (an unchanged full list, an empty delta): the revision is
   taken over in memory, and only an owed save is written. *)
SyncSame ==
    /\ job = "save" /\ pc = "idle"
    /\ mem # None
    /\ mem.users = Latest
    /\ mem' = [mem EXCEPT !.rev = Len(panel)]
    /\ pc' = IF pending THEN "rename" ELSE "idle"
    /\ UNCHANGED <<panel, pending, base, journal, legacy, job, out, crashes>>

-----------------------------------------------------------------------------
(* How a save ends: sync() keeps the pending bit, a migration only warns and
   restore_lkg goes on. *)
Done ==
    /\ pc' = IF job = "save" THEN "idle" ELSE "retire"
    /\ pending' = FALSE
    /\ out' = Torn

Failed ==
    /\ job = "load" => MigrationMayFail
    /\ pc' = IF job = "save" THEN "idle" ELSE "restore"
    /\ pending' = (job = "save")
    /\ out' = Torn

(* A bug: the journal is removed before the base is in place. *)
RenameAfterUnlink ==
    /\ pc = "rename"
    /\ \/ base' = mem /\ pc' = "unlink" /\ UNCHANGED <<pending, out, journal>>
       \/ base' = base /\ journal' = <<>> /\ Failed
    /\ UNCHANGED <<panel, mem, legacy, job, crashes>>

(* persist_blocking: temporary file, fsync, rename; the permissions are set
   after the rename. *)
Rename ==
    /\ pc = "rename"
    /\ \/ base' = mem /\ pc' = "unlink" /\ UNCHANGED <<pending, out>>
       \/ base' = mem /\ Failed
       \/ base' = base /\ Failed
    /\ UNCHANGED <<panel, mem, journal, legacy, job, crashes>>

(* The journal goes ... *)
Unlink ==
    /\ pc = "unlink"
    /\ \/ journal' = <<>> /\ pc' = "syncdir" /\ UNCHANGED <<pending, out>>
       \/ journal' = journal /\ Failed
    /\ UNCHANGED <<panel, mem, base, legacy, job, crashes>>

(* ... and the directory is synced. *)
SyncDir ==
    /\ pc = "syncdir"
    /\ Done \/ Failed
    /\ UNCHANGED <<panel, mem, base, journal, legacy, job, crashes>>

(* append_user_delta_blocking: a record that is too large is InvalidData and
   becomes a base; otherwise its bytes start to reach the file. *)
AppendBegin ==
    /\ pc = "append"
    /\ \/ journal' = journal /\ pc' = "rename" /\ out' = Torn /\ UNCHANGED pending
       \/ journal' = journal /\ Failed
       \/ journal' = Append(journal, Torn) /\ pc' = "appending" /\ UNCHANGED <<pending, out>>
    /\ UNCHANGED <<panel, mem, base, legacy, job, crashes>>

(* The record is complete and synced, and compaction follows when the journal
   is large; or a write or the sync fails. *)
AppendEnd ==
    /\ pc = "appending"
    /\ LET full == [journal EXCEPT ![Len(journal)] = out]
       IN  \/ /\ journal' = full
              /\ IF Len(full) >= CompactLen
                 THEN pc' = "rename" /\ out' = Torn /\ UNCHANGED pending
                 ELSE Done
           \/ journal' \in {journal, full} /\ Failed
    /\ UNCHANGED <<panel, mem, base, legacy, job, crashes>>

-----------------------------------------------------------------------------
(* The process dies: files stay, memory goes. *)
Crash ==
    /\ pc # "down"
    /\ crashes < MaxCrashes
    /\ crashes' = crashes + 1
    /\ mem' = None
    /\ pending' = FALSE
    /\ job' = "load"
    /\ pc' = "down"
    /\ out' = Torn
    /\ UNCHANGED <<panel, base, journal, legacy>>

(* load: a valid base retires the legacy file (best effort), replays the
   journal and truncates it at a torn record; without one the legacy snapshot
   is taken and migrated. *)
Boot ==
    /\ pc = "down"
    /\ mem' = Recovered
    /\ IF base # None
       THEN /\ pc' = "restore"
            /\ legacy' \in {legacy, None}
            /\ journal' = Readable(journal)
       ELSE /\ pc' = IF legacy # None THEN "rename" ELSE "restore"
            /\ UNCHANGED <<legacy, journal>>
    /\ UNCHANGED <<panel, pending, base, job, out, crashes>>

(* migrate_legacy_snapshot reads the new base back and retires the old one,
   best effort. *)
Retire ==
    /\ pc = "retire"
    /\ legacy' \in {legacy, None}
    /\ pc' = "restore"
    /\ UNCHANGED <<panel, mem, pending, base, journal, job, out, crashes>>

(* restore_lkg: the snapshot is applied, or that fails and the controller
   starts with an empty cache. *)
Restore ==
    /\ pc = "restore"
    /\ mem' \in {mem, None}
    /\ job' = "save"
    /\ pc' = "idle"
    /\ UNCHANGED <<panel, pending, base, journal, legacy, out, crashes>>

-----------------------------------------------------------------------------
Empty == [u \in Uids |-> Absent]

LkgInit ==
    /\ panel = <<Empty>>
    /\ mem = None
    /\ pending = FALSE
    /\ base = None
    /\ journal = <<>>
    /\ legacy \in {None} \cup [cfg : Configs, users : {Empty}, rev : {1}]
    /\ job = "load"
    /\ pc = "down"
    /\ out = Torn
    /\ crashes = 0

LkgNext ==
    \/ PanelChange
    \/ SyncBase \/ SyncDelta \/ SyncSame
    \/ Rename \/ Unlink \/ SyncDir \/ AppendBegin \/ AppendEnd
    \/ Crash \/ Boot \/ Retire \/ Restore

LkgSpec == LkgInit /\ [][LkgNext]_lkgVars

-----------------------------------------------------------------------------
(* Properties. *)

(* The type of the state; a record is out only while it is appended, and the
   last record of the journal is torn while its bytes are written. *)
LkgTypeOK ==
    /\ panel \in Seq(UserList)
    /\ mem \in Snapshot \cup {None}
    /\ pending \in BOOLEAN
    /\ base \in Snapshot \cup {None}
    /\ journal \in Seq(Record \cup {Torn})
    /\ legacy \in Snapshot \cup {None}
    /\ job \in {"load", "save"}
    /\ pc \in {"down", "idle", "rename", "unlink", "syncdir", "append",
               "appending", "retire", "restore"}
    /\ out \in Record \cup {Torn}
    /\ crashes \in 0..MaxCrashes
    /\ out # Torn <=> pc \in {"append", "appending"}
    /\ pc = "appending" => journal # <<>> /\ journal[Len(journal)] = Torn

(* A restart never serves a mixture: what load returns is the panel's list at
   exactly the revision it claims, so that the next delta the panel sends
   applies to the list it was computed against. *)
RecoveredConsistent ==
    Recovered # None =>
        Recovered.rev \in DOMAIN panel /\ Recovered.users = panel[Recovered.rev]

(* "Future records must not be appended behind an unreadable crash tail": a
   torn record is the last one of the journal, through failed appends, failed
   saves and crashes at every step. *)
TornIsLast ==
    \A i \in DOMAIN journal : journal[i] = Torn => i = Len(journal)

(* "Set when the on-disk snapshot is known to be behind the applied state": when
   no save runs and none is owed, a restart recovers what the node serves. *)
PendingMarksBehind ==
    job = "save" /\ pc = "idle" /\ ~pending /\ mem # None
        => Contents(Recovered) = Contents(mem)

(* After a crash between any two file operations of save, append or compaction a
   restart finds one revision and no mixture, the latest one unless a save is
   owed, and a torn record only at the end of the journal. *)
StoreConsistent == LkgTypeOK /\ RecoveredConsistent /\ TornIsLast /\ PendingMarksBehind

(* docs/v2board-shadowsocks-plugin-runtime.md: the applied state is atomically
   persisted and user-only deltas are durably appended.  The files implement a
   cell that survives a crash. *)
Cell ==
    INSTANCE DurableCell WITH
        Values <- Configs \X UserList,
        None <- None,
        applied <- IF job = "load" THEN None ELSE Contents(mem),
        stored <- Contents(Recovered),
        busy <- job = "save" /\ pc # "idle",
        behind <- pending

(* The store refines the cell: every step of it is a step of the cell or leaves
   the cell unchanged. *)
Implements == Cell!Spec
=============================================================================
