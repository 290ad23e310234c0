----------------------------- MODULE UserDelta -----------------------------
(***************************************************************************)
(* The algorithms that carry a user delta into four representations of the  *)
(* same list: the controller's sorted vector (merge_user_delta, with its    *)
(* in-place and its batch path), the vector a restart replays from the      *)
(* journal, the number of device-limited users, and the live AEAD2022 table *)
(* with its two indexes.  A delta the live table refuses changes none.      *)
(*                                                                         *)
(* A user is a row: an id, the key that identifies it on the wire, and its  *)
(* kind: "plain", "limited" (a device limit) or "off" (disabled).  The      *)
(* reference is want, a function from ids to rows, NoUser for no row.         *)
(***************************************************************************)
EXTENDS Naturals, Sequences, FiniteSets, SequencesExt, FiniteSetsExt

CONSTANTS
    Ids,           \* user ids, numbers
    Payloads,      \* records of a key and a kind
    NoUser,          \* no user
    InPlaceLimit,  \* IN_PLACE_CHANGE_LIMIT
    MaxUpdates,    \* bound: rows of a delta
    MaxRemoved     \* bound: removed ids of a delta

ASSUME DeltaConstants ==
    /\ Ids \subseteq Nat /\ IsFiniteSet(Ids)
    /\ \A p \in Payloads : p.kind \in {"plain", "limited", "off"}
    /\ InPlaceLimit \in Nat
    /\ MaxUpdates \in Nat
    /\ MaxRemoved \in Nat

VARIABLES
    want,     \* the reference: what the deltas accepted so far amount to
    users,    \* NodeController::users
    replayed, \* the list a restart recovers from base and journal
    count,    \* device_limited_user_count
    live,     \* ShadowsocksUsers: keys, by_uid, by_user_hash
    last      \* the last answer: does its list have a clash, and what was decided

deltaVars == <<want, users, replayed, count, live, last>>

Row == {[id |-> i, key |-> p.key, kind |-> p.kind] : i \in Ids, p \in Payloads}
Keys == {p.key : p \in Payloads}
UserMap == {m \in [Ids -> Row \cup {NoUser}] : \A i \in Ids : m[i] # NoUser => m[i].id = i}

UpTo(S, n) == UNION {[1..k -> S] : k \in 0..n}
Updates == UpTo(Row, MaxUpdates)
Removals == UpTo(Ids, MaxRemoved)

Active(row) == row.kind # "off"
IsLimited(row) == row.kind = "limited"
RowsOf(map) == {map[i] : i \in Ids} \ {NoUser}

ASSUME NoUserIsNoRow == NoUser \notin Row

(* Rows in the order of their ids: the n-th has n - 1 rows before it. *)
Sorted(rows) ==
    [n \in 1..Cardinality(rows) |->
        CHOOSE r \in rows : Cardinality({s \in rows : s.id < r.id}) = n - 1]

(* The elements of a sequence at some places, in their order. *)
KeptAt(seq, places) ==
    LET kept[n \in 0..Len(seq)] ==
            IF n = 0 THEN <<>>
            ELSE IF n \in places THEN Append(kept[n - 1], seq[n]) ELSE kept[n - 1]
    IN  kept[Len(seq)]

----------------------------------------------------------------------------
(* The reference: the last update of an id counts, a removal wins. *)
LastUpdate(updates, id) == updates[Max({j \in DOMAIN updates : updates[j].id = id})]

PatchedBy(map, updates, removed) ==
    [i \in Ids |->
        IF i \in ToSet(removed) THEN NoUser
        ELSE IF \E j \in DOMAIN updates : updates[j].id = i THEN LastUpdate(updates, i)
        ELSE map[i]]

(* No two users that may connect have the same key. *)
KeysDistinct(rows) ==
    \A a, b \in rows : Active(a) /\ Active(b) /\ a.key = b.key => a.id = b.id

----------------------------------------------------------------------------
(* binary_search_by_key in a sorted vector: the index, or where to insert. *)
Has(vec, id) == \E i \in DOMAIN vec : vec[i].id = id
Position(vec, id) == 1 + Cardinality({i \in DOMAIN vec : vec[i].id < id})

Upsert(vec, row) ==
    IF Has(vec, row.id) THEN [vec EXCEPT ![Position(vec, row.id)] = row]
    ELSE InsertAt(vec, Position(vec, row.id), row)

Delete(vec, id) ==
    IF Has(vec, id) THEN RemoveAt(vec, Position(vec, id)) ELSE vec

(* One change after the other, the updates first: the vector after each. *)
OneByOne(vec, updates, removed) ==
    LET after[n \in 0..(Len(updates) + Len(removed))] ==
            IF n = 0 THEN vec
            ELSE IF n <= Len(updates) THEN Upsert(after[n - 1], updates[n])
            ELSE Delete(after[n - 1], removed[n - Len(updates)])
    IN  after

(* apply_user_delta of lkg.rs *)
ReplayJournal(vec, updates, removed) ==
    OneByOne(vec, updates, removed)[Len(updates) + Len(removed)]

(* The in-place path of merge_user_delta, and whether one of its changes changed
   the vector. *)
InPlace(vec, updates, removed) ==
    OneByOne(vec, updates, removed)[Len(updates) + Len(removed)]

InPlaceChanged(vec, updates, removed) ==
    LET after == OneByOne(vec, updates, removed)
        U == Len(updates)
    IN  \/ \E n \in 1..U : after[n] # after[n - 1]
        \/ \E n \in 1..Len(removed) : Has(after[U + n - 1], removed[n])

(* sort_by_key is stable, and dedup_by keeps the last row of an id. *)
Deduplicated(updates) ==
    Sorted({LastUpdate(updates, updates[j].id) : j \in DOMAIN updates})

(* The batch path: superseded rows are dropped in one pass, the updates that
   are not removed are appended, and the vector is sorted. *)
Batch(vec, updates, removed) ==
    LET latest == ToSet(Deduplicated(updates))
        gone == ToSet(removed)
        kept == KeptAt(vec, {n \in DOMAIN vec : /\ vec[n].id \notin gone
                                                /\ \A u \in latest : u.id # vec[n].id})
        sorted == Deduplicated(updates)
        added == KeptAt(sorted, {n \in DOMAIN sorted : sorted[n].id \notin gone})
    IN  IF added = <<>> THEN kept ELSE Sorted(ToSet(kept \o added))

(* What the batch path reports. *)
BatchChanged(vec, updates, removed) ==
    \/ \E u \in ToSet(Deduplicated(updates)) :
          IF Has(vec, u.id)
          THEN u.id \in ToSet(removed) \/ vec[Position(vec, u.id)] # u
          ELSE u.id \notin ToSet(removed)
    \/ \E id \in ToSet(removed) : Has(vec, id)

Small(updates, removed) == Len(updates) + Len(removed) <= InPlaceLimit

(* A bug: the batch path appends also the updates of removed ids. *)
MergeResurrects(vec, updates, removed) ==
    IF Small(updates, removed) THEN InPlace(vec, updates, removed)
    ELSE Batch(KeptAt(vec, {n \in DOMAIN vec : vec[n].id \notin ToSet(removed)}), updates, <<>>)

(* merge_user_delta *)
Merge(vec, updates, removed) ==
    IF Small(updates, removed) THEN InPlace(vec, updates, removed)
    ELSE Batch(vec, updates, removed)

MergeChanged(vec, updates, removed) ==
    IF Small(updates, removed) THEN InPlaceChanged(vec, updates, removed)
    ELSE BatchChanged(vec, updates, removed)

(* device_limit_count_after_delta *)
CountAfter(n, vec, updates, removed) ==
    LET touched == ToSet(removed) \cup {updates[j].id : j \in DOMAIN updates}
        Before(id) == Has(vec, id) /\ IsLimited(vec[Position(vec, id)])
        After(id) == id \notin ToSet(removed) /\ IsLimited(LastUpdate(updates, id))
    IN  n + Cardinality({id \in touched : ~Before(id) /\ After(id)})
          - Cardinality({id \in touched : Before(id) /\ ~After(id)})

----------------------------------------------------------------------------
(* The live table. *)

(* for_each_runtime_user skips disabled rows. *)
ActiveRows(seq) == KeptAt(seq, {n \in DOMAIN seq : Active(seq[n])})

Table(keys) ==
    [keys |-> keys,
     byUid |-> [i \in {row.id : row \in ToSet(keys)} |->
                   CHOOSE n \in DOMAIN keys : keys[n].id = i],
     byHash |-> [k \in {row.key : row \in ToSet(keys)} |->
                   CHOOSE n \in DOMAIN keys : keys[n].key = k]]

Less(f, x) == [y \in DOMAIN f \ {x} |-> f[y]]
PutUser(f, x, v) == [y \in DOMAIN f \cup {x} |-> IF y = x THEN v ELSE f[y]]

(* effective_delta_updates *)
EffectiveUpdates(updates, removed) ==
    KeptAt(updates, {j \in DOMAIN updates :
                        /\ updates[j].id \notin ToSet(removed)
                        /\ \A k \in DOMAIN updates : k > j => updates[k].id # updates[j].id})

(* effective_delta_removed: disabled rows are removed too. *)
EffectiveRemoved(updates, removed) ==
    Sorted({[id |-> i] : i \in ToSet(removed) \cup
                               {row.id : row \in {r \in ToSet(updates) : ~Active(r)}}})

(* remove_uid: the last row takes the freed place. *)
RemoveUid(table, uid) ==
    IF uid \notin DOMAIN table.byUid THEN table
    ELSE LET n == table.byUid[uid]
             end == Len(table.keys)
             moved == table.keys[end]
             uids == Less(table.byUid, uid)
             hashes == Less(table.byHash, table.keys[n].key)
         IN  IF n = end
             THEN [keys |-> SubSeq(table.keys, 1, end - 1), byUid |-> uids, byHash |-> hashes]
             ELSE [keys |-> SubSeq([table.keys EXCEPT ![n] = moved], 1, end - 1),
                   byUid |-> PutUser(uids, moved.id, n),
                   byHash |-> PutUser(hashes, moved.key, n)]

Insert(table, row) ==
    [keys |-> Append(table.keys, row),
     byUid |-> PutUser(table.byUid, row.id, Len(table.keys) + 1),
     byHash |-> PutUser(table.byHash, row.key, Len(table.keys) + 1)]

(* validate_aead2022_delta *)
Validate(table, additions, gone) ==
    LET incoming == {row.id : row \in ToSet(additions)}
    IN  /\ \A i, j \in DOMAIN additions : additions[i].key = additions[j].key => i = j
        /\ \A row \in ToSet(additions) :
              row.key \in DOMAIN table.byHash =>
                 table.keys[table.byHash[row.key]].id \in {row.id} \cup gone \cup incoming

(* The users of some rows removed, and some rows inserted, one after the other. *)
RemoveUids(table, rows) ==
    LET after[n \in 0..Len(rows)] ==
            IF n = 0 THEN table ELSE RemoveUid(after[n - 1], rows[n].id)
    IN  after[Len(rows)]

InsertRows(table, rows) ==
    LET after[n \in 0..Len(rows)] == IF n = 0 THEN table ELSE Insert(after[n - 1], rows[n])
    IN  after[Len(rows)]

(* apply_aead2022_delta_validated *)
ApplyDelta(table, additions, gone) ==
    InsertRows(RemoveUids(RemoveUids(table, additions), gone), additions)

----------------------------------------------------------------------------
(* A full answer in any order: prepare_full_user_list sorts it, and every
   representation is built anew.  A list with a key given twice is refused. *)
FullAnswer(map) ==
    LET list == Sorted(RowsOf(map))
    IN  /\ KeysDistinct(RowsOf(map))
        /\ want' = map
        /\ users' = list
        /\ replayed' = list
        /\ count' = Cardinality({r \in RowsOf(map) : IsLimited(r)})
        /\ live' = Table(ActiveRows(list))
        /\ last' = [clash |-> FALSE, accepted |-> TRUE, changed |-> list # users]

(* A delta answer: refresh_node_user_delta first, then the rest. *)
DeltaAnswer(updates, removed) ==
    LET additions == ActiveRows(EffectiveUpdates(updates, removed))
        gone == EffectiveRemoved(EffectiveUpdates(updates, removed), removed)
        changed == MergeChanged(users, updates, removed)
        accepted == changed => Validate(live, additions, {g.id : g \in ToSet(gone)})
    IN  /\ last' = [clash |-> ~KeysDistinct(RowsOf(PatchedBy(want, updates, removed))),
                    accepted |-> accepted, changed |-> changed]
        /\ IF accepted
           THEN /\ want' = PatchedBy(want, updates, removed)
                /\ users' = Merge(users, updates, removed)
                /\ replayed' = IF changed THEN ReplayJournal(replayed, updates, removed)
                               ELSE replayed
                /\ count' = CountAfter(count, users, updates, removed)
                /\ live' = IF changed THEN ApplyDelta(live, additions, gone) ELSE live
           ELSE UNCHANGED <<want, users, replayed, count, live>>

DeltaInit ==
    /\ want = [i \in Ids |-> NoUser]
    /\ users = <<>>
    /\ replayed = <<>>
    /\ count = 0
    /\ live = Table(<<>>)
    /\ last = [clash |-> FALSE, accepted |-> TRUE, changed |-> TRUE]

DeltaNext ==
    \/ \E map \in UserMap : FullAnswer(map)
    \/ \E updates \in Updates, removed \in Removals : DeltaAnswer(updates, removed)

DeltaSpec == DeltaInit /\ [][DeltaNext]_deltaVars

----------------------------------------------------------------------------
DeltaTypeOK ==
    /\ want \in UserMap
    /\ users \in Seq(Row)
    /\ replayed \in Seq(Row)
    /\ count \in 0..Cardinality(Ids)
    /\ live.keys \in Seq(Row)
    /\ \A i \in DOMAIN live.byUid : live.byUid[i] \in DOMAIN live.keys
    /\ \A k \in DOMAIN live.byHash : live.byHash[k] \in DOMAIN live.keys
    /\ last \in [clash : BOOLEAN, accepted : BOOLEAN, changed : BOOLEAN]

(* Whichever path a delta takes, in place or batch, with ids repeated and
   both updated and removed, the vector is the reference list in the order
   every binary search relies on.  (merge_user_delta.) *)
MergeExact == users = Sorted(RowsOf(want))

(* Replaying the journal gives the list that was applied, although it is
   another implementation and skips deltas that changed nothing.
   (apply_user_delta.) *)
ReplayAgrees == replayed = users

(* The count kept from delta to delta is the one a recount would give.
   (device_limit_count_after_delta.) *)
CountAgrees == count = Cardinality({r \in RowsOf(want) : IsLimited(r)})

(* The live table holds exactly the users that may connect, and both indexes
   lead to the row they name after any sequence of swap removals, key swaps
   and disabled rows.  (refresh_node_user_delta, remove_uid.) *)
LiveExact ==
    /\ Len(live.keys) = Cardinality(ToSet(live.keys))
    /\ ToSet(live.keys) = {r \in RowsOf(want) : Active(r)}
    /\ DOMAIN live.byUid = {r.id : r \in ToSet(live.keys)}
    /\ DOMAIN live.byHash = {r.key : r \in ToSet(live.keys)}
    /\ \A i \in DOMAIN live.byUid : live.keys[live.byUid[i]].id = i
    /\ \A k \in DOMAIN live.byHash : live.keys[live.byHash[k]].key = k

(* A delta is refused exactly when the list it leads to gives one key to two
   users: key swaps and hand-overs inside one delta are accepted, and a clash
   never gets in.  (validate_aead2022_delta.) *)
RefusedIffClash == last.accepted = ~last.clash

(* After every delta the merged list of the controller, the replayed journal, the
   counter of limited users and the live AEAD2022 table describe the same users,
   and a delta is refused exactly when it would give one key to two users. *)
DeltasAgree ==
    DeltaTypeOK /\ MergeExact /\ ReplayAgrees /\ CountAgrees /\ LiveExact /\ RefusedIffClash
=============================================================================
