------------------------ MODULE NodeControllerProofs ------------------------
(***************************************************************************)
(* TLAPS proofs about NodeController.                                      *)
(***************************************************************************)
EXTENDS NodeController, FiniteSetTheorems, TLAPS

(* The panel's history: one list per revision, and the bounds on both. *)
PanelOK ==
    /\ Len(lists) \in 1..(changes + 1)
    /\ config.plug <= changes

(* What is true of the cached values and of a candidate alike: validators
   describe the values, the digest the last body, the counter the list. *)
InRange(m) ==
    /\ m.rev <= Len(lists)
    /\ m.userTag # None => m.userTag \in 1..Len(lists)

Digested(m) ==
    m.hash # None => /\ m.hash.rev = m.rev
                     /\ m.hash.full => m.users = m.hash.rows

Counted(m) ==
    m.limited = IF m.users = None THEN 0 ELSE Count(m.users)

Coherent(m) ==
    /\ Describes(m)
    /\ InRange(m)
    /\ Digested(m)
    /\ Counted(m)

(* A controller that has not started holds nothing. *)
BlankAtBoot ==
    pc = "boot" => mem = Blank /\ runtime = None /\ table = None

(* Until the manifest and the list arrive the candidate has the cached ones. *)
NotFetched ==
    /\ pc = "plugin" => next.plug = mem.plug
    /\ pc \in {"plugin", "users"} =>
          /\ next.users = mem.users
          /\ next.userTag = mem.userTag
          /\ next.rev = mem.rev
          /\ next.hash = mem.hash
          /\ next.limited = mem.limited
          /\ next.delta = None
          /\ ~next.usersChanged

(* A candidate differs from the cache exactly as its flags and delta say. *)
CandidateOK ==
    pc \in {"plugin", "users", "alive", "apply"} =>
        /\ Coherent(next)
        /\ ~next.usersChanged => next.users = mem.users
        /\ ~next.otherChanged => next.cfg = mem.cfg /\ next.plug = mem.plug
        /\ next.delta # None => /\ mem.users # None
                                /\ next.delta \in Delta
                                /\ next.users = Patched(mem.users, next.delta)

(* What has been fetched is known. *)
Fetched ==
    /\ pc \in {"users", "alive", "apply", "save"} => next.plug # None
    /\ pc \in {"alive", "apply", "save"} => next.users # None

(* While the save runs the candidate is committed, and a delta that would be
   appended leads from what is on disk to what is cached. *)
Saving ==
    pc = "save" =>
        /\ mem.cfg = next.cfg /\ mem.users = next.users /\ mem.plug = next.plug
        /\ mem.cfg.plug = mem.plug
        /\ Appendable => /\ disk # None
                         /\ disk.cfg = mem.cfg
                         /\ disk.plug = mem.plug
                         /\ Patched(disk.users, next.delta) = mem.users

(* What is on disk can be restored: the manifest belongs to the configuration. *)
DiskOK ==
    disk # None => Describes(disk) /\ InRange(disk) /\ disk.cfg.plug = disk.plug

IInv ==
    /\ TypeOK
    /\ PanelOK
    /\ Coherent(mem)
    /\ DiskOK
    /\ BlankAtBoot
    /\ NotFetched
    /\ CandidateOK
    /\ Fetched
    /\ Saving
    /\ ServesCache
    /\ SavedUnlessOwed

----------------------------------------------------------------------------
(* Facts about the operators. *)

(* A delta is a partial user list. *)
LEMMA DeltaIsPartial ==
    ASSUME NEW d
    PROVE  d \in Delta <=> \E D \in SUBSET Uids : d \in [D -> Rows]
BY DEF Delta

(* A full list is a delta as well: the type of a body covers both. *)
LEMMA ListIsDelta == UserList \subseteq Delta
BY DeltaIsPartial DEF UserList

(* Merging a delta into a list gives a list. *)
LEMMA PatchedType ==
    ASSUME NEW users \in UserList, NEW d \in Delta
    PROVE  Patched(users, d) \in UserList
<1>1. PICK D \in SUBSET Uids : d \in [D -> Rows]
  BY DeltaIsPartial
<1> QED
  BY <1>1 DEF Patched, UserList

(* The panel's delta between two revisions leads from one to the other. *)
LEMMA PatchedDifference ==
    ASSUME NEW old \in UserList, NEW new \in UserList
    PROVE  /\ Difference(old, new) \in Delta
           /\ Patched(old, Difference(old, new)) = new
<1> DEFINE D == {v \in Uids : old[v] # new[v]}
<1>1. /\ Difference(old, new) = [u \in D |-> new[u]]
      /\ D \in SUBSET Uids
  BY DEF Difference
<1>2. Difference(old, new) \in [D -> Rows]
  BY <1>1 DEF UserList
<1>3. Difference(old, new) \in Delta
  BY <1>1, <1>2, DeltaIsPartial
<1>4. Patched(old, Difference(old, new)) = [u \in Uids |-> new[u]]
  BY <1>1 DEF Patched
<1> QED
  BY <1>3, <1>4 DEF UserList

(* The number of limited users is a cardinality. *)
LEMMA CountType ==
    ASSUME NEW users
    PROVE  Count(users) \in 0..Cardinality(Uids)
<1> DEFINE S == {u \in Uids : users[u] \in Limited}
<1>1. IsFiniteSet(S) /\ Cardinality(S) <= Cardinality(Uids)
  BY NodeConstants, FS_Subset
<1> QED
  BY <1>1, NodeConstants, FS_CardinalityType DEF Count

(* device_limit_count_after_delta keeps the counter exact. *)
LEMMA CountAfterExact ==
    ASSUME NEW users \in UserList, NEW d \in Delta
    PROVE  CountAfter(Count(users), users, d) = Count(Patched(users, d))
<1> DEFINE S == {u \in Uids : users[u] \in Limited}
           T == {u \in Uids : Patched(users, d)[u] \in Limited}
           A == {u \in DOMAIN d : users[u] \notin Limited /\ d[u] \in Limited}
           B == {u \in DOMAIN d : users[u] \in Limited /\ d[u] \notin Limited}
<1>1. DOMAIN d \subseteq Uids
  BY DeltaIsPartial
<1>2. /\ T = (S \ B) \cup A
      /\ (S \ B) \cap A = {}
      /\ S \cap B = B
  BY <1>1 DEF Patched
<1>3. IsFiniteSet(S) /\ IsFiniteSet(A) /\ IsFiniteSet(B)
  BY <1>1, NodeConstants, FS_Subset
<1>4. /\ IsFiniteSet(S \ B)
      /\ Cardinality(S \ B) = Cardinality(S) - Cardinality(B)
  BY ZenonT(40), <1>2, <1>3, FS_Difference
<1>5. Cardinality(T) = Cardinality(S \ B) + Cardinality(A)
  <2>1. Cardinality(T) = Cardinality(S \ B) + Cardinality(A) - Cardinality({})
    BY <1>2, <1>3, <1>4, FS_Union
  <2> QED
    BY <2>1, <1>3, <1>4, FS_EmptySet, FS_CardinalityType
<1>6. /\ Cardinality(S) \in Nat
      /\ Cardinality(A) \in Nat
      /\ Cardinality(B) \in Nat
  BY <1>3, FS_CardinalityType
<1>7. Cardinality(T) = Cardinality(S) + Cardinality(A) - Cardinality(B)
  BY <1>4, <1>5, <1>6
<1> QED
  BY <1>7 DEF CountAfter, Count

----------------------------------------------------------------------------
(* The inductive step, action by action. *)

USE DEF panel, node, Revs

LEMMA InitIInv == Init => IInv
<1> SUFFICES ASSUME Init PROVE IInv
  OBVIOUS
<1> USE NodeConstants, NoneIsNoValue DEF Init, Blank
<1>1. Cardinality(Uids) \in Nat
  BY FS_CardinalityType
<1>2. TypeOK
  <2>1. lists \in Seq(UserList)
    BY DEF UserList
  <2>2. mem \in Cached
    BY <1>1 DEF Cached
  <2> QED
    BY <2>1, <2>2 DEF TypeOK, Config
<1>3. PanelOK
  BY DEF PanelOK
<1>4. Coherent(mem)
  BY DEF Coherent, Describes, InRange, Digested, Counted
<1>5. DiskOK /\ BlankAtBoot /\ NotFetched /\ CandidateOK /\ Fetched /\ Saving
  BY DEF DiskOK, BlankAtBoot, NotFetched, CandidateOK, Fetched, Saving
<1>6. ServesCache /\ SavedUnlessOwed
  BY DEF ServesCache, SavedUnlessOwed
<1> QED
  BY <1>2, <1>3, <1>4, <1>5, <1>6 DEF IInv

(* The panel's past is never rewritten. *)
LEMMA PanelChangeStep == IInv /\ PanelChange => IInv'
<1> SUFFICES ASSUME IInv, PanelChange PROVE IInv'
  OBVIOUS
<1> USE NodeConstants, NoneIsNoValue
<1>1. /\ lists' \in Seq(UserList)
      /\ Len(lists) <= Len(lists') /\ Len(lists') <= Len(lists) + 1
      /\ \A r \in 1..Len(lists) : lists'[r] = lists[r]
  <2>1. lists \in Seq(UserList) /\ Len(lists) \in Nat \ {0} /\ Latest \in UserList
    BY DEF IInv, TypeOK, PanelOK, Latest
  <2>2. CASE UNCHANGED lists
    BY <2>1, <2>2
  <2>3. ASSUME NEW u \in Uids, NEW r \in Rows,
               lists' = Append(lists, [Latest EXCEPT ![u] = r])
        PROVE  <1>1!1 /\ <1>1!2 /\ <1>1!3
    <3>1. [Latest EXCEPT ![u] = r] \in UserList
      BY <2>1 DEF UserList
    <3> QED
      BY <2>1, <2>3, <3>1
  <2> QED
    BY <2>2, <2>3 DEF PanelChange
<1>2. config' \in Config /\ config'.plug <= changes'
  <2>1. /\ config \in Config /\ config.net \in 0..1 /\ config.plug \in 0..changes
        /\ changes \in 0..MaxChanges
    BY DEF IInv, TypeOK, PanelOK, Config
  <2>2. changes < MaxChanges /\ changes' = changes + 1
    BY DEF PanelChange
  <2>3. CASE config' = [config EXCEPT !.net = 1 - @]
    BY <2>1, <2>2, <2>3 DEF Config
  <2>4. CASE config' = [config EXCEPT !.plug = @ + 1]
    BY <2>1, <2>2, <2>4 DEF Config
  <2>5. CASE config' = config
    BY <2>1, <2>2, <2>5
  <2> QED
    BY <2>3, <2>4, <2>5 DEF PanelChange
<1>3. TypeOK' /\ PanelOK'
  BY <1>1, <1>2 DEF PanelChange, IInv, TypeOK, PanelOK
<1>4. UNCHANGED <<mem, next, disk, runtime, table, pc>>
  BY DEF PanelChange
<1>5. Coherent(mem)'
  <2>1. mem.rev \in Nat
    BY DEF IInv, TypeOK, Cached
  <2>2. Describes(mem)' /\ InRange(mem)'
    BY <1>1, <1>4, <2>1 DEF IInv, Coherent, Describes, InRange, TypeOK
  <2> QED
    BY <2>2, <1>4 DEF IInv, Coherent, Digested, Counted
<1>6. DiskOK'
  <2>1. disk # None => disk.rev \in Nat
    BY DEF IInv, TypeOK, Snapshot
  <2> QED
    BY <1>1, <1>4, <2>1 DEF IInv, DiskOK, Describes, InRange, TypeOK
<1>7. CandidateOK'
  <2> SUFFICES ASSUME pc \in {"plugin", "users", "alive", "apply"}
               PROVE  Coherent(next)'
    BY <1>4 DEF IInv, CandidateOK
  <2>1. next.rev \in Nat
    BY DEF IInv, TypeOK, Candidate
  <2>2. Describes(next) /\ InRange(next) /\ Len(lists) \in Nat
    BY DEF IInv, CandidateOK, Coherent, TypeOK
  <2>3. Describes(next)' /\ InRange(next)'
    BY <1>1, <1>4, <2>1, <2>2 DEF Describes, InRange
  <2> QED
    BY <2>3, <1>4 DEF IInv, CandidateOK, Coherent, Digested, Counted
<1> QED
  BY <1>3, <1>4, <1>5, <1>6, <1>7
  DEF IInv, BlankAtBoot, NotFetched, Fetched, Saving, Appendable, ServesCache,
      SavedUnlessOwed

(* An early return: the cache, the disk and the panel are left alone. *)
LEMMA AbandonStep ==
    IInv /\ (RequestFails \/ Reject \/ ApplyFails) => IInv'
<1> SUFFICES ASSUME IInv, RequestFails \/ Reject \/ ApplyFails PROVE IInv'
  OBVIOUS
<1> USE NodeConstants
<1>1. /\ pc' = "idle" /\ next' = None
      /\ pc \notin {"boot", "save"}
      /\ UNCHANGED <<config, lists, style, changes, mem, table, disk>>
      /\ runtime' \in {runtime, None}
      /\ faults' = faults \/ Fault
  BY DEF RequestFails, Reject, ApplyFails, Abandon, UsersOnly
<1>2. TypeOK'
  BY <1>1 DEF IInv, TypeOK, Fault
<1>3. PanelOK' /\ Coherent(mem)' /\ DiskOK'
  BY <1>1 DEF IInv, PanelOK, Coherent, Describes, InRange, Digested, Counted, DiskOK
<1> QED
  BY <1>1, <1>2, <1>3
  DEF IInv, BlankAtBoot, NotFetched, CandidateOK, Fetched, Saving, ServesCache,
      SavedUnlessOwed

(* A configuration is fetched: the rest of the candidate is the cache. *)
LEMMA FetchConfigStep == IInv /\ FetchConfig => IInv'
<1> SUFFICES ASSUME IInv, FetchConfig PROVE IInv'
  OBVIOUS
<1> USE NodeConstants, NoneIsNoValue
<1>1. /\ pc = "idle" /\ pc' = "plugin"
      /\ UNCHANGED <<config, lists, style, changes, mem, runtime, table, disk, faults>>
  BY DEF FetchConfig
<1>2. mem \in Cached /\ config \in Config /\ Coherent(mem)
  BY DEF IInv, TypeOK
<1>3. /\ next' \in Candidate
      /\ next'.cfg = config /\ next'.cfgTag \in {config, None}
      /\ next'.users = mem.users /\ next'.userTag = mem.userTag
      /\ next'.rev = mem.rev /\ next'.hash = mem.hash
      /\ next'.plug = mem.plug /\ next'.limited = mem.limited
      /\ next'.delta = None /\ ~next'.usersChanged
      /\ ~next'.otherChanged => mem.cfg = config
  <2>1. CASE mem.cfgTag = config
    <3>1. mem.cfg = config
      BY <1>2, <2>1 DEF Coherent, Describes
    <3>2. next' = Unchanged
      BY <2>1 DEF FetchConfig
    <3> QED
      BY <1>2, <2>1, <3>1, <3>2 DEF Unchanged, Cached, Candidate
  <2>2. CASE mem.cfgTag # config
    <3> DEFINE differs == mem.cfg # config
               tag == Tag(config)
    <3>1. tag \in {config, None} /\ differs \in BOOLEAN
      BY DEF Tag
    <3>2. ~differs => mem.cfg = config
      OBVIOUS
    <3>3. next' = [Unchanged EXCEPT !.cfg = config, !.cfgTag = tag,
                                    !.otherChanged = differs]
      BY <2>2 DEF FetchConfig
    <3> HIDE DEF differs, tag
    <3>4. next' = [cfg |-> config, cfgTag |-> tag, users |-> mem.users,
                   userTag |-> mem.userTag, rev |-> mem.rev, hash |-> mem.hash,
                   plug |-> mem.plug, limited |-> mem.limited,
                   delta |-> None, usersChanged |-> FALSE, otherChanged |-> differs]
      BY <3>3 DEF Unchanged
    <3> QED
      BY <1>2, <3>1, <3>2, <3>4 DEF Cached, Candidate
  <2> QED
    BY <2>1, <2>2
<1>4. TypeOK'
  BY <1>1, <1>3 DEF IInv, TypeOK
<1>5. PanelOK' /\ Coherent(mem)' /\ DiskOK'
  BY <1>1 DEF IInv, PanelOK, Coherent, Describes, InRange, Digested, Counted, DiskOK
<1>6. CandidateOK'
  <2>1. Coherent(next)'
    BY <1>1, <1>2, <1>3 DEF Coherent, Describes, InRange, Digested, Counted
  <2> QED
    BY <1>1, <1>3, <2>1 DEF CandidateOK
<1> QED
  BY <1>1, <1>3, <1>4, <1>5, <1>6
  DEF IInv, BlankAtBoot, NotFetched, Fetched, Saving, ServesCache, SavedUnlessOwed

(* The manifest is fetched: only its part of the candidate changes. *)
LEMMA FetchPluginStep == IInv /\ FetchPlugin => IInv'
<1> SUFFICES ASSUME IInv, FetchPlugin PROVE IInv'
  OBVIOUS
<1> USE NodeConstants, NoneIsNoValue
<1>1. /\ pc = "plugin" /\ pc' = "users"
      /\ UNCHANGED <<config, lists, style, changes, mem, runtime, table, disk, faults>>
  BY DEF FetchPlugin
<1>2. next \in Candidate /\ config.plug \in 0..MaxChanges
  BY <1>1 DEF IInv, TypeOK, Config
<1>3. /\ next' \in Candidate
      /\ next'.plug = config.plug
      /\ next'.cfg = next.cfg /\ next'.cfgTag = next.cfgTag
      /\ next'.users = next.users /\ next'.userTag = next.userTag
      /\ next'.rev = next.rev /\ next'.hash = next.hash
      /\ next'.limited = next.limited
      /\ next'.delta = next.delta /\ next'.usersChanged = next.usersChanged
      /\ ~next'.otherChanged => ~next.otherChanged /\ mem.plug = config.plug
  <2>1. CASE ~mem.force /\ mem.plug = config.plug
    BY <1>1, <1>2, <2>1 DEF FetchPlugin, IInv, NotFetched
  <2>2. CASE ~(~mem.force /\ mem.plug = config.plug)
    <3>1. next' = [next EXCEPT !.plug = config.plug,
                               !.otherChanged = @ \/ mem.plug # config.plug]
      BY <2>2 DEF FetchPlugin
    <3> QED
      BY <1>2, <3>1 DEF Candidate
  <2> QED
    BY <2>1, <2>2
<1>4. TypeOK'
  BY <1>1, <1>3 DEF IInv, TypeOK
<1>5. PanelOK' /\ Coherent(mem)' /\ DiskOK'
  BY <1>1 DEF IInv, PanelOK, Coherent, Describes, InRange, Digested, Counted, DiskOK
<1>6. CandidateOK'
  <2>1. Coherent(next) /\ (~next.otherChanged => next.cfg = mem.cfg)
    BY <1>1 DEF IInv, CandidateOK
  <2>2. Coherent(next)'
    BY <1>1, <1>3, <2>1 DEF Coherent, Describes, InRange, Digested, Counted
  <2> QED
    BY <1>1, <1>3, <2>1, <2>2 DEF CandidateOK, IInv, NotFetched
<1>7. NotFetched'
  BY <1>1, <1>3 DEF IInv, NotFetched
<1> QED
  BY <1>1, <1>2, <1>3, <1>4, <1>5, <1>6, <1>7
  DEF IInv, BlankAtBoot, Fetched, Saving, ServesCache, SavedUnlessOwed

(* What an answer makes of the candidate, whichever of the three ways
   get_user_list takes: the list is the panel's newest. *)
UsersFetched(n) ==
    /\ n \in Candidate
    /\ n.cfg = next.cfg /\ n.cfgTag = next.cfgTag /\ n.plug = next.plug
    /\ n.otherChanged = next.otherChanged
    /\ n.users = Latest
    /\ n.rev <= Len(lists)
    /\ n.rev > 0 => n.users = lists[n.rev]
    /\ n.userTag \in {None, Len(lists)}
    /\ Digested(n)
    /\ n.limited = Count(n.users)
    /\ ~n.usersChanged => n.users = mem.users
    /\ n.delta # None => /\ mem.users # None
                         /\ n.users = Patched(mem.users, n.delta)

(* The user list arrives. *)
LEMMA UsersFetchedStep ==
    ASSUME IInv, pc = "users", NEW n, UsersFetched(n), AfterUsers(n),
           UNCHANGED <<config, lists, style, changes, mem, runtime, table, disk, faults>>
    PROVE  IInv'
<1> USE NodeConstants, NoneIsNoValue
<1>1. next' = n /\ pc' \in {"alive", "apply"}
  BY DEF AfterUsers
<1>2. /\ lists \in Seq(UserList) /\ Len(lists) \in Nat \ {0} /\ Latest \in UserList
      /\ mem \in Cached /\ next \in Candidate
  BY DEF IInv, TypeOK, PanelOK, Latest
<1>3. TypeOK'
  BY <1>1 DEF IInv, TypeOK, UsersFetched
<1>4. PanelOK' /\ Coherent(mem)' /\ DiskOK'
  BY DEF IInv, PanelOK, Coherent, Describes, InRange, Digested, Counted, DiskOK
<1>5. CandidateOK'
  <2>1. /\ Coherent(next) /\ Coherent(mem)
        /\ ~next.otherChanged => next.cfg = mem.cfg /\ next.plug = mem.plug
    BY DEF IInv, CandidateOK
  <2>2. Coherent(n)
    BY <1>2, <2>1 DEF UsersFetched, Coherent, InRange, Describes, Counted, Latest
  <2>3. n.delta # None => n.delta \in Delta
    BY DEF UsersFetched, Candidate
  <2>4. Coherent(next)'
    BY <1>1, <2>2 DEF Coherent, InRange, Describes, Digested, Counted
  <2> QED
    BY <1>1, <2>1, <2>3, <2>4 DEF CandidateOK, UsersFetched
<1>6. Fetched'
  BY <1>1, <1>2 DEF IInv, Fetched, UsersFetched
<1> QED
  BY <1>1, <1>3, <1>4, <1>5, <1>6
  DEF IInv, BlankAtBoot, NotFetched, Saving, ServesCache, SavedUnlessOwed

LEMMA FetchUsersSameStep == IInv /\ FetchUsersSame => IInv'
<1> SUFFICES ASSUME IInv, FetchUsersSame PROVE IInv'
  OBVIOUS
<1> USE NodeConstants, NoneIsNoValue
<1>1. /\ pc = "users" /\ mem.userTag = Len(lists) /\ AfterUsers(next)
      /\ UNCHANGED <<config, lists, style, changes, mem, runtime, table, disk, faults>>
  BY DEF FetchUsersSame
<1>2. /\ Len(lists) \in Nat \ {0} /\ Latest \in UserList /\ next \in Candidate
      /\ Coherent(mem) /\ Coherent(next)
  BY <1>1 DEF IInv, TypeOK, PanelOK, Latest, CandidateOK
<1>3. mem.users = Latest
  BY <1>1, <1>2 DEF Coherent, Describes, Latest
<1>4. UsersFetched(next)
  BY <1>1, <1>2, <1>3
  DEF IInv, NotFetched, UsersFetched, Coherent, InRange, Describes, Counted
<1> QED
  BY <1>1, <1>4, UsersFetchedStep

(* The panel's answers have the type of a body and describe its newest list. *)
LEMMA AnswersOK ==
    ASSUME IInv, pc = "users", NEW body \in Answers
    PROVE  /\ body \in Body
           /\ body.rev > 0 => body.rev = Len(lists)
           /\ body.full => body.rows = Latest
           /\ ~body.full => /\ body.rev = Len(lists)
                            /\ mem.users \in UserList
                            /\ body.rows \in Delta
                            /\ Patched(mem.users, body.rows) = Latest
<1> USE NodeConstants, NoneIsNoValue
<1>1. /\ lists \in Seq(UserList) /\ Len(lists) \in Nat \ {0} /\ Latest \in UserList
      /\ Len(lists) \in Revs
      /\ mem.rev \in Nat /\ Coherent(mem)
  BY DEF IInv, TypeOK, PanelOK, Latest, Cached
<1>2. CASE body = [full |-> TRUE, rows |-> Latest,
                   rev |-> IF style.deltas THEN Len(lists) ELSE 0]
  BY <1>1, <1>2, ListIsDelta DEF Body
<1>3. CASE /\ mem.rev # 0
           /\ body = [full |-> FALSE, rows |-> Difference(lists[mem.rev], Latest),
                      rev |-> Len(lists)]
  <2>1. mem.users = lists[mem.rev] /\ mem.users \in UserList
    BY <1>1, <1>3 DEF Coherent, Describes, InRange
  <2>2. /\ Difference(lists[mem.rev], Latest) \in Delta
        /\ Patched(mem.users, Difference(lists[mem.rev], Latest)) = Latest
    BY <1>1, <2>1, PatchedDifference
  <2> QED
    BY <1>1, <1>3, <2>1, <2>2 DEF Body
<1> QED
  BY <1>2, <1>3 DEF Answers

(* A body with the known digest: the cached list is the newest. *)
LEMMA SameDigest ==
    ASSUME IInv, pc = "users", NEW body \in Answers, mem.hash = body
    PROVE  UsersFetched([next EXCEPT !.userTag = Tag(Len(lists))])
<1> USE NodeConstants, NoneIsNoValue
<1> DEFINE n == [next EXCEPT !.userTag = Tag(Len(lists))]
<1>1. /\ Len(lists) \in Nat \ {0} /\ Len(lists) \in Revs /\ Latest \in UserList
      /\ next \in Candidate /\ Coherent(mem) /\ Coherent(next)
  BY DEF IInv, TypeOK, PanelOK, Latest, CandidateOK
<1>2. mem.users = Latest
  <2>1. mem.hash # None
    BY AnswersOK
  <2>2. body.rev = mem.rev /\ (body.full => mem.users = body.rows)
    BY <1>1, <2>1 DEF Coherent, Digested
  <2>3. CASE body.full
    BY <2>2, <2>3, AnswersOK
  <2>4. CASE ~body.full
    <3>1. mem.rev = Len(lists)
      BY <2>2, <2>4, AnswersOK
    <3> QED
      BY <1>1, <3>1 DEF Coherent, Describes, Latest
  <2> QED
    BY <2>3, <2>4
<1>3. Tag(Len(lists)) \in {None, Len(lists)}
  BY DEF Tag
<1>4. /\ n \in Candidate
      /\ n.userTag \in {None, Len(lists)}
      /\ n.cfg = next.cfg /\ n.cfgTag = next.cfgTag /\ n.plug = next.plug
      /\ n.otherChanged = next.otherChanged
      /\ n.users = next.users /\ n.rev = next.rev /\ n.hash = next.hash
      /\ n.limited = next.limited /\ n.delta = next.delta
      /\ n.usersChanged = next.usersChanged
  BY <1>1, <1>3 DEF Candidate
<1> HIDE DEF n
<1> QED
  <2> SUFFICES UsersFetched(n)
    BY DEF n
  <2> QED
    BY <1>1, <1>2, <1>4
    DEF IInv, NotFetched, UsersFetched, Coherent, InRange, Describes, Digested, Counted

(* A decoded body, full or delta: the candidate has the newest list. *)
LEMMA DecodedOK ==
    ASSUME IInv, pc = "users", NEW body \in Answers
    PROVE  UsersFetched(Decoded(body, Tag(Len(lists))))
<1> USE NodeConstants, NoneIsNoValue
<1> DEFINE tag == Tag(Len(lists))
           n == Decoded(body, tag)
           merged == Patched(mem.users, body.rows)
<1>1. /\ Len(lists) \in Nat \ {0} /\ Len(lists) \in Revs /\ Latest \in UserList
      /\ next \in Candidate /\ mem \in Cached /\ Coherent(mem) /\ Coherent(next)
  BY DEF IInv, TypeOK, PanelOK, Latest, CandidateOK
<1>2. tag \in {None, Len(lists)}
  BY DEF Tag
<1>3. body \in Body
  BY AnswersOK
<1> HIDE DEF tag
<1>4. CASE body.full
  <2> DEFINE differs == body.rows # mem.users
             limited == IF body.rows = mem.users THEN next.limited ELSE Count(body.rows)
  <2>1. differs \in BOOLEAN /\ (~differs => Latest = mem.users)
    BY <1>4, AnswersOK
  <2>2. limited \in 0..Cardinality(Uids) /\ limited = Count(Latest)
    <3>1. body.rows = Latest
      BY <1>4, AnswersOK
    <3>2. CASE Latest = mem.users
      <4>1. mem.limited = Count(mem.users)
        BY <1>1, <3>2 DEF Coherent, Counted
      <4> QED
        BY <3>1, <3>2, <4>1, CountType DEF IInv, NotFetched
    <3>3. CASE Latest # mem.users
      BY <3>1, <3>3, CountType
    <3> QED
      BY <3>2, <3>3
  <2>3. n = [[next EXCEPT !.userTag = tag, !.rev = body.rev, !.hash = body]
               EXCEPT !.users = body.rows, !.usersChanged = differs, !.limited = limited]
    BY <1>1, <1>4 DEF Decoded, Candidate
  <2> HIDE DEF differs, limited, n
  <2>4. /\ n \in Candidate
        /\ n.cfg = next.cfg /\ n.cfgTag = next.cfgTag /\ n.plug = next.plug
        /\ n.otherChanged = next.otherChanged /\ n.delta = next.delta
        /\ n.userTag = tag /\ n.rev = body.rev /\ n.hash = body
        /\ n.users = Latest /\ n.usersChanged = differs /\ n.limited = limited
    BY ZenonT(40), <1>1, <1>2, <1>3, <1>4, <2>1, <2>2, <2>3, AnswersOK DEF Candidate, Body
  <2>5. n.delta = None
    BY <2>4 DEF IInv, NotFetched
  <2>6. /\ body.rev <= Len(lists)
        /\ body.rev > 0 => Latest = lists[body.rev]
    BY <1>1, <1>3, AnswersOK DEF Latest, Body
  <2>7. UsersFetched(n)
    BY <1>2, <1>4, <2>1, <2>2, <2>4, <2>5, <2>6, AnswersOK DEF UsersFetched, Digested
  <2> QED
    BY <2>7 DEF n, tag
<1>5. CASE ~body.full
  <2> DEFINE differs == merged # mem.users
             limited == CountAfter(next.limited, mem.users, body.rows)
             delta == IF merged = mem.users THEN None ELSE body.rows
  <2>1. /\ merged = Latest /\ mem.users \in UserList /\ body.rows \in Delta
        /\ body.rev = Len(lists)
    BY <1>5, AnswersOK
  <2>2. differs \in BOOLEAN /\ (~differs => Latest = mem.users)
    BY <2>1
  <2>3. limited \in 0..Cardinality(Uids) /\ limited = Count(Latest)
    <3>1. next.limited = Count(mem.users)
      BY <1>1, <2>1 DEF IInv, NotFetched, Coherent, Counted
    <3> QED
      BY <2>1, <3>1, CountAfterExact, CountType
  <2>4. delta \in Delta \cup {None} /\ (delta # None => delta = body.rows)
    BY <2>1
  <2>5. n = [[next EXCEPT !.userTag = tag, !.rev = body.rev, !.hash = body]
               EXCEPT !.users = merged, !.usersChanged = differs, !.delta = delta,
                      !.limited = limited]
    <3> DEFINE seen == [next EXCEPT !.userTag = tag, !.rev = body.rev, !.hash = body]
    <3>1. seen.limited = next.limited
      BY <1>1 DEF Candidate
    <3>2. n = [seen EXCEPT !.users = merged, !.usersChanged = differs, !.delta = delta,
                           !.limited = CountAfter(seen.limited, mem.users, body.rows)]
      BY <1>5, Zenon DEF Decoded
    <3> QED
      BY <3>1, <3>2, Zenon
  <2> HIDE DEF differs, limited, delta, n, merged
  <2>6. /\ n \in Candidate
        /\ n.cfg = next.cfg /\ n.cfgTag = next.cfgTag /\ n.plug = next.plug
        /\ n.otherChanged = next.otherChanged /\ n.delta = delta
        /\ n.userTag = tag /\ n.rev = body.rev /\ n.hash = body
        /\ n.users = Latest /\ n.usersChanged = differs /\ n.limited = limited
    <3>1. n = [cfg |-> next.cfg, cfgTag |-> next.cfgTag, users |-> Latest,
               userTag |-> tag, rev |-> body.rev, hash |-> body, plug |-> next.plug,
               limited |-> limited, delta |-> delta, usersChanged |-> differs,
               otherChanged |-> next.otherChanged]
      BY <1>1, <2>1, <2>5 DEF Candidate
    <3>2. /\ tag \in Revs \cup {None} /\ body.rev \in Revs
          /\ body \in Body /\ Latest \in UserList
      BY <1>1, <1>2, <1>3, <2>1
    <3> QED
      BY <1>1, <2>2, <2>3, <2>4, <3>1, <3>2 DEF Candidate
  <2>7. Latest = lists[Len(lists)]
    BY DEF Latest
  <2>8. delta # None => mem.users # None /\ Latest = Patched(mem.users, delta)
    BY <2>1, <2>4 DEF merged
  <2>9. UsersFetched(n)
    BY <1>1, <1>2, <1>5, <2>1, <2>2, <2>3, <2>6, <2>7, <2>8 DEF UsersFetched, Digested
  <2> QED
    BY <2>9 DEF n, tag
<1> QED
  BY <1>4, <1>5

LEMMA FetchUsersStep == IInv /\ FetchUsers => IInv'
<1> SUFFICES ASSUME IInv, FetchUsers PROVE IInv'
  OBVIOUS
<1>1. /\ pc = "users"
      /\ UNCHANGED <<config, lists, style, changes, mem, runtime, table, disk, faults>>
  BY DEF FetchUsers
<1>2. PICK body \in Answers :
        AfterUsers(IF mem.hash = body THEN [next EXCEPT !.userTag = Tag(Len(lists))]
                   ELSE Decoded(body, Tag(Len(lists))))
  BY DEF FetchUsers
<1>3. CASE mem.hash = body
  BY <1>1, <1>2, <1>3, SameDigest, UsersFetchedStep
<1>4. CASE mem.hash # body
  BY <1>1, <1>2, <1>4, DecodedOK, UsersFetchedStep
<1> QED
  BY <1>3, <1>4

(* invalidate_user_cache without a list forgets validators only. *)
LEMMA FetchUsersBaselessStep == IInv /\ FetchUsersBaseless => IInv'
<1> SUFFICES ASSUME IInv, FetchUsersBaseless PROVE IInv'
  OBVIOUS
<1> USE NodeConstants
<1>1. /\ pc = "users" /\ pc' = "idle" /\ next' = None /\ mem.users = None
      /\ UNCHANGED <<config, lists, style, changes, runtime, table, disk>>
      /\ Fault
  BY DEF FetchUsersBaseless, Abandon
<1>2. /\ mem \in Cached /\ Coherent(mem) /\ Len(lists) \in Nat
  BY DEF IInv, TypeOK
<1>3. /\ mem' \in Cached
      /\ mem'.users = None /\ mem'.userTag = None /\ mem'.rev = 0 /\ mem'.hash = None
      /\ mem'.cfg = mem.cfg /\ mem'.cfgTag = mem.cfgTag /\ mem'.plug = mem.plug
      /\ mem'.limited = mem.limited /\ mem'.ready = mem.ready
  <2>1. mem' = [mem EXCEPT !.userTag = None, !.rev = 0, !.hash = None, !.users = None]
    BY DEF FetchUsersBaseless
  <2>2. None \in UserList \cup {None} /\ None \in Revs \cup {None} /\ 0 \in Revs
        /\ None \in Body \cup {None}
    OBVIOUS
  <2> QED
    BY <1>2, <2>1, <2>2 DEF Cached
<1>4. TypeOK'
  BY <1>1, <1>3 DEF IInv, TypeOK, Fault
<1>5. PanelOK' /\ DiskOK'
  BY <1>1 DEF IInv, PanelOK, DiskOK, Describes, InRange
<1>6. Coherent(mem)'
  BY <1>1, <1>2, <1>3 DEF Coherent, Describes, InRange, Digested, Counted
<1> QED
  BY <1>1, <1>3, <1>4, <1>5, <1>6
  DEF IInv, BlankAtBoot, NotFetched, CandidateOK, Fetched, Saving, ServesCache,
      SavedUnlessOwed

LEMMA FetchAliveStep == IInv /\ FetchAlive => IInv'
<1> SUFFICES ASSUME IInv, FetchAlive PROVE IInv'
  OBVIOUS
<1>1. /\ pc = "alive" /\ pc' = "apply"
      /\ UNCHANGED <<config, lists, style, changes, mem, next, runtime, table, disk, faults>>
  BY DEF FetchAlive
<1>2. TypeOK' /\ PanelOK'
  BY <1>1 DEF IInv, TypeOK, PanelOK
<1>3. Coherent(mem)' /\ DiskOK' /\ CandidateOK'
  BY <1>1
  DEF IInv, Coherent, Describes, InRange, Digested, Counted, DiskOK, CandidateOK
<1> QED
  BY <1>1, <1>2, <1>3
  DEF IInv, BlankAtBoot, NotFetched, Fetched, Saving, ServesCache, SavedUnlessOwed

(* Everything but ServesCache and the types of runtime and table holds after
   a commit, whatever was done to the listeners. *)
LEMMA CommitStep ==
    ASSUME IInv, pc = "apply", NEW ready \in 0..MaxChanges \cup {None}, Commit(ready),
           next.cfg.plug = next.plug,
           UNCHANGED <<config, lists, style, changes, disk, faults>>,
           runtime' \in Config \cup {None}, table' \in UserList \cup {None}
    PROVE  /\ TypeOK' /\ PanelOK' /\ Coherent(mem)' /\ DiskOK' /\ BlankAtBoot'
           /\ NotFetched' /\ CandidateOK' /\ Fetched' /\ Saving' /\ SavedUnlessOwed'
<1> USE NodeConstants, NoneIsNoValue
<1>1. /\ next \in Candidate /\ mem \in Cached /\ Coherent(next)
      /\ next.users # None /\ next.plug # None
  BY DEF IInv, TypeOK, CandidateOK, Fetched
<1>2. /\ mem' \in Cached
      /\ mem'.cfg = next.cfg /\ mem'.cfgTag = next.cfgTag
      /\ mem'.users = next.users /\ mem'.userTag = next.userTag
      /\ mem'.rev = next.rev /\ mem'.hash = next.hash /\ mem'.plug = next.plug
      /\ mem'.limited = next.limited /\ mem'.pending = mem.pending
  BY <1>1 DEF Commit, Cached, Candidate
<1>3. \/ pc' = "save" /\ next' = next
      \/ pc' = "idle" /\ next' = None /\ ~NewGeneration /\ ~mem.pending
  BY DEF Commit, Abandon
<1>4. TypeOK'
  BY <1>1, <1>2, <1>3 DEF IInv, TypeOK
<1>5. PanelOK' /\ DiskOK'
  BY DEF IInv, PanelOK, DiskOK, Describes, InRange
<1>6. Coherent(mem)'
  BY <1>1, <1>2 DEF Coherent, Describes, InRange, Digested, Counted
<1>7. BlankAtBoot' /\ NotFetched' /\ CandidateOK' /\ Fetched'
  BY <1>1, <1>3 DEF BlankAtBoot, NotFetched, CandidateOK, Fetched
<1>8. Saving'
  <2> SUFFICES ASSUME pc' = "save", Appendable'
               PROVE  /\ disk # None
                      /\ disk.cfg = next.cfg
                      /\ disk.plug = next.plug
                      /\ Patched(disk.users, next.delta) = next.users
    BY <1>2, <1>3 DEF Saving
  <2>1. ~mem.pending /\ ~next.otherChanged /\ next.delta # None
    BY <1>2, <1>3 DEF Appendable
  <2>2. /\ mem.users # None /\ next.users = Patched(mem.users, next.delta)
        /\ next.cfg = mem.cfg /\ next.plug = mem.plug
    BY <2>1 DEF IInv, CandidateOK
  <2> QED
    BY <2>1, <2>2 DEF IInv, SavedUnlessOwed
<1>9. SavedUnlessOwed'
  <2> SUFFICES ASSUME pc' = "idle"
               PROVE  SavedUnlessOwed'
    BY <1>3 DEF SavedUnlessOwed
  <2>1. ~next.usersChanged /\ ~next.otherChanged /\ ~mem.pending
    BY <1>3 DEF NewGeneration
  <2>2. next.users = mem.users /\ next.cfg = mem.cfg /\ next.plug = mem.plug
    BY <2>1 DEF IInv, CandidateOK
  <2> QED
    BY <1>1, <1>2, <2>1, <2>2 DEF IInv, SavedUnlessOwed
<1> QED
  BY <1>4, <1>5, <1>6, <1>7, <1>8, <1>9

LEMMA RefreshStep == IInv /\ Refresh => IInv'
<1> SUFFICES ASSUME IInv, Refresh PROVE IInv'
  OBVIOUS
<1> USE NodeConstants, NoneIsNoValue
<1>1. /\ pc = "apply" /\ Commit(mem.ready) /\ runtime # None
      /\ UNCHANGED <<config, lists, style, changes, disk, faults, runtime>>
      /\ ~next.otherChanged
  BY DEF Refresh, UsersOnly
<1>2. /\ next.users \in UserList /\ mem.ready \in 0..MaxChanges \cup {None}
      /\ runtime \in Config
  BY <1>1 DEF IInv, TypeOK, Candidate, Cached, Fetched
<1>3. table' = next.users
  <2>1. CASE table' = next.users
    BY <2>1
  <2>2. CASE next.delta # None /\ table' = Patched(table, next.delta)
    <3>1. table = mem.users
      BY <1>1 DEF IInv, ServesCache
    <3>2. next.users = Patched(mem.users, next.delta)
      BY <1>1, <2>2 DEF IInv, CandidateOK
    <3> QED
      BY <2>2, <3>1, <3>2
  <2> QED
    BY <2>1, <2>2 DEF Refresh
<1>4. next.cfg = mem.cfg /\ next.plug = mem.plug /\ next.cfg.plug = next.plug
  BY <1>1 DEF IInv, CandidateOK, ServesCache
<1>5. /\ TypeOK' /\ PanelOK' /\ Coherent(mem)' /\ DiskOK' /\ BlankAtBoot'
      /\ NotFetched' /\ CandidateOK' /\ Fetched' /\ Saving' /\ SavedUnlessOwed'
  BY <1>1, <1>2, <1>3, <1>4, CommitStep
<1>6. ServesCache'
  <2>1. /\ mem'.cfg = next.cfg /\ mem'.users = next.users
        /\ mem'.plug = next.plug /\ mem'.ready = mem.ready
    BY <1>1 DEF Commit
  <2> QED
    BY <1>1, <1>3, <1>4, <2>1 DEF IInv, ServesCache
<1> QED
  BY <1>5, <1>6 DEF IInv

LEMMA ApplyStep == IInv /\ Apply => IInv'
<1> SUFFICES ASSUME IInv, Apply PROVE IInv'
  OBVIOUS
<1> USE NodeConstants, NoneIsNoValue
<1>1. /\ pc = "apply" /\ Commit(next.plug) /\ next.cfg.plug = next.plug
      /\ runtime' = next.cfg /\ table' = next.users
      /\ UNCHANGED <<config, lists, style, changes, disk, faults>>
  BY DEF Apply, Incoherent
<1>2. /\ next.users \in UserList /\ next.cfg \in Config
      /\ next.plug \in 0..MaxChanges \cup {None}
  BY <1>1 DEF IInv, TypeOK, Candidate, Fetched
<1>3. /\ TypeOK' /\ PanelOK' /\ Coherent(mem)' /\ DiskOK' /\ BlankAtBoot'
      /\ NotFetched' /\ CandidateOK' /\ Fetched' /\ Saving' /\ SavedUnlessOwed'
  BY <1>1, <1>2, CommitStep
<1>4. /\ mem'.cfg = next.cfg /\ mem'.users = next.users
      /\ mem'.plug = next.plug /\ mem'.ready = next.plug
  BY <1>1 DEF Commit
<1>5. ServesCache'
  BY <1>1, <1>4 DEF ServesCache
<1> QED
  BY <1>3, <1>5 DEF IInv

LEMMA KeepStep == IInv /\ Keep => IInv'
<1> SUFFICES ASSUME IInv, Keep PROVE IInv'
  OBVIOUS
<1> USE NodeConstants, NoneIsNoValue
<1>1. /\ pc = "apply" /\ Commit(mem.ready)
      /\ UNCHANGED <<config, lists, style, changes, disk, faults, runtime, table>>
      /\ ~next.usersChanged /\ ~next.otherChanged /\ runtime # None
  BY DEF Keep, NewGeneration
<1>2. /\ mem.ready \in 0..MaxChanges \cup {None}
      /\ runtime \in Config \cup {None} /\ table \in UserList \cup {None}
  BY DEF IInv, TypeOK, Cached
<1>3. /\ next.users = mem.users /\ next.cfg = mem.cfg /\ next.plug = mem.plug
      /\ next.cfg.plug = next.plug
  BY <1>1 DEF IInv, CandidateOK, ServesCache
<1>4. /\ TypeOK' /\ PanelOK' /\ Coherent(mem)' /\ DiskOK' /\ BlankAtBoot'
      /\ NotFetched' /\ CandidateOK' /\ Fetched' /\ Saving' /\ SavedUnlessOwed'
  BY <1>1, <1>2, <1>3, CommitStep
<1>5. /\ mem'.cfg = next.cfg /\ mem'.users = next.users
      /\ mem'.plug = next.plug /\ mem'.ready = mem.ready
  BY <1>1 DEF Commit
<1>6. ServesCache'
  BY <1>1, <1>3, <1>5 DEF IInv, ServesCache
<1> QED
  BY <1>4, <1>6 DEF IInv

(* What a save may leave on disk is what is cached. *)
LEMMA WrittenOK ==
    ASSUME IInv, pc = "save", NEW w \in Written
    PROVE  /\ w \in Snapshot
           /\ w.cfg = mem.cfg /\ w.users = mem.users /\ w.plug = mem.plug
           /\ w.rev = mem.rev /\ w.userTag = mem.userTag
           /\ w.cfg.plug = w.plug
           /\ w.cfgTag # None => w.cfg = w.cfgTag
<1> USE NodeConstants, NoneIsNoValue
<1>1. /\ mem \in Cached /\ next \in Candidate /\ disk \in Snapshot \cup {None}
      /\ mem.cfg \in Config /\ mem.users \in UserList /\ mem.plug \in 0..MaxChanges
      /\ mem.cfg.plug = mem.plug /\ Coherent(mem)
  BY DEF IInv, TypeOK, Saving, Fetched, Cached, Candidate
<1>2. CASE w = SnapshotOf(mem)
  BY <1>1, <1>2 DEF SnapshotOf, Snapshot, Cached, Coherent, Describes
<1>3. CASE Appendable /\ w = Appended
  <2>1. /\ disk # None
        /\ disk.cfg = mem.cfg /\ disk.plug = mem.plug
        /\ Patched(disk.users, next.delta) = mem.users
    BY <1>3 DEF IInv, Saving
  <2>2. w = [disk EXCEPT !.users = mem.users, !.rev = mem.rev, !.userTag = mem.userTag]
    BY <1>3, <2>1, Zenon DEF Appended
  <2>3. disk.cfgTag # None => disk.cfg = disk.cfgTag
    BY <2>1 DEF IInv, DiskOK, Describes
  <2> QED
    BY <1>1, <2>1, <2>2, <2>3 DEF Snapshot, Cached
<1> QED
  BY <1>2, <1>3 DEF Written

LEMMA SaveStep == IInv /\ (Save \/ SaveFails) => IInv'
<1> SUFFICES ASSUME IInv, Save \/ SaveFails PROVE IInv'
  OBVIOUS
<1> USE NodeConstants, NoneIsNoValue
<1>1. /\ pc = "save" /\ pc' = "idle" /\ next' = None
      /\ UNCHANGED <<config, lists, style, changes, runtime, table>>
      /\ faults' = faults \/ Fault
      /\ disk' \in Written \/ disk' = disk
  BY DEF Save, SaveFails, Abandon
<1>2. mem \in Cached /\ Coherent(mem)
  BY DEF IInv, TypeOK
<1>3. /\ mem' \in Cached
      /\ mem'.cfg = mem.cfg /\ mem'.cfgTag = mem.cfgTag
      /\ mem'.users = mem.users /\ mem'.userTag = mem.userTag
      /\ mem'.rev = mem.rev /\ mem'.hash = mem.hash /\ mem'.plug = mem.plug
      /\ mem'.limited = mem.limited /\ mem'.ready = mem.ready
      /\ ~mem'.pending => disk' \in Written
  <2>1. CASE Save
    BY <1>2, <2>1 DEF Save, Cached
  <2>2. CASE SaveFails
    <3>1. mem' = [mem EXCEPT !.pending = TRUE]
      BY <2>2 DEF SaveFails
    <3> QED
      BY <1>2, <3>1 DEF Cached
  <2> QED
    BY <2>1, <2>2
<1>4. TypeOK'
  <2>1. disk' \in Snapshot \cup {None}
    BY <1>1, WrittenOK DEF IInv, TypeOK
  <2> QED
    BY <1>1, <1>3, <2>1 DEF IInv, TypeOK, Fault
<1>5. PanelOK'
  BY <1>1 DEF IInv, PanelOK
<1>6. Coherent(mem)'
  BY <1>1, <1>2, <1>3 DEF Coherent, Describes, InRange, Digested, Counted
<1>7. DiskOK'
  <2>1. CASE disk' \in Written
    BY <1>1, <1>2, <2>1, WrittenOK DEF DiskOK, Coherent, Describes, InRange
  <2>2. CASE disk' = disk
    BY <1>1, <2>2 DEF IInv, DiskOK, Describes, InRange
  <2> QED
    BY <1>1, <2>1, <2>2
<1>8. SavedUnlessOwed'
  BY <1>1, <1>3, WrittenOK DEF SavedUnlessOwed
<1> QED
  BY <1>1, <1>3, <1>4, <1>5, <1>6, <1>7, <1>8
  DEF IInv, BlankAtBoot, NotFetched, CandidateOK, Fetched, Saving, ServesCache

LEMMA StatusRefusedStep == IInv /\ StatusRefused => IInv'
<1> SUFFICES ASSUME IInv, StatusRefused PROVE IInv'
  OBVIOUS
<1>1. /\ pc = "idle"
      /\ UNCHANGED <<config, lists, style, changes, next, pc, runtime, table, disk, faults>>
      /\ mem' = [mem EXCEPT !.force = TRUE]
  BY DEF StatusRefused
<1>2. mem \in Cached /\ Coherent(mem)
  BY DEF IInv, TypeOK
<1>3. /\ mem' \in Cached
      /\ mem'.cfg = mem.cfg /\ mem'.cfgTag = mem.cfgTag
      /\ mem'.users = mem.users /\ mem'.userTag = mem.userTag
      /\ mem'.rev = mem.rev /\ mem'.hash = mem.hash /\ mem'.plug = mem.plug
      /\ mem'.limited = mem.limited /\ mem'.ready = mem.ready
      /\ mem'.pending = mem.pending
  BY <1>1, <1>2 DEF Cached
<1>4. TypeOK' /\ PanelOK'
  BY <1>1, <1>3 DEF IInv, TypeOK, PanelOK
<1>5. Coherent(mem)' /\ DiskOK'
  BY <1>1, <1>2, <1>3
  DEF IInv, Coherent, Describes, InRange, Digested, Counted, DiskOK
<1> QED
  BY <1>1, <1>3, <1>4, <1>5
  DEF IInv, BlankAtBoot, NotFetched, CandidateOK, Fetched, Saving, ServesCache,
      SavedUnlessOwed

(* restore_lkg: the snapshot is coherent, so what it restores is. *)
LEMMA BootStep == IInv /\ Boot => IInv'
<1> SUFFICES ASSUME IInv, Boot PROVE IInv'
  OBVIOUS
<1> USE NodeConstants, NoneIsNoValue
<1>1. /\ pc = "boot" /\ pc' = "idle" /\ next' = None
      /\ mem = Blank /\ runtime = None /\ table = None
      /\ UNCHANGED <<config, lists, style, changes, disk>>
  BY DEF Boot, IInv, TypeOK, BlankAtBoot
<1>2. PanelOK' /\ DiskOK'
  BY <1>1 DEF IInv, PanelOK, DiskOK, Describes, InRange
<1>3. CASE UNCHANGED <<mem, runtime, table>> /\ (faults' = faults \/ Fault)
  <2>1. TypeOK'
    BY <1>1, <1>3 DEF IInv, TypeOK, Fault
  <2>2. Coherent(mem)'
    BY <1>1, <1>3 DEF IInv, Coherent, Describes, InRange, Digested, Counted
  <2> QED
    BY <1>1, <1>2, <1>3, <2>1, <2>2
    DEF IInv, BlankAtBoot, NotFetched, CandidateOK, Fetched, Saving, ServesCache,
        SavedUnlessOwed, Blank
<1>4. CASE /\ disk # None
           /\ runtime' = disk.cfg /\ table' = disk.users /\ faults' = faults
           /\ mem' = [Blank EXCEPT !.cfg = disk.cfg, !.cfgTag = disk.cfgTag,
                                   !.users = disk.users, !.userTag = disk.userTag,
                                   !.rev = disk.rev, !.plug = disk.plug,
                                   !.ready = disk.plug, !.limited = Count(disk.users)]
  <2>1. disk \in Snapshot
    BY <1>4 DEF IInv, TypeOK
  <2>2. mem' = [cfg |-> disk.cfg, cfgTag |-> disk.cfgTag, users |-> disk.users,
                userTag |-> disk.userTag, rev |-> disk.rev, hash |-> None,
                plug |-> disk.plug, limited |-> Count(disk.users),
                ready |-> disk.plug, force |-> FALSE, pending |-> FALSE]
    BY <1>4 DEF Blank
  <2>3. disk.users \in UserList /\ disk.cfg \in Config
    BY <2>1 DEF Snapshot
  <2>4. mem' \in Cached
    BY <2>1, <2>2, CountType DEF Snapshot, Cached
  <2>5. TypeOK'
    BY <1>1, <1>4, <2>3, <2>4 DEF IInv, TypeOK
  <2>6. Coherent(mem)'
    <3>1. Describes(disk) /\ InRange(disk)
      BY <1>4 DEF IInv, DiskOK
    <3>2. Describes(mem)' /\ InRange(mem)'
      BY <1>1, <2>2, <3>1 DEF Describes, InRange
    <3>3. Digested(mem)' /\ Counted(mem)'
      BY <2>2, <2>3 DEF Digested, Counted
    <3> QED
      BY <3>2, <3>3 DEF Coherent
  <2>7. ServesCache'
    <3>1. runtime'.plug = disk.plug
      BY <1>4 DEF IInv, DiskOK
    <3> QED
      BY <1>4, <2>2, <3>1 DEF ServesCache
  <2>8. SavedUnlessOwed'
    BY <1>1, <1>4, <2>2 DEF SavedUnlessOwed
  <2> QED
    BY <1>1, <1>2, <2>5, <2>6, <2>7, <2>8
    DEF IInv, BlankAtBoot, NotFetched, CandidateOK, Fetched, Saving
<1> QED
  BY <1>3, <1>4 DEF Boot

LEMMA CrashStep == IInv /\ Crash => IInv'
<1> SUFFICES ASSUME IInv, Crash PROVE IInv'
  OBVIOUS
<1> USE NodeConstants, NoneIsNoValue
<1>1. /\ pc' = "boot" /\ mem' = Blank /\ next' = None /\ runtime' = None /\ table' = None
      /\ UNCHANGED <<config, lists, style, changes, disk>>
      /\ Fault
  BY DEF Crash
<1>2. Cardinality(Uids) \in Nat /\ Len(lists) \in Nat
  BY FS_CardinalityType DEF IInv, TypeOK
<1>3. Blank \in Cached
  BY <1>2 DEF Blank, Cached
<1>4. TypeOK'
  BY <1>1, <1>3 DEF IInv, TypeOK, Fault
<1>5. PanelOK' /\ DiskOK'
  BY <1>1 DEF IInv, PanelOK, DiskOK, Describes, InRange
<1>6. Coherent(mem)'
  BY <1>1, <1>2 DEF Blank, Coherent, Describes, InRange, Digested, Counted
<1> QED
  BY <1>1, <1>4, <1>5, <1>6
  DEF IInv, BlankAtBoot, NotFetched, CandidateOK, Fetched, Saving, ServesCache,
      SavedUnlessOwed, Blank

LEMMA StutterStep == IInv /\ UNCHANGED vars => IInv'
<1> SUFFICES ASSUME IInv, UNCHANGED vars PROVE IInv'
  OBVIOUS
<1>1. TypeOK' /\ PanelOK'
  BY DEF vars, IInv, TypeOK, PanelOK
<1>2. Coherent(mem)' /\ DiskOK' /\ CandidateOK'
  BY DEF vars, IInv, Coherent, Describes, InRange, Digested, Counted, DiskOK, CandidateOK
<1> QED
  BY <1>1, <1>2
  DEF vars, IInv, BlankAtBoot, NotFetched, Fetched, Saving, Appendable, ServesCache,
      SavedUnlessOwed

(* The invariant holds in every state of the controller. *)
THEOREM Inductive == Spec => []IInv
<1>1. Init => IInv
  BY InitIInv
<1>2. IInv /\ [Next]_vars => IInv'
  BY PanelChangeStep, AbandonStep, FetchConfigStep, FetchPluginStep, FetchUsersSameStep,
     FetchUsersStep, FetchUsersBaselessStep, FetchAliveStep, RefreshStep, ApplyStep,
     KeepStep, SaveStep, StatusRefusedStep, BootStep, CrashStep, StutterStep
  DEF Next, Pull
<1> QED
  BY <1>1, <1>2, PTL DEF Spec

(* Every variable keeps its type, for any users, rows, and numbers of changes
   and faults. *)
THEOREM NodeTypeCorrect == Spec => []TypeOK
<1>1. IInv => TypeOK
  BY DEF IInv
<1> QED
  BY <1>1, Inductive, PTL

(* The ETags and the revision the next request carries describe the list and
   the configuration held, in memory and on disk, after every failure. *)
THEOREM ValidatorsAlwaysHonest == Spec => []ValidatorsHonest
<1>1. IInv => ValidatorsHonest
  BY DEF IInv, Coherent, DiskOK, ValidatorsHonest
<1> QED
  BY <1>1, Inductive, PTL

(* The listeners serve the cached configuration and users whenever they run. *)
THEOREM CacheAlwaysServed == Spec => []ServesCache
<1>1. IInv => ServesCache
  BY DEF IInv
<1> QED
  BY <1>1, Inductive, PTL

(* Unless a save is running or owed, a restart recovers what is applied. *)
THEOREM AlwaysSavedUnlessOwed == Spec => []SavedUnlessOwed
<1>1. IInv => SavedUnlessOwed
  BY DEF IInv
<1> QED
  BY <1>1, Inductive, PTL

(* The counter of limited users never drifts, whatever deltas are merged. *)
THEOREM LimitedCountAlwaysExact == Spec => []LimitedCountExact
<1>1. IInv => LimitedCountExact
  BY DEF IInv, Coherent, Counted, LimitedCountExact
<1> QED
  BY <1>1, Inductive, PTL
=============================================================================
