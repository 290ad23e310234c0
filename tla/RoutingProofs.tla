---------------------------- MODULE RoutingProofs ----------------------------
(***************************************************************************)
(* ResolverSafe for any number of lookups and of rebuilds, RouterSafe for  *)
(* any number of flows, sessions and buffers, and DecisionsJustified for   *)
(* any rules, any cache and any number of judgements.                      *)
(*                                                                         *)
(* The refresh lock makes a refresh exclusive, but not the reads of other  *)
(* lookups, which take the generation and the resolver in two steps.  The  *)
(* invariant says how far the two may be apart: the generation is behind   *)
(* by one exactly while the holder of the lock has put a resolver in place *)
(* and not counted it, and the resolver a lookup saw is never older than   *)
(* the generation it read.                                                 *)
(*                                                                         *)
(* The router's invariant has a part for each direction of the datagrams   *)
(* (the pool has made as many buffers as are idle and queued; a session's  *)
(* counter is the number of its entries in the queue), one for the table   *)
(* of flows, one for the sessions that failed and one for the phases of a  *)
(* poll.                                                                   *)
(*                                                                         *)
(* The invariant of the rules says what a judgement knows half way: every  *)
(* matcher before the one it is at was passed under an answer the resolver *)
(* had given, and by its name alone while there was no address yet; and    *)
(* that a cached rule is right whatever protocol is sniffed.               *)
(***************************************************************************)
EXTENDS Resolver, UdpRouter, Selector, FiniteSetTheorems, SequenceTheorems, TLAPS

Pcs == {"new", "idleLock", "idleBuild", "idleBump", "readGen", "readInner", "query",
        "errLock", "errBuild", "errBump", "retry", "ok", "err"}
Holding == {"idleBuild", "idleBump", "errBuild", "errBump", "retry"}
Bumping == {"idleBump", "errBump"}

ResolverType ==
    /\ inner \in Nat /\ built \in Nat /\ generation \in Nat
    /\ activity \in {"none", "recent", "old"}
    /\ holder \in Lookups \cup {"free"}
    /\ look \in [Lookups -> [pc : Pcs, gen : Nat, seen : Nat, target : Nat]]
    /\ wasted \in BOOLEAN

(* Whoever is in a refresh or in its retry holds the lock. *)
LockHeld == \A l \in Lookups : At(l, Holding) <=> holder = l

(* The generation lags by one while a resolver is in place and not counted. *)
GenerationLag ==
    /\ inner = built
    /\ IF \E l \in Lookups : At(l, Bumping) THEN inner = generation + 2 ELSE inner = generation + 1

(* What a lookup has read is no newer than what is there, and the resolver it
   saw is at least the one its generation counts. *)
ReadsOrdered ==
    \A l \in Lookups :
        /\ look[l].gen =< generation /\ look[l].seen =< inner
        /\ At(l, {"query", "errLock", "errBuild", "errBump", "retry"})
             => look[l].seen >= look[l].gen + 1
        /\ At(l, {"errBuild"}) => look[l].gen = generation
        /\ At(l, {"errBump"}) => look[l].target = inner
        /\ At(l, {"retry"}) => look[l].target = inner

ResolverIInv ==
    /\ ResolverType /\ LockHeld /\ GenerationLag /\ ReadsOrdered /\ ~wasted
-----------------------------------------------------------------------------
LEMMA ResolverInitial == ResolverInit => ResolverIInv
<1> SUFFICES ASSUME ResolverInit PROVE ResolverIInv
    OBVIOUS
<1>1. \A l \in Lookups : /\ look[l].pc = "new" /\ look[l].gen = 0 /\ look[l].seen = 0
                         /\ look[l] \in [pc : Pcs, gen : Nat, seen : Nat, target : Nat]
  BY DEF ResolverInit, Pcs
<1>2. ResolverType
  BY <1>1 DEF ResolverInit, ResolverType
<1>3. LockHeld
  BY <1>1, ResolverConstants DEF ResolverInit, LockHeld, At, Holding
<1>4. GenerationLag
  BY <1>1 DEF ResolverInit, GenerationLag, At, Bumping
<1>5. ReadsOrdered
  BY <1>1 DEF ResolverInit, ReadsOrdered, At
<1> QED
  BY <1>2, <1>3, <1>4, <1>5 DEF ResolverInit, ResolverIInv

LEMMA BeginKeeps ==
  ASSUME ResolverIInv, NEW l \in Lookups, Begin(l) PROVE ResolverIInv'
  BY DEF ResolverIInv, ResolverType, LockHeld, GenerationLag, ReadsOrdered, Begin, At, Goto,
     Pcs, Holding, Bumping

LEMMA IdleLockedKeeps ==
  ASSUME ResolverIInv, NEW l \in Lookups, IdleLocked(l) PROVE ResolverIInv'
  BY ResolverConstants DEF ResolverIInv, ResolverType, LockHeld, GenerationLag, ReadsOrdered,
     IdleLocked, At, Goto, Pcs, Holding, Bumping

LEMMA BuildKeeps ==
  ASSUME ResolverIInv, NEW l \in Lookups, Build(l) PROVE ResolverIInv'
<1> DEFINE next == IF look[l].pc = "idleBuild" THEN "idleBump" ELSE "errBump"
<1>1. /\ look[l].pc \in {"idleBuild", "errBuild"}
      /\ wasted' = (wasted \/ (look[l].pc \in {"errBuild"} /\ look[l].seen # inner))
      /\ built' = built + 1 /\ inner' = built + 1
      /\ look' = [look EXCEPT ![l].pc = next, ![l].target = built + 1]
      /\ UNCHANGED <<generation, activity, holder, broken>>
  BY DEF Build, At
<1>2. next \in Bumping /\ (next = "errBump" => look[l].pc = "errBuild")
  BY <1>1 DEF Bumping
<1>3. /\ look[l].pc \in Holding /\ look[l].pc \notin Bumping /\ holder = l
      /\ \A k \in Lookups : k # l => look[k].pc \notin Holding
  BY <1>1 DEF ResolverIInv, LockHeld, At, Holding, Bumping
<1>4. inner = generation + 1 /\ inner = built
  BY <1>3 DEF ResolverIInv, GenerationLag, At, Holding, Bumping
<1>5. /\ \A k \in Lookups : k # l => look'[k] = look[k]
      /\ look'[l].pc = next /\ look'[l].target = built + 1
      /\ look'[l].gen = look[l].gen /\ look'[l].seen = look[l].seen
  <2> HIDE DEF next
  <2> QED
    BY <1>1 DEF ResolverIInv, ResolverType
<1>6. ResolverType'
  <2>1. next \in Pcs
    BY DEF Pcs
  <2>2. wasted' \in BOOLEAN
    BY <1>1 DEF ResolverIInv, ResolverType
  <2> HIDE DEF next
  <2>3. built + 1 \in Nat
    BY DEF ResolverIInv, ResolverType
  <2>4. look' \in [Lookups -> [pc : Pcs, gen : Nat, seen : Nat, target : Nat]]
    BY <1>1, <2>1, <2>3 DEF ResolverIInv, ResolverType
  <2> QED
    BY <1>1, <2>2, <2>3, <2>4 DEF ResolverIInv, ResolverType
<1> HIDE DEF next
<1>7. LockHeld'
  <2>1. \A k \in Lookups : look'[k].pc \in Holding <=> k = l
    BY <1>2, <1>3, <1>5 DEF Holding, Bumping
  <2> QED
    BY <1>1, <1>3, <2>1 DEF LockHeld, At
<1>8. GenerationLag'
  <2>1. \E k \in Lookups : look'[k].pc \in Bumping
    BY <1>2, <1>5
  <2>2. inner' = built' /\ inner' = generation' + 2
    BY <1>1, <1>4 DEF ResolverIInv, ResolverType
  <2> QED
    BY <2>1, <2>2 DEF GenerationLag, At
<1>9. ReadsOrdered'
  <2> SUFFICES ASSUME NEW k \in Lookups
               PROVE  /\ look'[k].gen =< generation /\ look'[k].seen =< built + 1
                      /\ look'[k].pc \in {"query", "errLock", "errBuild", "errBump", "retry"}
                           => look'[k].seen >= look'[k].gen + 1
                      /\ look'[k].pc = "errBuild" => look'[k].gen = generation
                      /\ look'[k].pc \in {"errBump", "retry"} => look'[k].target = built + 1
    BY <1>1 DEF ReadsOrdered, At
  <2>1. CASE k = l
    BY <2>1, <1>1, <1>2, <1>4, <1>5
       DEF ResolverIInv, ResolverType, ReadsOrdered, At, Bumping
  <2>2. CASE k # l
    BY <2>2, <1>1, <1>3, <1>4, <1>5
       DEF ResolverIInv, ResolverType, ReadsOrdered, At, Holding
  <2> QED
    BY <2>1, <2>2
<1>10. ~wasted'
  BY <1>1, <1>4 DEF ResolverIInv, ResolverType, ReadsOrdered, At
<1> QED
  BY <1>6, <1>7, <1>8, <1>9, <1>10 DEF ResolverIInv

LEMMA BuildFailsKeeps ==
  ASSUME ResolverIInv, NEW l \in Lookups, BuildFails(l) PROVE ResolverIInv'
  BY ResolverConstants DEF ResolverIInv, ResolverType, LockHeld, GenerationLag, ReadsOrdered,
     BuildFails, At, Goto, Pcs, Holding, Bumping

LEMMA BumpKeeps ==
  ASSUME ResolverIInv, NEW l \in Lookups, Bump(l) PROVE ResolverIInv'
  BY ResolverConstants DEF ResolverIInv, ResolverType, LockHeld, GenerationLag, ReadsOrdered,
     Bump, At, Goto, Pcs, Holding, Bumping

LEMMA ReadsKeep ==
  ASSUME ResolverIInv, NEW l \in Lookups, ReadGeneration(l) \/ ReadInner(l)
  PROVE  ResolverIInv'
  BY ResolverConstants DEF ResolverIInv, ResolverType, LockHeld, GenerationLag, ReadsOrdered,
     ReadGeneration, ReadInner, At, Goto, Pcs, Holding, Bumping

LEMMA AnswerKeeps ==
  ASSUME ResolverIInv, NEW l \in Lookups, NEW a \in {"ok", "stale", "err"}, Answer(l, a)
  PROVE  ResolverIInv'
  BY ResolverConstants DEF ResolverIInv, ResolverType, LockHeld, GenerationLag, ReadsOrdered,
     Answer, At, Goto, Pcs, Holding, Bumping

LEMMA ErrLockedKeeps ==
  ASSUME ResolverIInv, NEW l \in Lookups, ErrLocked(l) PROVE ResolverIInv'
<1>1. /\ \A k \in Lookups : look[k].pc \notin Holding
      /\ look[l].pc = "errLock" /\ holder' = l
      /\ UNCHANGED <<inner, built, generation, activity, broken, wasted>>
  BY ResolverConstants DEF ResolverIInv, LockHeld, ErrLocked, At
<1>2. CASE generation # look[l].gen
  <2>1. look' = [look EXCEPT ![l].pc = "retry", ![l].target = inner]
    BY <1>2 DEF ErrLocked, Replaced
  <2> QED
    BY ZenonT(40), <1>1, <2>1 DEF ResolverIInv, ResolverType, LockHeld, GenerationLag, ReadsOrdered, At,
       Pcs, Holding, Bumping
<1>3. CASE generation = look[l].gen
  <2>1. look' = [look EXCEPT ![l].pc = "errBuild"]
    BY <1>3 DEF ErrLocked, Replaced, Goto
  <2> QED
    BY <1>1, <1>3, <2>1 DEF ResolverIInv, ResolverType, LockHeld, GenerationLag, ReadsOrdered,
       At, Pcs, Holding, Bumping
<1> QED
  BY <1>2, <1>3

LEMMA RetryKeeps ==
  ASSUME ResolverIInv, NEW l \in Lookups, NEW a \in Ended, Retry(l, a)
  PROVE  ResolverIInv'
  BY ResolverConstants DEF ResolverIInv, ResolverType, LockHeld, GenerationLag, ReadsOrdered,
     Retry, Ended, At, Goto, Pcs, Holding, Bumping

LEMMA TimeKeeps ==
  ASSUME ResolverIInv, Age \/ Break PROVE ResolverIInv'
  BY DEF ResolverIInv, ResolverType, LockHeld, GenerationLag, ReadsOrdered, Age, Break, At,
     Pcs, Holding, Bumping

LEMMA ResolverStutters ==
  ASSUME ResolverIInv, UNCHANGED resolverVars PROVE ResolverIInv'
  BY DEF ResolverIInv, ResolverType, LockHeld, GenerationLag, ReadsOrdered, resolverVars, At

LEMMA ResolverInductive == ResolverIInv /\ [ResolverNext]_resolverVars => ResolverIInv'
<1> SUFFICES ASSUME ResolverIInv, [ResolverNext]_resolverVars PROVE ResolverIInv'
    OBVIOUS
<1>1. ASSUME NEW l \in Lookups, Begin(l) PROVE ResolverIInv'
  BY <1>1, BeginKeeps
<1>2. ASSUME NEW l \in Lookups, IdleLocked(l) PROVE ResolverIInv'
  BY <1>2, IdleLockedKeeps
<1>3. ASSUME NEW l \in Lookups, Build(l) PROVE ResolverIInv'
  BY <1>3, BuildKeeps
<1>4. ASSUME NEW l \in Lookups, BuildFails(l) PROVE ResolverIInv'
  BY <1>4, BuildFailsKeeps
<1>5. ASSUME NEW l \in Lookups, Bump(l) PROVE ResolverIInv'
  BY <1>5, BumpKeeps
<1>6. ASSUME NEW l \in Lookups, ReadGeneration(l) \/ ReadInner(l) PROVE ResolverIInv'
  BY <1>6, ReadsKeep
<1>7. ASSUME NEW l \in Lookups, ErrLocked(l) PROVE ResolverIInv'
  BY <1>7, ErrLockedKeeps
<1>8. ASSUME NEW l \in Lookups, NEW a \in {"ok", "stale", "err"}, Answer(l, a)
      PROVE  ResolverIInv'
  BY <1>8, AnswerKeeps
<1>9. ASSUME NEW l \in Lookups, NEW a \in Ended, Retry(l, a) PROVE ResolverIInv'
  BY <1>9, RetryKeeps
<1>10. CASE Age \/ Break
  BY <1>10, TimeKeeps
<1>11. CASE UNCHANGED resolverVars
  BY <1>11, ResolverStutters
<1> QED
  BY <1>1, <1>2, <1>3, <1>4, <1>5, <1>6, <1>7, <1>8, <1>9, <1>10, <1>11 DEF ResolverNext

LEMMA ResolverImplied == ResolverIInv => ResolverSafe
  BY ResolverConstants DEF ResolverIInv, ResolverType, LockHeld, GenerationLag, ReadsOrdered,
     ResolverSafe, At, Holding, Bumping

(* Whatever the number of lookups: lookups that fail together cost one rebuild,
   and no lookup retries on an older resolver than the one it saw fail
   (resolver.rs, refresh_after_error). *)
THEOREM ResolverAlwaysSafe == ResolverSpec => []ResolverSafe
<1>1. ResolverInit => ResolverIInv
  BY ResolverInitial
<1>2. ResolverIInv /\ [ResolverNext]_resolverVars => ResolverIInv'
  BY ResolverInductive
<1>3. ResolverIInv => ResolverSafe
  BY ResolverImplied
<1> QED
  BY <1>1, <1>2, <1>3, PTL DEF ResolverSpec

------------------------------------------------------------------------------
(* The UDP router. *)

RouterPcs == {"none", "parked", "out", "drain", "read", "flush", "tail"}

(* Queued responses are sent only while the client can be written to, and a
   router that has finished is not polled again. *)
RouterPhase ==
    /\ rpc \in RouterPcs /\ (rpc = "drain" => ~writeEnd)
    /\ {needsFlush, wrote, readEnd, writeEnd, timer, quiet, done} \subseteq BOOLEAN
    /\ done => rpc = "parked"
    /\ FinishesEmpty

(* Of the buffers a pool has made, n are in use. *)
PoolHolds(pool, n) == pool \in PoolType /\ pool.created = pool.idle + n

(* The counters of the sessions: exact for the sessions there are, and zero for
   those to come. *)
CountsSound(counts, q, n, open, exact) ==
    /\ q \in Seq(1..n) /\ counts \in [SessionIds -> 0..PerSession]
    /\ \A i \in SessionIds : i > n => counts[i] = 0
    /\ exact => \A i \in open : counts[i] = Entries(q, i)

RemoteSide ==
    PoolHolds(remotePool, Len(remoteQ)) /\ CountsSound(inRemote, remoteQ, nextId, sessions, TRUE)
ServerSide ==
    PoolHolds(serverPool, Len(serverQ)) /\ CountsSound(inServer, serverQ, nextId, sessions, ~writeEnd)

(* The lookup table, and the streams being shut down: no more than sessions were. *)
LookupSide ==
    /\ nextId \in 0..MaxIds /\ sessions \subseteq 1..nextId
    /\ creating \subseteq Flows /\ lookup \in [Flows -> {0} \cup SessionIds]
    /\ flowOf \in [SessionIds -> Flows]
    /\ shutdowns \in Nat /\ shutdowns + Cardinality(sessions) <= nextId
    /\ LookupAgrees

DeadSide ==
    /\ deadRead \cup deadWrite \cup flushQ \cup toRemove \subseteq 1..nextId
    /\ DeadIsMarked

RouterIInv == RouterPhase /\ RemoteSide /\ ServerSide /\ LookupSide /\ DeadSide

(* The entries of a queue for one session, as the queue grows and shrinks. *)
LEMMA EntriesType ==
  ASSUME NEW S, NEW q \in Seq(S), NEW i
  PROVE  IsFiniteSet({k \in DOMAIN q : q[k] = i}) /\ Entries(q, i) \in Nat
<1>1. DOMAIN q = 1..Len(q) /\ Len(q) \in Nat /\ 1 \in Int
  BY LenProperties
<1>2. IsFiniteSet(1..Len(q)) /\ {k \in DOMAIN q : q[k] = i} \in SUBSET (1..Len(q))
  BY <1>1, FS_Interval
<1> QED
  BY <1>2, FS_Subset, FS_CardinalityType DEF Entries

LEMMA EntriesNone ==
  ASSUME NEW S, NEW q \in Seq(S), NEW i, i \notin S
  PROVE  Entries(q, i) = 0
<1>1. {k \in DOMAIN q : q[k] = i} = {}
  BY ElementOfSeq, LenProperties
<1> QED
  BY <1>1, FS_EmptySet DEF Entries

LEMMA EntriesEmpty == ASSUME NEW i PROVE Entries(<<>>, i) = 0
<1>1. {k \in DOMAIN <<>> : <<>>[k] = i} = {}
  BY EmptySeq
<1> QED
  BY <1>1, FS_EmptySet DEF Entries

LEMMA EntriesAppend ==
  ASSUME NEW S, NEW q \in Seq(S), NEW x \in S, NEW i
  PROVE  Entries(Append(q, x), i) = IF x = i THEN Entries(q, i) + 1 ELSE Entries(q, i)
<1> DEFINE E == {k \in DOMAIN q : q[k] = i}
           F == {k \in DOMAIN Append(q, x) : Append(q, x)[k] = i}
<1>1. /\ Len(q) \in Nat /\ DOMAIN q = 1..Len(q) /\ DOMAIN Append(q, x) = 1..(Len(q) + 1)
      /\ \A k \in 1..Len(q) : Append(q, x)[k] = q[k]
      /\ Append(q, x)[Len(q) + 1] = x
  BY AppendProperties, LenProperties
<1>2. IsFiniteSet(E)
  BY EntriesType
<1>2a. Len(q) + 1 \notin E
  BY <1>1
<1>3. CASE x = i
  <2>1. F = E \cup {Len(q) + 1}
    BY <1>1, <1>3
  <2> QED
    BY <1>2, <1>2a, <1>3, <2>1, FS_AddElement DEF Entries
<1>4. CASE x # i
  <2>1. F = E
    BY <1>1, <1>4
  <2> QED
    BY <1>4, <2>1 DEF Entries
<1> QED
  BY <1>3, <1>4

LEMMA EntriesTail ==
  ASSUME NEW S, NEW q \in Seq(S), q # <<>>, NEW i
  PROVE  Entries(q, i) = IF Head(q) = i THEN Entries(Tail(q), i) + 1 ELSE Entries(Tail(q), i)
<1> DEFINE E == {k \in DOMAIN Tail(q) : Tail(q)[k] = i}
           F == {k \in 2..Len(q) : q[k] = i}
           G == {k \in DOMAIN q : q[k] = i}
           f == [k \in E |-> k + 1]
<1>1. /\ Len(q) \in Nat \ {0} /\ DOMAIN q = 1..Len(q) /\ DOMAIN Tail(q) = 1..(Len(q) - 1)
      /\ \A k \in 1..(Len(q) - 1) : Tail(q)[k] = q[k + 1]
      /\ Head(q) = q[1] /\ Tail(q) \in Seq(S)
  BY HeadTailProperties, LenProperties, EmptySeq
<1>2. IsFiniteSet(E)
  <2>1. Tail(q) \in Seq(S)
    BY <1>1
  <2> QED
    BY <2>1, EntriesType
<1>3. \A k \in E : k \in Nat /\ k + 1 \in F
  BY <1>1
<1>4. \A k \in F : k - 1 \in E /\ (k - 1) + 1 = k
  BY <1>1
<1>5. f \in Bijection(E, F)
  <2>1. f \in [E -> F]
    BY <1>3
  <2>2. \A j, k \in E : f[j] = f[k] => j = k
    BY <1>3
  <2>3. \A k \in F : \E j \in E : f[j] = k
    BY <1>4
  <2> HIDE DEF f, E, F
  <2> QED
    BY <2>1, <2>2, <2>3 DEF Bijection, Injection, Surjection, IsInjective
<1>6. IsFiniteSet(F) /\ Cardinality(F) = Cardinality(E)
  BY <1>2, <1>5, FS_Bijection DEF ExistsBijection
<1>7. CASE Head(q) = i
  <2>1. G = F \cup {1} /\ 1 \notin F
    BY <1>1, <1>7
  <2> QED
    BY <1>6, <1>7, <2>1, FS_AddElement DEF Entries
<1>8. CASE Head(q) # i
  <2>1. G = F
    BY <1>1, <1>8
  <2> QED
    BY <1>6, <1>8, <2>1 DEF Entries
<1> QED
  BY <1>7, <1>8

(* The pool: taking a buffer for the queue, giving one back, both at once, and
   the trim of a pool that has none in use. *)
LEMMA PoolTakes ==
  ASSUME NEW p, NEW n \in Nat, PoolHolds(p, n), CanAcquire(p)
  PROVE  PoolHolds(Acquired(p), n + 1) /\ PoolHolds(Released(Acquired(p)), n)
<1>1. p \in [idle : 0..PoolMax, created : 0..PoolMax] /\ p.created = p.idle + n /\ PoolMax \in Nat
  BY RouterConstants DEF PoolHolds, PoolType
<1>2. CASE p.idle > 0
  <2> DEFINE a == [p EXCEPT !.idle = @ - 1]
             b == [a EXCEPT !.idle = @ + 1]
  <2>1. a \in PoolType /\ a.idle = p.idle - 1 /\ a.created = p.created
    BY <1>1, <1>2 DEF PoolType
  <2>3. Acquired(p) = a /\ Released(Acquired(p)) = b
    BY <1>2 DEF Acquired, Released
  <2> HIDE DEF a
  <2>1a. a.idle + 1 = p.idle /\ p.idle \in 0..PoolMax
    BY <1>1, <2>1
  <2>2. b \in PoolType /\ b.idle = p.idle /\ b.created = p.created
    BY <2>1, <2>1a DEF PoolType
  <2> HIDE DEF b
  <2> QED
    BY <1>1, <2>1, <2>2, <2>3 DEF PoolHolds
<1>3. CASE ~(p.idle > 0)
  <2> DEFINE a == [p EXCEPT !.created = @ + 1]
             b == [a EXCEPT !.idle = @ + 1]
  <2>1. p.idle = 0 /\ p.created < PoolMax
    BY <1>1, <1>3 DEF CanAcquire
  <2>2. a \in PoolType /\ a.idle = 0 /\ a.created = p.created + 1
    BY <1>1, <2>1 DEF PoolType
  <2>4. Acquired(p) = a /\ Released(Acquired(p)) = b
    BY <1>3 DEF Acquired, Released
  <2> HIDE DEF a
  <2>2a. a.idle + 1 = 1 /\ 1 \in 0..PoolMax
    BY <1>1, <2>1, <2>2
  <2>3. b \in PoolType /\ b.idle = 1 /\ b.created = p.created + 1
    BY <2>2, <2>2a DEF PoolType
  <2> HIDE DEF b
  <2> QED
    BY <1>1, <2>1, <2>2, <2>3, <2>4 DEF PoolHolds
<1> QED
  BY <1>2, <1>3

LEMMA PoolGives ==
  ASSUME NEW p, NEW n \in Nat \ {0}, PoolHolds(p, n)
  PROVE  PoolHolds(Released(p), n - 1)
<1> DEFINE b == [p EXCEPT !.idle = @ + 1]
<1>1. p \in [idle : 0..PoolMax, created : 0..PoolMax] /\ p.created = p.idle + n /\ PoolMax \in Nat
  BY RouterConstants DEF PoolHolds, PoolType
<1>2. b \in PoolType /\ b.idle = p.idle + 1 /\ b.created = p.created
  BY <1>1 DEF PoolType
<1> HIDE DEF b
<1>3. PoolHolds(b, n - 1)
  BY <1>1, <1>2 DEF PoolHolds
<1> QED
  BY <1>3 DEF Released, b

LEMMA PoolTrims ==
  ASSUME NEW p, PoolHolds(p, 0)
  PROVE  PoolHolds(Trimmed(p), 0)
<1> DEFINE b == [idle |-> KeepIdle, created |-> p.created - (p.idle - KeepIdle)]
<1>1. /\ p \in [idle : 0..PoolMax, created : 0..PoolMax] /\ p.created = p.idle
      /\ PoolMax \in Nat /\ KeepIdle \in Nat
  BY RouterConstants DEF PoolHolds, PoolType
<1>2. CASE p.idle > KeepIdle
  <2>1. p.created - (p.idle - KeepIdle) = KeepIdle /\ KeepIdle \in 0..PoolMax
    BY <1>1, <1>2
  <2>2. b \in PoolType /\ b.created = b.idle + 0
    BY <2>1, <1>1 DEF PoolType
  <2>3. Trimmed(p) = b
    BY <1>2 DEF Trimmed
  <2> QED
    BY <2>2, <2>3 DEF PoolHolds
<1>3. CASE ~(p.idle > KeepIdle)
  BY <1>3 DEF Trimmed
<1> QED
  BY <1>2, <1>3

LEMMA PoolEmptied == PoolHolds([idle |-> 0, created |-> 0], Len(<<>>))
<1>1. Len(<<>>) = 0 /\ 0 \in 0..PoolMax
  BY EmptySeq, RouterConstants
<1> QED
  BY <1>1 DEF PoolHolds, PoolType

(* The queue and the counters: an entry more, an entry less, an entry moved to the
   end, fewer sessions, a session more. *)
LEMMA QueueGrows ==
  ASSUME NEW c, NEW q, NEW n \in 0..MaxIds, NEW open, NEW exact, CountsSound(c, q, n, open, exact),
         NEW i \in 1..n, c[i] < PerSession, open \subseteq 1..n
  PROVE  CountsSound([c EXCEPT ![i] = @ + 1], Append(q, i), n, open, exact)
<1> DEFINE d == [c EXCEPT ![i] = @ + 1]
<1>1. /\ q \in Seq(1..n) /\ c \in [SessionIds -> 0..PerSession] /\ i \in SessionIds
      /\ c[i] + 1 \in 0..PerSession /\ 1..n \subseteq SessionIds /\ n \in Nat
  BY RouterConstants DEF CountsSound, SessionIds
<1>2. d \in [SessionIds -> 0..PerSession] /\ \A j \in SessionIds : d[j] = IF j = i THEN c[j] + 1 ELSE c[j]
  BY <1>1
<1> HIDE DEF d
<1>3. Append(q, i) \in Seq(1..n)
  BY <1>1, AppendProperties
<1>4. \A j \in SessionIds : j > n => d[j] = 0
  BY <1>1, <1>2 DEF CountsSound, SessionIds
<1>5. ASSUME exact, NEW j \in open PROVE d[j] = Entries(Append(q, i), j)
  <2>1. c[j] = Entries(q, j) /\ j \in SessionIds
    BY <1>1, <1>5 DEF CountsSound
  <2>2. Entries(Append(q, i), j) = IF i = j THEN Entries(q, j) + 1 ELSE Entries(q, j)
    BY SMTT(25), <1>1, EntriesAppend
  <2> QED
    BY <1>2, <2>1, <2>2
<1> QED
  BY <1>2, <1>3, <1>4, <1>5 DEF CountsSound, d

LEMMA QueueShrinks ==
  ASSUME NEW c, NEW q, NEW n \in 0..MaxIds, NEW open, CountsSound(c, q, n, open, TRUE),
         q # <<>>, open \subseteq 1..n
  PROVE  /\ Head(q) \in 1..n /\ Tail(q) \in Seq(1..n)
         /\ Head(q) \in open => CountsSound([c EXCEPT ![Head(q)] = @ - 1], Tail(q), n, open, TRUE)
         /\ Head(q) \notin open => CountsSound(c, Tail(q), n, open, TRUE)
<1> DEFINE i == Head(q)
           d == [c EXCEPT ![i] = @ - 1]
<1>1. /\ q \in Seq(1..n) /\ c \in [SessionIds -> 0..PerSession] /\ 1..n \subseteq SessionIds /\ n \in Nat
      /\ PerSession \in Nat
  BY RouterConstants DEF CountsSound, SessionIds
<1>2. i \in 1..n /\ Tail(q) \in Seq(1..n)
  BY <1>1, HeadTailProperties
<1> HIDE DEF i
<1>3. \A j : Entries(q, j) = (IF i = j THEN Entries(Tail(q), j) + 1 ELSE Entries(Tail(q), j))
             /\ Entries(Tail(q), j) \in Nat
  BY <1>1, <1>2, EntriesTail, EntriesType DEF i
<1>4. CASE i \in open
  <2>1. c[i] = Entries(Tail(q), i) + 1 /\ c[i] \in 0..PerSession
    BY <1>1, <1>2, <1>3, <1>4 DEF CountsSound
  <2>2. c[i] - 1 \in 0..PerSession
    BY <1>1, <1>3, <2>1
  <2>3. d \in [SessionIds -> 0..PerSession] /\ \A j \in SessionIds : d[j] = IF j = i THEN c[j] - 1 ELSE c[j]
    BY <1>1, <2>2
  <2> HIDE DEF d
  <2>4. \A j \in SessionIds : j > n => d[j] = 0
    BY <1>1, <1>2, <2>3 DEF CountsSound, SessionIds
  <2>5. ASSUME NEW j \in open PROVE d[j] = Entries(Tail(q), j)
    <3>1. j \in SessionIds /\ c[j] = Entries(q, j)
      BY <1>1 DEF CountsSound
    <3> QED
      BY <1>3, <2>1, <2>3, <3>1
  <2>6. CountsSound(d, Tail(q), n, open, TRUE)
    BY <1>2, <2>3, <2>4, <2>5 DEF CountsSound
  <2> QED
    BY <1>2, <1>4, <2>6 DEF d, i
<1>5. CASE i \notin open
  <2>1. \A j \in open : c[j] = Entries(Tail(q), j)
    BY <1>3, <1>5 DEF CountsSound
  <2>2. CountsSound(c, Tail(q), n, open, TRUE)
    BY <1>2, <2>1 DEF CountsSound
  <2> QED
    BY <1>2, <1>5, <2>2 DEF i
<1> QED
  BY <1>4, <1>5

LEMMA QueueRotates ==
  ASSUME NEW c, NEW q, NEW n \in 0..MaxIds, NEW open, CountsSound(c, q, n, open, TRUE), q # <<>>
  PROVE  CountsSound(c, Append(Tail(q), Head(q)), n, open, TRUE)
<1>1. q \in Seq(1..n)
  BY DEF CountsSound
<1>2. Head(q) \in 1..n /\ Tail(q) \in Seq(1..n)
  BY <1>1, HeadTailProperties
<1>3. Append(Tail(q), Head(q)) \in Seq(1..n)
  BY <1>2, AppendProperties
<1>4. ASSUME NEW j PROVE Entries(Append(Tail(q), Head(q)), j) = Entries(q, j)
  <2>1. Entries(q, j) = IF Head(q) = j THEN Entries(Tail(q), j) + 1 ELSE Entries(Tail(q), j)
    BY <1>1, EntriesTail
  <2>2. Entries(Append(Tail(q), Head(q)), j) =
          IF Head(q) = j THEN Entries(Tail(q), j) + 1 ELSE Entries(Tail(q), j)
    <3> DEFINE h == Head(q)
               r == Tail(q)
    <3>1. h \in 1..n /\ r \in Seq(1..n)
      BY <1>2
    <3> HIDE DEF h, r
    <3>2. Entries(Append(r, h), j) = IF h = j THEN Entries(r, j) + 1 ELSE Entries(r, j)
      BY <3>1, EntriesAppend
    <3> QED
      BY <3>2 DEF h, r
  <2> QED
    BY <2>1, <2>2
<1> QED
  BY <1>3, <1>4 DEF CountsSound

LEMMA FewerSessions ==
  ASSUME NEW c, NEW q, NEW n, NEW open \in SUBSET SessionIds, NEW left \in SUBSET open, NEW exact,
         CountsSound(c, q, n, open, exact)
  PROVE  CountsSound([i \in SessionIds |-> IF i \in left THEN c[i] ELSE 0], q, n, left, exact)
<1> DEFINE d == [i \in SessionIds |-> IF i \in left THEN c[i] ELSE 0]
<1>1. c \in [SessionIds -> 0..PerSession] /\ 0 \in 0..PerSession
  BY RouterConstants DEF CountsSound
<1>2. d \in [SessionIds -> 0..PerSession]
  BY <1>1
<1>3. \A i \in SessionIds : d[i] = IF i \in left THEN c[i] ELSE 0
  OBVIOUS
<1> HIDE DEF d
<1>4. \A i \in SessionIds : i > n => d[i] = 0
  BY <1>3 DEF CountsSound
<1>5. exact => \A i \in left : d[i] = Entries(q, i)
  BY <1>3 DEF CountsSound
<1>6. CountsSound(d, q, n, left, exact)
  BY <1>2, <1>4, <1>5 DEF CountsSound
<1> QED
  BY <1>6 DEF d

LEMMA OneMoreSession ==
  ASSUME NEW c, NEW q, NEW n \in 0..MaxIds, n + 1 \in SessionIds, NEW open, NEW exact,
         NEW now \in SUBSET (open \cup {n + 1}), CountsSound(c, q, n, open, exact)
  PROVE  CountsSound(c, q, n + 1, now, exact) /\ c[n + 1] = 0
<1>1. n \in Nat /\ 1..n \subseteq 1..(n + 1) /\ n + 1 > n /\ n + 1 \notin 1..n
  BY RouterConstants
<1>2. q \in Seq(1..n) /\ q \in Seq(1..(n + 1))
  BY <1>1 DEF CountsSound
<1>3. c[n + 1] = 0 /\ Entries(q, n + 1) = 0
  BY <1>1, <1>2, EntriesNone DEF CountsSound
<1>4. \A i \in SessionIds : i > n + 1 => i > n
  BY <1>1 DEF SessionIds
<1> QED
  BY <1>2, <1>3, <1>4 DEF CountsSound

(* The buffers and the counters of what goes to the remotes. *)
LEMMA RemoteKeeps == ASSUME RouterIInv, RouterNext PROVE RemoteSide'
<1>0. /\ RemoteSide /\ LookupSide /\ nextId \in 0..MaxIds /\ sessions \subseteq 1..nextId
      /\ PoolHolds(remotePool, Len(remoteQ)) /\ CountsSound(inRemote, remoteQ, nextId, sessions, TRUE)
  BY DEF RouterIInv, RemoteSide, LookupSide
<1>01. 1..nextId \subseteq SessionIds
  BY <1>0, RouterConstants DEF SessionIds
<1>00. remoteQ \in Seq(1..nextId) /\ Len(remoteQ) \in Nat
  BY <1>0, LenProperties DEF CountsSound
<1>1. ASSUME Start PROVE RemoteSide'
  <2>1. UNCHANGED <<remotePool, remoteQ, inRemote, sessions, nextId>>
    BY <1>1 DEF Start, outVars, inVars, endVars
  <2> QED
    BY <1>0, <2>1 DEF RemoteSide
<1>2. ASSUME Wake PROVE RemoteSide'
  <2>1. UNCHANGED <<remotePool, remoteQ, inRemote, sessions, nextId>>
    BY <1>2 DEF Wake, outVars, inVars, endVars
  <2> QED
    BY <1>0, <2>1 DEF RemoteSide
<1>3. ASSUME DrainRemote PROVE RemoteSide'
  <2> DEFINE h == Head(remoteQ)
  <2>1. /\ remoteQ # <<>> /\ UNCHANGED <<sessions, nextId>>
        /\ \/ /\ remoteQ' = Append(Tail(remoteQ), h) /\ UNCHANGED <<inRemote, remotePool>>
           \/ /\ remoteQ' = Tail(remoteQ) /\ remotePool' = Released(remotePool)
              /\ inRemote' = IF h \in sessions THEN [inRemote EXCEPT ![h] = @ - 1] ELSE inRemote
    BY <1>3 DEF DrainRemote, outVars, inVars, endVars
  <2>2. /\ Tail(remoteQ) \in Seq(1..nextId) /\ h \in 1..nextId /\ Len(Tail(remoteQ)) = Len(remoteQ) - 1
        /\ Len(remoteQ) \in Nat \ {0}
    BY <1>00, <2>1, HeadTailProperties, EmptySeq
  <2>3. Len(Append(Tail(remoteQ), h)) = Len(remoteQ)
    BY <2>2, AppendProperties
  <2>4. CASE remoteQ' = Append(Tail(remoteQ), h) /\ UNCHANGED <<inRemote, remotePool>>
    <3>1. CountsSound(inRemote, remoteQ', nextId, sessions, TRUE)
      BY <1>0, <2>1, <2>4, QueueRotates
    <3> QED
      BY <1>0, <2>1, <2>3, <2>4, <3>1 DEF RemoteSide
  <2>5. CASE /\ remoteQ' = Tail(remoteQ) /\ remotePool' = Released(remotePool)
             /\ inRemote' = IF h \in sessions THEN [inRemote EXCEPT ![h] = @ - 1] ELSE inRemote
    <3>1. CountsSound(inRemote', remoteQ', nextId, sessions, TRUE)
      BY <1>0, <2>1, <2>5, QueueShrinks
    <3>2. PoolHolds(remotePool', Len(remoteQ'))
      BY <1>0, <2>2, <2>5, PoolGives
    <3> QED
      BY <2>1, <3>1, <3>2 DEF RemoteSide
  <2> QED
    BY <2>1, <2>4, <2>5
<1>4. ASSUME ReadEnds PROVE RemoteSide'
  <2>1. UNCHANGED <<remotePool, remoteQ, inRemote, sessions, nextId>>
    BY <1>4 DEF ReadEnds, outVars, inVars, endVars
  <2> QED
    BY <1>0, <2>1 DEF RemoteSide
<1>5. ASSUME OutDone PROVE RemoteSide'
  <2>1. UNCHANGED <<remotePool, remoteQ, inRemote, sessions, nextId>>
    BY <1>5 DEF OutDone, outVars, inVars, endVars
  <2> QED
    BY <1>0, <2>1 DEF RemoteSide
<1>6. ASSUME DrainServer PROVE RemoteSide'
  <2>1. UNCHANGED <<remotePool, remoteQ, inRemote, sessions, nextId>>
    BY <1>6 DEF DrainServer, inFrame, outVars, inVars, endVars, WriteSideEnds
  <2> QED
    BY <1>0, <2>1 DEF RemoteSide
<1>7. ASSUME DrainServerEnds PROVE RemoteSide'
  <2>1. UNCHANGED <<remotePool, remoteQ, inRemote, sessions, nextId>>
    BY <1>7 DEF DrainServerEnds, inFrame, outVars, inVars, endVars
  <2> QED
    BY <1>0, <2>1 DEF RemoteSide
<1>8. ASSUME ReadRemotesEnd PROVE RemoteSide'
  <2>1. UNCHANGED <<remotePool, remoteQ, inRemote, sessions, nextId>>
    BY <1>8 DEF ReadRemotesEnd, inFrame, outVars, inVars, endVars
  <2> QED
    BY <1>0, <2>1 DEF RemoteSide
<1>9. ASSUME PingServer PROVE RemoteSide'
  <2>1. UNCHANGED <<remotePool, remoteQ, inRemote, sessions, nextId>>
    BY <1>9 DEF PingServer, inFrame, outVars, inVars, endVars, WriteSideEnds
  <2> QED
    BY <1>0, <2>1 DEF RemoteSide
<1>10. ASSUME FlushServer PROVE RemoteSide'
  <2>1. UNCHANGED <<remotePool, remoteQ, inRemote, sessions, nextId>>
    BY <1>10 DEF FlushServer, inFrame, outVars, inVars, endVars, WriteSideEnds
  <2> QED
    BY <1>0, <2>1 DEF RemoteSide
<1>11. ASSUME TailStep PROVE RemoteSide'
  <2>1. PICK expired \in SUBSET sessions, closed \in 0..MaxIds, fires \in BOOLEAN :
           TailWith(expired, closed, fires)
    BY <1>11 DEF TailStep
  <2>2. /\ sessions' \subseteq sessions /\ UNCHANGED <<remoteQ, nextId>>
        /\ inRemote' = [i \in SessionIds |-> IF i \in sessions' THEN inRemote[i] ELSE 0]
        /\ remotePool' = IF remoteQ = <<>> THEN Trimmed(remotePool) ELSE remotePool
    BY <2>1 DEF TailWith
  <2>3. CountsSound(inRemote', remoteQ, nextId, sessions', TRUE)
    <3> DEFINE left == sessions'
    <3>1. left \in SUBSET sessions /\ sessions \in SUBSET SessionIds
      BY <1>0, <1>01, <2>2
    <3>2. inRemote' = [i \in SessionIds |-> IF i \in left THEN inRemote[i] ELSE 0]
      BY <2>2
    <3> HIDE DEF left
    <3>3. CountsSound([i \in SessionIds |-> IF i \in left THEN inRemote[i] ELSE 0],
                      remoteQ, nextId, left, TRUE)
      BY ZenonT(40), <1>0, <3>1, FewerSessions
    <3> QED
      BY <3>2, <3>3 DEF left
  <2>4. PoolHolds(remotePool', Len(remoteQ))
    BY <1>0, <2>2, PoolTrims, EmptySeq
  <2> QED
    BY <2>2, <2>3, <2>4 DEF RemoteSide
<1>12. ASSUME GoQuiet PROVE RemoteSide'
  <2>1. UNCHANGED <<remotePool, remoteQ, inRemote, sessions, nextId>>
    BY <1>12 DEF GoQuiet, outVars, inVars, endVars
  <2> QED
    BY <1>0, <2>1 DEF RemoteSide
<1>13. ASSUME NEW f \in Flows, Created(f) PROVE RemoteSide'
  <2> DEFINE n == nextId + 1
  <2>1. /\ nextId < MaxIds /\ nextId' = n /\ sessions' \subseteq sessions \cup {n}
        /\ \/ UNCHANGED <<remoteQ, inRemote, remotePool>>
           \/ /\ CanAcquire(remotePool) /\ remotePool' = Acquired(remotePool)
              /\ remoteQ' = Append(remoteQ, n) /\ inRemote' = [inRemote EXCEPT ![n] = 1]
    BY <1>13 DEF Created, outVars, inVars, endVars
  <2>2. n \in SessionIds /\ n \in 0..MaxIds /\ n \in 1..n /\ 0 + 1 = 1 /\ 0 < PerSession
    BY <1>0, <2>1, RouterConstants DEF SessionIds
  <2>3. CountsSound(inRemote, remoteQ, n, sessions', TRUE) /\ inRemote[n] = 0
    BY <1>0, <2>1, <2>2, OneMoreSession
  <2>4. sessions' \subseteq 1..n
    BY <1>0, <2>1, <2>2
  <2> HIDE DEF n
  <2>5. CASE UNCHANGED <<remoteQ, inRemote, remotePool>>
    BY <1>0, <2>1, <2>3, <2>5 DEF RemoteSide
  <2>6. CASE /\ CanAcquire(remotePool) /\ remotePool' = Acquired(remotePool)
             /\ remoteQ' = Append(remoteQ, n) /\ inRemote' = [inRemote EXCEPT ![n] = 1]
    <3>1. inRemote' = [inRemote EXCEPT ![n] = @ + 1]
      BY <2>2, <2>3, <2>6
    <3>2. CountsSound(inRemote', remoteQ', n, sessions', TRUE)
      <4> DEFINE open == sessions'
      <4>1. CountsSound(inRemote, remoteQ, n, open, TRUE) /\ open \subseteq 1..n /\ inRemote[n] < PerSession
        BY <2>2, <2>3, <2>4
      <4> HIDE DEF open
      <4>2. CountsSound([inRemote EXCEPT ![n] = @ + 1], Append(remoteQ, n), n, open, TRUE)
        BY <2>2, <4>1, QueueGrows
      <4> QED
        BY <2>6, <3>1, <4>2 DEF open
    <3>3. Len(remoteQ') = Len(remoteQ) + 1
      BY <1>00, <2>6, <2>3, AppendProperties DEF CountsSound
    <3>4. PoolHolds(remotePool', Len(remoteQ'))
      BY <1>0, <1>00, <2>6, <3>3, PoolTakes
    <3> QED
      BY <2>1, <3>2, <3>4 DEF RemoteSide
  <2> QED
    BY <2>1, <2>5, <2>6
<1>14. ASSUME NEW f \in Flows, CreateFails(f) PROVE RemoteSide'
  <2>1. UNCHANGED <<remotePool, remoteQ, inRemote, sessions, nextId>>
    BY <1>14 DEF CreateFails, outVars, inVars, endVars
  <2> QED
    BY <1>0, <2>1 DEF RemoteSide
<1>15. ASSUME NEW f \in Flows, ReadClient(f) PROVE RemoteSide'
  <2> DEFINE k == lookup[f]
  <2>1. /\ CanAcquire(remotePool) /\ UNCHANGED <<sessions, nextId>>
        /\ \/ remotePool' = Released(Acquired(remotePool)) /\ UNCHANGED <<remoteQ, inRemote>>
           \/ /\ remotePool' = Acquired(remotePool) /\ remoteQ' = Append(remoteQ, k)
              /\ inRemote' = [inRemote EXCEPT ![k] = @ + 1] /\ k \in sessions
              /\ inRemote[k] < PerSession
    BY <1>15 DEF ReadClient, outVars, inVars, endVars
  <2> HIDE DEF k
  <2>2. CASE remotePool' = Released(Acquired(remotePool)) /\ UNCHANGED <<remoteQ, inRemote>>
    <3>1. PoolHolds(remotePool', Len(remoteQ))
      BY <1>0, <1>00, <2>1, <2>2, PoolTakes
    <3> QED
      BY <1>0, <2>1, <2>2, <3>1 DEF RemoteSide
  <2>3. CASE /\ remotePool' = Acquired(remotePool) /\ remoteQ' = Append(remoteQ, k)
             /\ inRemote' = [inRemote EXCEPT ![k] = @ + 1] /\ k \in sessions
             /\ inRemote[k] < PerSession
    <3>1. CountsSound(inRemote', remoteQ', nextId, sessions, TRUE)
      BY <1>0, <2>3, QueueGrows
    <3>2. Len(remoteQ') = Len(remoteQ) + 1
      BY <1>0, <1>00, <2>3, AppendProperties
    <3>3. PoolHolds(remotePool', Len(remoteQ'))
      BY <1>0, <1>00, <2>1, <2>3, <3>2, PoolTakes
    <3> QED
      BY <2>1, <3>1, <3>3 DEF RemoteSide
  <2> QED
    BY <2>1, <2>2, <2>3
<1>16. ASSUME NEW i \in SessionIds, FlushRemote(i) PROVE RemoteSide'
  <2>1. UNCHANGED <<remotePool, remoteQ, inRemote, sessions, nextId>>
    BY <1>16 DEF FlushRemote, outVars, inVars, endVars
  <2> QED
    BY <1>0, <2>1 DEF RemoteSide
<1>17. ASSUME NEW i \in SessionIds, PingRemote(i) PROVE RemoteSide'
  <2>1. UNCHANGED <<remotePool, remoteQ, inRemote, sessions, nextId>>
    BY <1>17 DEF PingRemote, outVars, inVars, endVars
  <2> QED
    BY <1>0, <2>1 DEF RemoteSide
<1>18. ASSUME NEW i \in SessionIds, ReadRemote(i) PROVE RemoteSide'
  <2>1. UNCHANGED <<remotePool, remoteQ, inRemote, sessions, nextId>>
    BY <1>18 DEF ReadRemote, inFrame, outVars, inVars, endVars, WriteSideEnds
  <2> QED
    BY <1>0, <2>1 DEF RemoteSide
<1> QED
  BY <1>1, <1>2, <1>3, <1>4, <1>5, <1>6, <1>7, <1>8, <1>9,
     <1>10, <1>11, <1>12, <1>13, <1>14, <1>15, <1>16, <1>17, <1>18 DEF RouterNext

(* The write side ends: the queue is dropped, and the counters need not match it
   any more. *)
LEMMA QueueDropped ==
  ASSUME NEW c, NEW q, NEW n, NEW open, NEW exact, CountsSound(c, q, n, open, exact)
  PROVE  CountsSound(c, <<>>, n, open, FALSE)
  BY EmptySeq DEF CountsSound

(* The buffers and the counters of the responses. *)
LEMMA ServerKeeps == ASSUME RouterIInv, RouterNext PROVE ServerSide'
<1>0. /\ ServerSide /\ LookupSide /\ nextId \in 0..MaxIds /\ sessions \subseteq 1..nextId
      /\ PoolHolds(serverPool, Len(serverQ)) /\ CountsSound(inServer, serverQ, nextId, sessions, ~writeEnd)
      /\ RouterPhase
  BY DEF RouterIInv, ServerSide, LookupSide
<1>01. 1..nextId \subseteq SessionIds
  BY <1>0, RouterConstants DEF SessionIds
<1>00. serverQ \in Seq(1..nextId) /\ Len(serverQ) \in Nat
  BY <1>0, LenProperties DEF CountsSound
<1>1. ASSUME Start PROVE ServerSide'
  <2>1. UNCHANGED <<serverPool, serverQ, inServer, sessions, nextId, writeEnd>>
    BY <1>1 DEF Start, outVars, inVars, endVars
  <2> QED
    BY <1>0, <2>1 DEF ServerSide
<1>2. ASSUME Wake PROVE ServerSide'
  <2>1. UNCHANGED <<serverPool, serverQ, inServer, sessions, nextId, writeEnd>>
    BY <1>2 DEF Wake, outVars, inVars, endVars
  <2> QED
    BY <1>0, <2>1 DEF ServerSide
<1>3. ASSUME DrainRemote PROVE ServerSide'
  <2>1. UNCHANGED <<serverPool, serverQ, inServer, sessions, nextId, writeEnd>>
    BY <1>3 DEF DrainRemote, outVars, inVars, endVars
  <2> QED
    BY <1>0, <2>1 DEF ServerSide
<1>4. ASSUME ReadEnds PROVE ServerSide'
  <2>1. UNCHANGED <<serverPool, serverQ, inServer, sessions, nextId, writeEnd>>
    BY <1>4 DEF ReadEnds, outVars, inVars, endVars
  <2> QED
    BY <1>0, <2>1 DEF ServerSide
<1>5. ASSUME OutDone PROVE ServerSide'
  <2>1. UNCHANGED <<serverPool, serverQ, inServer, sessions, nextId, writeEnd>>
    BY <1>5 DEF OutDone, outVars, inVars, endVars
  <2> QED
    BY <1>0, <2>1 DEF ServerSide
<1>6. ASSUME DrainServer PROVE ServerSide'
  <2> DEFINE h == Head(serverQ)
  <2>1. /\ serverQ # <<>> /\ UNCHANGED <<sessions, nextId>> /\ ~writeEnd
        /\ \/ /\ serverQ' = Tail(serverQ) /\ serverPool' = Released(serverPool) /\ writeEnd' = writeEnd
              /\ inServer' = IF h \in sessions THEN [inServer EXCEPT ![h] = @ - 1] ELSE inServer
           \/ h \in sessions /\ inServer' = [inServer EXCEPT ![h] = @ - 1] /\ WriteSideEnds
    BY <1>0, <1>6 DEF DrainServer, inFrame, outVars, endVars, RouterPhase
  <2>2. CountsSound(inServer, serverQ, nextId, sessions, TRUE)
    BY <1>0, <2>1
  <2>3. Tail(serverQ) \in Seq(1..nextId) /\ Len(Tail(serverQ)) = Len(serverQ) - 1 /\ Len(serverQ) \in Nat \ {0}
    BY <1>00, <2>1, HeadTailProperties, EmptySeq
  <2>4. /\ h \in sessions => CountsSound([inServer EXCEPT ![h] = @ - 1], Tail(serverQ), nextId, sessions, TRUE)
        /\ h \notin sessions => CountsSound(inServer, Tail(serverQ), nextId, sessions, TRUE)
    BY <1>0, <2>1, <2>2, QueueShrinks
  <2> HIDE DEF h
  <2>5. CASE /\ serverQ' = Tail(serverQ) /\ serverPool' = Released(serverPool) /\ writeEnd' = writeEnd
             /\ inServer' = IF h \in sessions THEN [inServer EXCEPT ![h] = @ - 1] ELSE inServer
    <3>1. CountsSound(inServer', serverQ', nextId, sessions, TRUE)
      BY <2>4, <2>5
    <3>2. PoolHolds(serverPool', Len(serverQ'))
      BY <1>0, <2>3, <2>5, PoolGives
    <3>3. (~writeEnd)' = TRUE
      BY <2>1, <2>5
    <3> QED
      BY <2>1, <3>1, <3>2, <3>3 DEF ServerSide
  <2>6. CASE h \in sessions /\ inServer' = [inServer EXCEPT ![h] = @ - 1] /\ WriteSideEnds
    <3>1. PoolHolds(serverPool', Len(serverQ'))
      BY <2>6, PoolEmptied DEF WriteSideEnds
    <3>2. CountsSound([inServer EXCEPT ![h] = @ - 1], <<>>, nextId, sessions, FALSE)
      BY <2>4, <2>6, QueueDropped
    <3> QED
      BY <2>1, <2>6, <3>1, <3>2 DEF WriteSideEnds, ServerSide
  <2> QED
    BY <2>1, <2>5, <2>6
<1>7. ASSUME DrainServerEnds PROVE ServerSide'
  <2>1. UNCHANGED <<serverPool, serverQ, inServer, sessions, nextId, writeEnd>>
    BY <1>7 DEF DrainServerEnds, inFrame, outVars, inVars, endVars
  <2> QED
    BY <1>0, <2>1 DEF ServerSide
<1>8. ASSUME ReadRemotesEnd PROVE ServerSide'
  <2>1. UNCHANGED <<serverPool, serverQ, inServer, sessions, nextId, writeEnd>>
    BY <1>8 DEF ReadRemotesEnd, inFrame, outVars, inVars, endVars
  <2> QED
    BY <1>0, <2>1 DEF ServerSide
<1>9. ASSUME PingServer PROVE ServerSide'
  <2>1. /\ UNCHANGED <<inServer, sessions, nextId>>
        /\ UNCHANGED <<serverQ, serverPool, writeEnd>> \/ WriteSideEnds
    BY <1>9 DEF PingServer, FlushServer, WriteSideEnds, inFrame, outVars, endVars
  <2>2. CASE UNCHANGED <<serverQ, serverPool, writeEnd>>
    BY <1>0, <2>1, <2>2 DEF ServerSide
  <2>3. CASE WriteSideEnds
    <3>1. PoolHolds(serverPool', Len(serverQ'))
      BY <2>3, PoolEmptied DEF WriteSideEnds
    <3>2. CountsSound(inServer, <<>>, nextId, sessions, FALSE)
      BY <1>0, QueueDropped
    <3> QED
      BY <2>1, <2>3, <3>1, <3>2 DEF WriteSideEnds, ServerSide
  <2> QED
    BY <2>1, <2>2, <2>3
<1>10. ASSUME FlushServer PROVE ServerSide'
  <2>1. /\ UNCHANGED <<inServer, sessions, nextId>>
        /\ UNCHANGED <<serverQ, serverPool, writeEnd>> \/ WriteSideEnds
    BY <1>10 DEF PingServer, FlushServer, WriteSideEnds, inFrame, outVars, endVars
  <2>2. CASE UNCHANGED <<serverQ, serverPool, writeEnd>>
    BY <1>0, <2>1, <2>2 DEF ServerSide
  <2>3. CASE WriteSideEnds
    <3>1. PoolHolds(serverPool', Len(serverQ'))
      BY <2>3, PoolEmptied DEF WriteSideEnds
    <3>2. CountsSound(inServer, <<>>, nextId, sessions, FALSE)
      BY <1>0, QueueDropped
    <3> QED
      BY <2>1, <2>3, <3>1, <3>2 DEF WriteSideEnds, ServerSide
  <2> QED
    BY <2>1, <2>2, <2>3
<1>11. ASSUME TailStep PROVE ServerSide'
  <2>1. PICK expired \in SUBSET sessions, closed \in 0..MaxIds, fires \in BOOLEAN :
           TailWith(expired, closed, fires)
    BY <1>11 DEF TailStep
  <2>2. /\ sessions' \subseteq sessions /\ UNCHANGED <<serverQ, nextId, writeEnd>>
        /\ inServer' = [i \in SessionIds |-> IF i \in sessions' THEN inServer[i] ELSE 0]
        /\ serverPool' = IF serverQ = <<>> THEN Trimmed(serverPool) ELSE serverPool
    BY <2>1 DEF TailWith
  <2>3. CountsSound(inServer', serverQ, nextId, sessions', ~writeEnd)
    <3> DEFINE left == sessions'
    <3>1. left \in SUBSET sessions /\ sessions \in SUBSET SessionIds
      BY <1>0, <1>01, <2>2
    <3>2. inServer' = [i \in SessionIds |-> IF i \in left THEN inServer[i] ELSE 0]
      BY <2>2
    <3> HIDE DEF left
    <3> DEFINE e == ~writeEnd
    <3>2a. CountsSound(inServer, serverQ, nextId, sessions, e)
      BY <1>0
    <3> HIDE DEF e
    <3>3. CountsSound([i \in SessionIds |-> IF i \in left THEN inServer[i] ELSE 0],
                      serverQ, nextId, left, e)
      BY ZenonT(40), <3>1, <3>2a, FewerSessions
    <3> QED
      BY <3>2, <3>3 DEF left, e
  <2>4. PoolHolds(serverPool', Len(serverQ))
    BY <1>0, <2>2, PoolTrims, EmptySeq
  <2> QED
    BY <2>2, <2>3, <2>4 DEF ServerSide
<1>12. ASSUME GoQuiet PROVE ServerSide'
  <2>1. UNCHANGED <<serverPool, serverQ, inServer, sessions, nextId, writeEnd>>
    BY <1>12 DEF GoQuiet, outVars, inVars, endVars
  <2> QED
    BY <1>0, <2>1 DEF ServerSide
<1>13. ASSUME NEW f \in Flows, Created(f) PROVE ServerSide'
  <2> DEFINE n == nextId + 1
  <2>1. /\ nextId < MaxIds /\ nextId' = n /\ sessions' \subseteq sessions \cup {n}
        /\ UNCHANGED <<serverQ, inServer, serverPool, writeEnd>>
    BY <1>13 DEF Created, outVars, inVars, endVars
  <2>2. n \in SessionIds
    BY <1>0, <2>1, RouterConstants DEF SessionIds
  <2>3. CountsSound(inServer, serverQ, n, sessions', ~writeEnd)
    BY <1>0, <2>1, <2>2, OneMoreSession
  <2> QED
    BY <1>0, <2>1, <2>3 DEF ServerSide
<1>14. ASSUME NEW f \in Flows, CreateFails(f) PROVE ServerSide'
  <2>1. UNCHANGED <<serverPool, serverQ, inServer, sessions, nextId, writeEnd>>
    BY <1>14 DEF CreateFails, outVars, inVars, endVars
  <2> QED
    BY <1>0, <2>1 DEF ServerSide
<1>15. ASSUME NEW f \in Flows, ReadClient(f) PROVE ServerSide'
  <2>1. UNCHANGED <<serverPool, serverQ, inServer, sessions, nextId, writeEnd>>
    BY <1>15 DEF ReadClient, outVars, inVars, endVars
  <2> QED
    BY <1>0, <2>1 DEF ServerSide
<1>16. ASSUME NEW i \in SessionIds, FlushRemote(i) PROVE ServerSide'
  <2>1. UNCHANGED <<serverPool, serverQ, inServer, sessions, nextId, writeEnd>>
    BY <1>16 DEF FlushRemote, outVars, inVars, endVars
  <2> QED
    BY <1>0, <2>1 DEF ServerSide
<1>17. ASSUME NEW i \in SessionIds, PingRemote(i) PROVE ServerSide'
  <2>1. UNCHANGED <<serverPool, serverQ, inServer, sessions, nextId, writeEnd>>
    BY <1>17 DEF PingRemote, outVars, inVars, endVars
  <2> QED
    BY <1>0, <2>1 DEF ServerSide
<1>18. ASSUME NEW i \in SessionIds, ReadRemote(i) PROVE ServerSide'
  <2>1. /\ CanAcquire(serverPool) /\ UNCHANGED <<sessions, nextId>> /\ i \in sessions
        /\ inServer[i] < PerSession
        /\ \/ /\ serverPool' = Released(Acquired(serverPool)) /\ UNCHANGED <<serverQ, inServer, writeEnd>>
           \/ /\ serverPool' = Acquired(serverPool) /\ serverQ' = Append(serverQ, i)
              /\ inServer' = [inServer EXCEPT ![i] = @ + 1] /\ writeEnd' = writeEnd
           \/ WriteSideEnds /\ inServer' = inServer
    BY <1>18 DEF ReadRemote, inFrame, outVars, endVars
  <2>2. CASE serverPool' = Released(Acquired(serverPool)) /\ UNCHANGED <<serverQ, inServer, writeEnd>>
    <3>1. PoolHolds(serverPool', Len(serverQ))
      BY <1>0, <1>00, <2>1, <2>2, PoolTakes
    <3> QED
      BY <1>0, <2>1, <2>2, <3>1 DEF ServerSide
  <2>3. CASE /\ serverPool' = Acquired(serverPool) /\ serverQ' = Append(serverQ, i)
             /\ inServer' = [inServer EXCEPT ![i] = @ + 1] /\ writeEnd' = writeEnd
    <3>1. CountsSound(inServer', serverQ', nextId, sessions, ~writeEnd)
      BY <1>0, <2>1, <2>3, QueueGrows
    <3>2. Len(serverQ') = Len(serverQ) + 1
      BY <1>0, <1>00, <2>1, <2>3, AppendProperties
    <3>3. PoolHolds(serverPool', Len(serverQ'))
      BY <1>0, <1>00, <2>1, <2>3, <3>2, PoolTakes
    <3> QED
      BY <2>1, <2>3, <3>1, <3>3 DEF ServerSide
  <2>4. CASE WriteSideEnds /\ inServer' = inServer
    <3>1. PoolHolds(serverPool', Len(serverQ'))
      BY <2>4, PoolEmptied DEF WriteSideEnds
    <3>2. CountsSound(inServer, <<>>, nextId, sessions, FALSE)
      BY <1>0, QueueDropped
    <3> QED
      BY <2>1, <2>4, <3>1, <3>2 DEF WriteSideEnds, ServerSide
  <2> QED
    BY <2>1, <2>2, <2>3, <2>4
<1> QED
  BY <1>1, <1>2, <1>3, <1>4, <1>5, <1>6, <1>7, <1>8, <1>9,
     <1>10, <1>11, <1>12, <1>13, <1>14, <1>15, <1>16, <1>17, <1>18 DEF RouterNext

(* The lookup table: a flow that is being created has no session, so that its
   session takes no entry from another one. *)
LEMMA LookupKeeps == ASSUME RouterIInv, RouterNext PROVE LookupSide'
<1>0. /\ LookupSide /\ nextId \in 0..MaxIds /\ MaxIds \in Nat /\ sessions \subseteq 1..nextId
      /\ SessionCap \in Nat \ {0}
  BY RouterConstants DEF RouterIInv, LookupSide
<1>00. /\ IsFiniteSet(sessions) /\ Cardinality(sessions) \in Nat
       /\ \A s \in SUBSET sessions : /\ IsFiniteSet(s) /\ Cardinality(s) \in Nat /\ Cardinality(s) <= Cardinality(sessions)
                                     /\ IsFiniteSet(sessions \ s)
                                     /\ Cardinality(sessions \ s) = Cardinality(sessions) - Cardinality(s)
  <2>1. IsFiniteSet(1..nextId)
    BY <1>0, FS_Interval
  <2>2. IsFiniteSet(sessions)
    BY <1>0, <2>1, FS_Subset
  <2>3. ASSUME NEW s \in SUBSET sessions
        PROVE  /\ IsFiniteSet(s) /\ Cardinality(s) \in Nat /\ Cardinality(s) <= Cardinality(sessions)
               /\ IsFiniteSet(sessions \ s)
               /\ Cardinality(sessions \ s) = Cardinality(sessions) - Cardinality(s)
    <3>1. sessions \cap s = s
      OBVIOUS
    <3>2. IsFiniteSet(s) /\ Cardinality(s) <= Cardinality(sessions)
      BY <2>2, FS_Subset
    <3>3. Cardinality(s) \in Nat
      BY <3>2, FS_CardinalityType
    <3>4. /\ IsFiniteSet(sessions \ s)
          /\ Cardinality(sessions \ s) = Cardinality(sessions) - Cardinality(sessions \cap s)
      BY <2>2, FS_Difference
    <3> QED
      BY <3>1, <3>2, <3>3, <3>4
  <2> QED
    BY <2>2, <2>3, FS_CardinalityType
<1>1. ASSUME Start PROVE LookupSide'
  <2>1. UNCHANGED <<nextId, sessions, creating, lookup, flowOf, shutdowns>>
    BY <1>1 DEF Start, outVars, inVars, endVars
  <2> QED
    BY <1>0, <2>1 DEF LookupSide, LookupAgrees
<1>2. ASSUME Wake PROVE LookupSide'
  <2>1. UNCHANGED <<nextId, sessions, creating, lookup, flowOf, shutdowns>>
    BY <1>2 DEF Wake, outVars, inVars, endVars
  <2> QED
    BY <1>0, <2>1 DEF LookupSide, LookupAgrees
<1>3. ASSUME DrainRemote PROVE LookupSide'
  <2>1. UNCHANGED <<nextId, sessions, creating, lookup, flowOf, shutdowns>>
    BY <1>3 DEF DrainRemote, outVars, inVars, endVars
  <2> QED
    BY <1>0, <2>1 DEF LookupSide, LookupAgrees
<1>4. ASSUME ReadEnds PROVE LookupSide'
  <2>1. UNCHANGED <<nextId, sessions, creating, lookup, flowOf, shutdowns>>
    BY <1>4 DEF ReadEnds, outVars, inVars, endVars
  <2> QED
    BY <1>0, <2>1 DEF LookupSide, LookupAgrees
<1>5. ASSUME OutDone PROVE LookupSide'
  <2>1. UNCHANGED <<nextId, sessions, creating, lookup, flowOf, shutdowns>>
    BY <1>5 DEF OutDone, outVars, inVars, endVars
  <2> QED
    BY <1>0, <2>1 DEF LookupSide, LookupAgrees
<1>6. ASSUME DrainServer PROVE LookupSide'
  <2>1. UNCHANGED <<nextId, sessions, creating, lookup, flowOf, shutdowns>>
    BY <1>6 DEF DrainServer, inFrame, outVars, inVars, endVars, WriteSideEnds
  <2> QED
    BY <1>0, <2>1 DEF LookupSide, LookupAgrees
<1>7. ASSUME DrainServerEnds PROVE LookupSide'
  <2>1. UNCHANGED <<nextId, sessions, creating, lookup, flowOf, shutdowns>>
    BY <1>7 DEF DrainServerEnds, inFrame, outVars, inVars, endVars
  <2> QED
    BY <1>0, <2>1 DEF LookupSide, LookupAgrees
<1>8. ASSUME ReadRemotesEnd PROVE LookupSide'
  <2>1. UNCHANGED <<nextId, sessions, creating, lookup, flowOf, shutdowns>>
    BY <1>8 DEF ReadRemotesEnd, inFrame, outVars, inVars, endVars
  <2> QED
    BY <1>0, <2>1 DEF LookupSide, LookupAgrees
<1>9. ASSUME PingServer PROVE LookupSide'
  <2>1. UNCHANGED <<nextId, sessions, creating, lookup, flowOf, shutdowns>>
    BY <1>9 DEF PingServer, inFrame, outVars, inVars, endVars, WriteSideEnds
  <2> QED
    BY <1>0, <2>1 DEF LookupSide, LookupAgrees
<1>10. ASSUME FlushServer PROVE LookupSide'
  <2>1. UNCHANGED <<nextId, sessions, creating, lookup, flowOf, shutdowns>>
    BY <1>10 DEF FlushServer, inFrame, outVars, inVars, endVars, WriteSideEnds
  <2> QED
    BY <1>0, <2>1 DEF LookupSide, LookupAgrees
<1>11. ASSUME TailStep PROVE LookupSide'
  <2>1. PICK expired \in SUBSET sessions, closed \in 0..MaxIds, fires \in BOOLEAN :
           TailWith(expired, closed, fires)
    BY <1>11 DEF TailStep
  <2> DEFINE gone == sessions \cap (toRemove \cup expired)
  <2>2. /\ sessions' = sessions \ gone /\ closed <= shutdowns + Cardinality(gone)
        /\ lookup' = [f \in Flows |-> IF lookup[f] \in gone THEN 0 ELSE lookup[f]]
        /\ shutdowns' = shutdowns + Cardinality(gone) - closed
        /\ UNCHANGED <<creating, nextId, flowOf>>
    BY <2>1 DEF TailWith
  <2>3. gone \in SUBSET sessions
    OBVIOUS
  <2> HIDE DEF gone
  <2>4. shutdowns \in Nat /\ closed \in Nat /\ Cardinality(gone) \in Nat
    <3>1. Cardinality(gone) \in Nat
      BY <1>00, <2>3
    <3> QED
      BY <1>0, <2>1, <3>1 DEF LookupSide
  <2>5. Cardinality(sessions') = Cardinality(sessions) - Cardinality(gone)
    BY <1>00, <2>2, <2>3
  <2>6. /\ shutdowns' \in Nat /\ shutdowns' + Cardinality(sessions') <= nextId
        /\ Cardinality(sessions') <= SessionCap
    BY <1>0, <1>00, <2>2, <2>4, <2>5 DEF LookupSide, LookupAgrees
  <2>7. lookup' \in [Flows -> {0} \cup SessionIds]
    BY <1>0, <2>2 DEF LookupSide
  <2>8. \A i \in sessions' : lookup'[flowOf[i]] = i
    BY <1>0, <2>2 DEF LookupSide, LookupAgrees, SessionIds
  <2>9. \A g \in Flows : lookup'[g] # 0 => lookup'[g] \in sessions' /\ g \notin creating
    BY <1>0, <2>2 DEF LookupSide, LookupAgrees
  <2> QED
    BY <1>0, <2>2, <2>6, <2>7, <2>8, <2>9 DEF LookupSide, LookupAgrees
<1>12. ASSUME GoQuiet PROVE LookupSide'
  <2>1. UNCHANGED <<nextId, sessions, creating, lookup, flowOf, shutdowns>>
    BY <1>12 DEF GoQuiet, outVars, inVars, endVars
  <2> QED
    BY <1>0, <2>1 DEF LookupSide, LookupAgrees
<1>13. ASSUME NEW f \in Flows, Created(f) PROVE LookupSide'
  <2> DEFINE n == nextId + 1
  <2>1. /\ f \in creating /\ nextId < MaxIds /\ nextId' = n /\ creating' = creating \ {f}
        /\ flowOf' = [flowOf EXCEPT ![n] = f]
    BY <1>13 DEF Created
  <2>2. PICK victim \in SUBSET sessions :
           /\ Cardinality(victim) = (IF Cardinality(sessions) >= SessionCap THEN 1 ELSE 0)
           /\ sessions' = (sessions \ victim) \cup {n}
           /\ lookup' = [g \in Flows |-> IF g = f THEN n
                                         ELSE IF lookup[g] \in victim THEN 0 ELSE lookup[g]]
           /\ shutdowns' = shutdowns + Cardinality(victim)
    BY <1>13 DEF Created
  <2>3. /\ n \in SessionIds /\ n \in 0..MaxIds /\ n \notin sessions /\ n # 0
        /\ 1..nextId \subseteq 1..n /\ n \in 1..n /\ sessions \subseteq SessionIds
    BY <1>0, <2>1 DEF SessionIds
  <2>4. Cardinality(sessions') = Cardinality(sessions) - Cardinality(victim) + 1
    <3>1. /\ IsFiniteSet(sessions \ victim) /\ n \notin sessions \ victim
          /\ Cardinality(sessions \ victim) = Cardinality(sessions) - Cardinality(victim)
      BY <1>00, <2>3
    <3>2. Cardinality((sessions \ victim) \cup {n}) = Cardinality(sessions \ victim) + 1
      BY <3>1, FS_AddElement
    <3> QED
      BY <2>2, <3>1, <3>2
  <2>5. /\ shutdowns' \in Nat /\ shutdowns' + Cardinality(sessions') <= n
        /\ Cardinality(sessions') <= SessionCap
    BY <1>0, <1>00, <2>2, <2>4 DEF LookupSide, LookupAgrees
  <2> HIDE DEF n
  <2>6. /\ sessions' \subseteq 1..n /\ creating' \subseteq Flows /\ flowOf' \in [SessionIds -> Flows]
        /\ lookup' \in [Flows -> {0} \cup SessionIds]
    BY <1>0, <2>1, <2>2, <2>3 DEF LookupSide
  <2>7. /\ lookup[f] = 0 /\ \A i \in sessions : flowOf[i] # f
    BY <1>0, <2>1, <2>3 DEF LookupSide, LookupAgrees, SessionIds
  <2>8. \A i \in sessions' : lookup'[flowOf'[i]] = i
    <3> SUFFICES ASSUME NEW i \in sessions' PROVE lookup'[flowOf'[i]] = i
      OBVIOUS
    <3>1. CASE i = n
      <4>1. flowOf'[n] = f
        BY <1>0, <2>1, <2>3 DEF LookupSide
      <4> QED
        BY <2>2, <3>1, <4>1
    <3>2. CASE i # n
      <4>1. i \in sessions /\ i \notin victim /\ flowOf'[i] = flowOf[i] /\ flowOf[i] \in Flows
        BY <1>0, <2>1, <2>2, <2>3, <3>2 DEF LookupSide
      <4>2. flowOf[i] # f /\ lookup[flowOf[i]] = i
        BY <1>0, <2>7, <4>1 DEF LookupSide, LookupAgrees
      <4> QED
        BY <2>2, <4>1, <4>2
    <3> QED
      BY <3>1, <3>2
  <2>9. \A g \in Flows : lookup'[g] # 0 => lookup'[g] \in sessions' /\ g \notin creating'
    <3> SUFFICES ASSUME NEW g \in Flows, lookup'[g] # 0
                 PROVE  lookup'[g] \in sessions' /\ g \notin creating'
      OBVIOUS
    <3>1. CASE g = f
      BY <2>1, <2>2, <3>1
    <3>2. CASE g # f
      <4>1. lookup'[g] = lookup[g] /\ lookup[g] \notin victim /\ lookup[g] # 0
        BY <2>2, <3>2
      <4> QED
        BY <1>0, <2>1, <2>2, <4>1 DEF LookupSide, LookupAgrees
    <3> QED
      BY <3>1, <3>2
  <2> QED
    BY <2>1, <2>3, <2>5, <2>6, <2>8, <2>9 DEF LookupSide, LookupAgrees
<1>14. ASSUME NEW f \in Flows, CreateFails(f) PROVE LookupSide'
  <2>1. UNCHANGED <<nextId, sessions, lookup, flowOf, shutdowns>> /\ creating' \subseteq creating
    BY <1>14 DEF CreateFails, outVars, inVars, endVars
  <2> QED
    BY <1>0, <2>1 DEF LookupSide, LookupAgrees
<1>15. ASSUME NEW f \in Flows, ReadClient(f) PROVE LookupSide'
  <2>1. /\ UNCHANGED <<nextId, sessions, lookup, flowOf, shutdowns>>
        /\ creating' = creating \/ (creating' = creating \cup {f} /\ lookup[f] = 0)
    BY <1>15 DEF ReadClient, outVars, inVars, endVars
  <2> QED
    BY <1>0, <2>1 DEF LookupSide, LookupAgrees
<1>16. ASSUME NEW i \in SessionIds, FlushRemote(i) PROVE LookupSide'
  <2>1. UNCHANGED <<nextId, sessions, creating, lookup, flowOf, shutdowns>>
    BY <1>16 DEF FlushRemote, outVars, inVars, endVars
  <2> QED
    BY <1>0, <2>1 DEF LookupSide, LookupAgrees
<1>17. ASSUME NEW i \in SessionIds, PingRemote(i) PROVE LookupSide'
  <2>1. UNCHANGED <<nextId, sessions, creating, lookup, flowOf, shutdowns>>
    BY <1>17 DEF PingRemote, outVars, inVars, endVars
  <2> QED
    BY <1>0, <2>1 DEF LookupSide, LookupAgrees
<1>18. ASSUME NEW i \in SessionIds, ReadRemote(i) PROVE LookupSide'
  <2>1. UNCHANGED <<nextId, sessions, creating, lookup, flowOf, shutdowns>>
    BY <1>18 DEF ReadRemote, inFrame, outVars, inVars, endVars, WriteSideEnds
  <2> QED
    BY <1>0, <2>1 DEF LookupSide, LookupAgrees
<1> QED
  BY <1>1, <1>2, <1>3, <1>4, <1>5, <1>6, <1>7, <1>8, <1>9,
     <1>10, <1>11, <1>12, <1>13, <1>14, <1>15, <1>16, <1>17, <1>18 DEF RouterNext

(* A write to a remote that fails marks the session unless a response is queued. *)
LEMMA FailureMarks ==
  ASSUME DeadSide, NEW i \in 1..nextId, flushQ' \subseteq flushQ \cup {i},
         UNCHANGED <<deadRead, nextId, sessions, inServer, writeEnd>>,
         UNCHANGED <<deadWrite, toRemove>> \/ WriteFails(i)
  PROVE  DeadSide'
<1>1. CASE UNCHANGED <<deadWrite, toRemove>>
  BY <1>1 DEF DeadSide, DeadIsMarked
<1>2. CASE WriteFails(i)
  BY <1>2 DEF DeadSide, DeadIsMarked, WriteFails, Removable
<1> QED
  BY <1>1, <1>2

(* What is dead is marked when its last response has left. *)
LEMMA DeadKeep == ASSUME RouterIInv, RouterNext PROVE DeadSide'
<1>0. /\ DeadSide /\ nextId \in 0..MaxIds /\ MaxIds \in Nat /\ sessions \subseteq 1..nextId
      /\ inServer \in [SessionIds -> 0..PerSession] /\ PerSession \in Nat
  BY RouterConstants DEF RouterIInv, LookupSide, DeadSide, ServerSide, CountsSound
<1>1. ASSUME Start PROVE DeadSide'
  <2>1. UNCHANGED <<deadRead, deadWrite, flushQ, toRemove, nextId, sessions, inServer, writeEnd>>
    BY <1>1 DEF Start, outVars, inVars, endVars
  <2> QED
    BY <1>0, <2>1 DEF DeadSide, DeadIsMarked
<1>2. ASSUME Wake PROVE DeadSide'
  <2>1. UNCHANGED <<deadRead, deadWrite, flushQ, toRemove, nextId, sessions, inServer, writeEnd>>
    BY <1>2 DEF Wake, outVars, inVars, endVars
  <2> QED
    BY <1>0, <2>1 DEF DeadSide, DeadIsMarked
<1>3. ASSUME DrainRemote PROVE DeadSide'
  <2>1. UNCHANGED <<deadRead, nextId, sessions, inServer, writeEnd>>
    BY <1>3 DEF DrainRemote, outVars, inVars, endVars
  <2>2. CASE UNCHANGED <<deadWrite, toRemove, flushQ>>
    BY <1>0, <2>1, <2>2 DEF DeadSide, DeadIsMarked
  <2>3. CASE ~ UNCHANGED <<deadWrite, toRemove, flushQ>>
    <3> DEFINE k == Head(remoteQ)
    <3>1. /\ k \in sessions /\ flushQ' \subseteq flushQ \cup {k}
          /\ UNCHANGED <<deadWrite, toRemove>> \/ WriteFails(k)
      BY <1>3, <2>3 DEF DrainRemote, outVars, inVars, endVars
    <3> HIDE DEF k
    <3> QED
      BY <1>0, <2>1, <3>1, FailureMarks
  <2> QED
    BY <2>2, <2>3
<1>4. ASSUME ReadEnds PROVE DeadSide'
  <2>1. UNCHANGED <<deadRead, deadWrite, flushQ, toRemove, nextId, sessions, inServer, writeEnd>>
    BY <1>4 DEF ReadEnds, outVars, inVars, endVars
  <2> QED
    BY <1>0, <2>1 DEF DeadSide, DeadIsMarked
<1>5. ASSUME OutDone PROVE DeadSide'
  <2>1. UNCHANGED <<deadRead, deadWrite, flushQ, toRemove, nextId, sessions, inServer, writeEnd>>
    BY <1>5 DEF OutDone, outVars, inVars, endVars
  <2> QED
    BY <1>0, <2>1 DEF DeadSide, DeadIsMarked
<1>6. ASSUME DrainServer PROVE DeadSide'
  <2> DEFINE h == Head(serverQ)
  <2>1. /\ UNCHANGED <<deadRead, deadWrite, flushQ, nextId, sessions>>
        /\ \/ UNCHANGED <<inServer, toRemove, writeEnd>>
           \/ /\ inServer' = [inServer EXCEPT ![h] = @ - 1] /\ writeEnd' = writeEnd /\ h \in sessions
              /\ toRemove' = toRemove \cup Removable({h} \cap (deadRead \cup deadWrite), inServer')
           \/ writeEnd' = TRUE /\ toRemove' = toRemove
    BY <1>6 DEF DrainServer, inFrame, outVars, inVars, endVars, WriteSideEnds
  <2> HIDE DEF h
  <2>2. sessions \subseteq SessionIds
    BY <1>0 DEF SessionIds
  <2>3. CASE UNCHANGED <<inServer, toRemove, writeEnd>>
    BY <1>0, <2>1, <2>3 DEF DeadSide, DeadIsMarked
  <2>4. CASE /\ inServer' = [inServer EXCEPT ![h] = @ - 1] /\ writeEnd' = writeEnd /\ h \in sessions
             /\ toRemove' = toRemove \cup Removable({h} \cap (deadRead \cup deadWrite), inServer')
    <3>1. \A i \in sessions : i # h => inServer'[i] = inServer[i]
      BY <1>0, <2>2, <2>4
    <3>2. toRemove' \subseteq 1..nextId
      BY <1>0, <2>4 DEF DeadSide, Removable
    <3>3. DeadIsMarked'
      BY <1>0, <2>1, <2>4, <3>1 DEF DeadSide, DeadIsMarked, Removable
    <3> QED
      BY <1>0, <2>1, <3>2, <3>3 DEF DeadSide
  <2>5. CASE writeEnd' = TRUE /\ toRemove' = toRemove
    BY <1>0, <2>1, <2>5 DEF DeadSide, DeadIsMarked
  <2> QED
    BY <2>1, <2>3, <2>4, <2>5
<1>7. ASSUME DrainServerEnds PROVE DeadSide'
  <2>1. UNCHANGED <<deadRead, deadWrite, flushQ, toRemove, nextId, sessions, inServer, writeEnd>>
    BY <1>7 DEF DrainServerEnds, inFrame, outVars, inVars, endVars
  <2> QED
    BY <1>0, <2>1 DEF DeadSide, DeadIsMarked
<1>8. ASSUME ReadRemotesEnd PROVE DeadSide'
  <2>1. UNCHANGED <<deadRead, deadWrite, flushQ, toRemove, nextId, sessions, inServer, writeEnd>>
    BY <1>8 DEF ReadRemotesEnd, inFrame, outVars, inVars, endVars
  <2> QED
    BY <1>0, <2>1 DEF DeadSide, DeadIsMarked
<1>9. ASSUME PingServer PROVE DeadSide'
  <2>1. /\ UNCHANGED <<deadRead, deadWrite, flushQ, toRemove, nextId, sessions, inServer>>
        /\ writeEnd' = writeEnd \/ writeEnd' = TRUE
    BY <1>9 DEF PingServer, inFrame, outVars, inVars, endVars, WriteSideEnds
  <2> QED
    BY <1>0, <2>1 DEF DeadSide, DeadIsMarked
<1>10. ASSUME FlushServer PROVE DeadSide'
  <2>1. /\ UNCHANGED <<deadRead, deadWrite, flushQ, toRemove, nextId, sessions, inServer>>
        /\ writeEnd' = writeEnd \/ writeEnd' = TRUE
    BY <1>10 DEF FlushServer, inFrame, outVars, inVars, endVars, WriteSideEnds
  <2> QED
    BY <1>0, <2>1 DEF DeadSide, DeadIsMarked
<1>11. ASSUME TailStep PROVE DeadSide'
  <2>1. PICK expired \in SUBSET sessions, closed \in 0..MaxIds, fires \in BOOLEAN :
           TailWith(expired, closed, fires)
    BY <1>11 DEF TailStep
  <2>2. /\ sessions' \subseteq sessions /\ sessions' \cap toRemove = {} /\ toRemove' = {}
        /\ deadRead' \subseteq deadRead /\ deadWrite' \subseteq deadWrite
        /\ inServer' = [i \in SessionIds |-> IF i \in sessions' THEN inServer[i] ELSE 0]
        /\ UNCHANGED <<flushQ, nextId, writeEnd>>
    BY <2>1 DEF TailWith
  <2>3. \A i \in sessions' : inServer'[i] = inServer[i]
    BY <1>0, <2>2 DEF SessionIds
  <2> QED
    BY <1>0, <2>2, <2>3 DEF DeadSide, DeadIsMarked
<1>12. ASSUME GoQuiet PROVE DeadSide'
  <2>1. UNCHANGED <<deadRead, deadWrite, flushQ, toRemove, nextId, sessions, inServer, writeEnd>>
    BY <1>12 DEF GoQuiet, outVars, inVars, endVars
  <2> QED
    BY <1>0, <2>1 DEF DeadSide, DeadIsMarked
<1>13. ASSUME NEW f \in Flows, Created(f) PROVE DeadSide'
  <2> DEFINE n == nextId + 1
  <2>1. /\ nextId' = n /\ sessions' \subseteq sessions \cup {n}
        /\ flushQ' \subseteq flushQ \cup {n} /\ UNCHANGED <<deadRead, inServer, writeEnd>>
        /\ \/ UNCHANGED <<deadWrite, toRemove>>
           \/ deadWrite' = deadWrite \cup {n} /\ toRemove' = toRemove \cup {n}
    BY <1>13 DEF Created, outVars, inVars, endVars
  <2>2. 1..nextId \subseteq 1..n /\ n \in 1..n /\ n \notin 1..nextId
    BY <1>0
  <2> HIDE DEF n
  <2>3. deadRead' \cup deadWrite' \cup flushQ' \cup toRemove' \subseteq 1..n
    BY <1>0, <2>1, <2>2 DEF DeadSide
  <2>4. DeadIsMarked'
    BY <1>0, <2>1, <2>2 DEF DeadSide, DeadIsMarked
  <2> QED
    BY <2>1, <2>3, <2>4 DEF DeadSide
<1>14. ASSUME NEW f \in Flows, CreateFails(f) PROVE DeadSide'
  <2>1. UNCHANGED <<deadRead, deadWrite, flushQ, toRemove, nextId, sessions, inServer, writeEnd>>
    BY <1>14 DEF CreateFails, outVars, inVars, endVars
  <2> QED
    BY <1>0, <2>1 DEF DeadSide, DeadIsMarked
<1>15. ASSUME NEW f \in Flows, ReadClient(f) PROVE DeadSide'
  <2>1. UNCHANGED <<deadRead, nextId, sessions, inServer, writeEnd>>
    BY <1>15 DEF ReadClient, outVars, inVars, endVars
  <2>2. CASE UNCHANGED <<deadWrite, toRemove, flushQ>>
    BY <1>0, <2>1, <2>2 DEF DeadSide, DeadIsMarked
  <2>3. CASE ~ UNCHANGED <<deadWrite, toRemove, flushQ>>
    <3> DEFINE k == lookup[f]
    <3>1. /\ k \in sessions /\ flushQ' \subseteq flushQ \cup {k}
          /\ UNCHANGED <<deadWrite, toRemove>> \/ WriteFails(k)
      BY <1>15, <2>3 DEF ReadClient, outVars, inVars, endVars
    <3> HIDE DEF k
    <3> QED
      BY <1>0, <2>1, <3>1, FailureMarks
  <2> QED
    BY <2>2, <2>3
<1>16. ASSUME NEW i \in SessionIds, FlushRemote(i) PROVE DeadSide'
  <2>1. /\ UNCHANGED <<deadRead, nextId, sessions, inServer, writeEnd>> /\ flushQ' \subseteq flushQ \cup {i}
        /\ UNCHANGED <<deadWrite, toRemove>> \/ WriteFails(i)
    BY <1>16 DEF FlushRemote, outVars, inVars, endVars
  <2>2. i \in 1..nextId
    BY <1>0, <1>16 DEF FlushRemote, outVars, inVars, endVars, DeadSide
  <2> QED
    BY <1>0, <2>1, <2>2, FailureMarks
<1>17. ASSUME NEW i \in SessionIds, PingRemote(i) PROVE DeadSide'
  <2>1. /\ UNCHANGED <<deadRead, nextId, sessions, inServer, writeEnd>> /\ flushQ' \subseteq flushQ \cup {i}
        /\ UNCHANGED <<deadWrite, toRemove>> \/ WriteFails(i)
    BY <1>17 DEF PingRemote, outVars, inVars, endVars
  <2>2. i \in 1..nextId
    BY <1>0, <1>17 DEF PingRemote, outVars, inVars, endVars, DeadSide
  <2> QED
    BY <1>0, <2>1, <2>2, FailureMarks
<1>18. ASSUME NEW i \in SessionIds, ReadRemote(i) PROVE DeadSide'
  <2>1. /\ UNCHANGED <<deadWrite, flushQ, nextId, sessions>> /\ i \in sessions
        /\ \/ UNCHANGED <<inServer, toRemove, writeEnd, deadRead>>
           \/ /\ inServer' = [inServer EXCEPT ![i] = @ + 1] /\ UNCHANGED <<toRemove, writeEnd, deadRead>>
           \/ writeEnd' = TRUE /\ UNCHANGED <<toRemove, deadRead>>
           \/ /\ deadRead' = deadRead \cup {i} /\ toRemove' = toRemove \cup Removable({i}, inServer)
              /\ UNCHANGED <<inServer, writeEnd>>
    BY <1>18 DEF ReadRemote, inFrame, outVars, inVars, endVars, WriteSideEnds
  <2>2. CASE UNCHANGED <<inServer, toRemove, writeEnd, deadRead>>
    BY <1>0, <2>1, <2>2 DEF DeadSide, DeadIsMarked
  <2>3. CASE /\ inServer' = [inServer EXCEPT ![i] = @ + 1] /\ UNCHANGED <<toRemove, writeEnd, deadRead>>
    <3>1. /\ inServer'[i] # 0 /\ \A k \in sessions : k # i => inServer'[k] = inServer[k]
      BY <1>0, <2>3 DEF SessionIds
    <3> QED
      BY <1>0, <2>1, <2>3, <3>1 DEF DeadSide, DeadIsMarked
  <2>4. CASE writeEnd' = TRUE /\ UNCHANGED <<toRemove, deadRead>>
    BY <1>0, <2>1, <2>4 DEF DeadSide, DeadIsMarked
  <2>5. CASE /\ deadRead' = deadRead \cup {i} /\ toRemove' = toRemove \cup Removable({i}, inServer)
             /\ UNCHANGED <<inServer, writeEnd>>
    BY <1>0, <2>1, <2>5 DEF DeadSide, DeadIsMarked, Removable
  <2> QED
    BY <2>1, <2>2, <2>3, <2>4, <2>5
<1> QED
  BY <1>1, <1>2, <1>3, <1>4, <1>5, <1>6, <1>7, <1>8, <1>9,
     <1>10, <1>11, <1>12, <1>13, <1>14, <1>15, <1>16, <1>17, <1>18 DEF RouterNext

(* The phases of a poll, and the end of the router. *)
LEMMA PhaseKeeps == ASSUME RouterIInv, RouterNext PROVE RouterPhase'
<1>0. /\ rpc \in RouterPcs /\ (rpc = "drain" => ~writeEnd) /\ (done => rpc = "parked") /\ FinishesEmpty
      /\ needsFlush \in BOOLEAN /\ wrote \in BOOLEAN /\ readEnd \in BOOLEAN /\ writeEnd \in BOOLEAN
      /\ timer \in BOOLEAN /\ quiet \in BOOLEAN /\ done \in BOOLEAN
  BY DEF RouterIInv, RouterPhase
<1>1. ASSUME Start PROVE RouterPhase'
  <2>1. UNCHANGED <<needsFlush, wrote, readEnd, writeEnd, timer, done, creating, remoteQ, flushQ, serverQ>>
    BY <1>1 DEF Start, outVars, inVars, endVars
  <2>2. rpc' \in RouterPcs /\ rpc' # "drain" /\ (done => rpc' = "parked") /\ quiet' \in BOOLEAN
    BY <1>0, <1>1 DEF Start, outVars, inVars, endVars, RouterPcs
  <2> QED
    BY <1>0, <2>1, <2>2 DEF RouterPhase, FinishesEmpty
<1>2. ASSUME Wake PROVE RouterPhase'
  <2>1. UNCHANGED <<needsFlush, wrote, readEnd, writeEnd, timer, done, creating, remoteQ, flushQ, serverQ>>
    BY <1>2 DEF Wake, outVars, inVars, endVars
  <2>2. rpc' \in RouterPcs /\ rpc' # "drain" /\ (done => rpc' = "parked") /\ quiet' \in BOOLEAN
    BY <1>0, <1>2 DEF Wake, outVars, inVars, endVars, RouterPcs
  <2> QED
    BY <1>0, <2>1, <2>2 DEF RouterPhase, FinishesEmpty
<1>3. ASSUME DrainRemote PROVE RouterPhase'
  <2>1. /\ ~done /\ done' = done /\ rpc' \in RouterPcs /\ (rpc' = "drain" => ~writeEnd')
    BY <1>0, <1>3 DEF DrainRemote, outVars, inVars, endVars, RouterPcs
  <2>2. /\ needsFlush' \in BOOLEAN /\ wrote' \in BOOLEAN /\ readEnd' \in BOOLEAN /\ writeEnd' \in BOOLEAN
        /\ timer' \in BOOLEAN /\ quiet' \in BOOLEAN /\ done' \in BOOLEAN
    BY <1>0, <1>3 DEF DrainRemote, outVars, inVars, endVars
  <2> QED
    BY <2>1, <2>2 DEF RouterPhase, FinishesEmpty
<1>4. ASSUME ReadEnds PROVE RouterPhase'
  <2>1. /\ ~done /\ done' = done /\ rpc' \in RouterPcs /\ (rpc' = "drain" => ~writeEnd')
    BY <1>0, <1>4 DEF ReadEnds, outVars, inVars, endVars, RouterPcs
  <2>2. /\ needsFlush' \in BOOLEAN /\ wrote' \in BOOLEAN /\ readEnd' \in BOOLEAN /\ writeEnd' \in BOOLEAN
        /\ timer' \in BOOLEAN /\ quiet' \in BOOLEAN /\ done' \in BOOLEAN
    BY <1>0, <1>4 DEF ReadEnds, outVars, inVars, endVars
  <2> QED
    BY <2>1, <2>2 DEF RouterPhase, FinishesEmpty
<1>5. ASSUME OutDone PROVE RouterPhase'
  <2>1. /\ ~done /\ done' = done /\ rpc' \in RouterPcs /\ (rpc' = "drain" => ~writeEnd')
    BY <1>0, <1>5 DEF OutDone, outVars, inVars, endVars, RouterPcs
  <2>2. /\ needsFlush' \in BOOLEAN /\ wrote' \in BOOLEAN /\ readEnd' \in BOOLEAN /\ writeEnd' \in BOOLEAN
        /\ timer' \in BOOLEAN /\ quiet' \in BOOLEAN /\ done' \in BOOLEAN
    BY <1>0, <1>5 DEF OutDone, outVars, inVars, endVars
  <2> QED
    BY <2>1, <2>2 DEF RouterPhase, FinishesEmpty
<1>6. ASSUME DrainServer PROVE RouterPhase'
  <2>1. /\ ~done /\ done' = done /\ rpc' \in RouterPcs /\ (rpc' = "drain" => ~writeEnd')
    BY <1>0, <1>6 DEF DrainServer, inFrame, outVars, inVars, endVars, WriteSideEnds, RouterPcs
  <2>2. /\ needsFlush' \in BOOLEAN /\ wrote' \in BOOLEAN /\ readEnd' \in BOOLEAN /\ writeEnd' \in BOOLEAN
        /\ timer' \in BOOLEAN /\ quiet' \in BOOLEAN /\ done' \in BOOLEAN
    BY <1>0, <1>6 DEF DrainServer, inFrame, outVars, inVars, endVars, WriteSideEnds
  <2> QED
    BY <2>1, <2>2 DEF RouterPhase, FinishesEmpty
<1>7. ASSUME DrainServerEnds PROVE RouterPhase'
  <2>1. /\ ~done /\ done' = done /\ rpc' \in RouterPcs /\ (rpc' = "drain" => ~writeEnd')
    BY <1>0, <1>7 DEF DrainServerEnds, inFrame, outVars, inVars, endVars, RouterPcs
  <2>2. /\ needsFlush' \in BOOLEAN /\ wrote' \in BOOLEAN /\ readEnd' \in BOOLEAN /\ writeEnd' \in BOOLEAN
        /\ timer' \in BOOLEAN /\ quiet' \in BOOLEAN /\ done' \in BOOLEAN
    BY <1>0, <1>7 DEF DrainServerEnds, inFrame, outVars, inVars, endVars
  <2> QED
    BY <2>1, <2>2 DEF RouterPhase, FinishesEmpty
<1>8. ASSUME ReadRemotesEnd PROVE RouterPhase'
  <2>1. /\ ~done /\ done' = done /\ rpc' \in RouterPcs /\ (rpc' = "drain" => ~writeEnd')
    BY <1>0, <1>8 DEF ReadRemotesEnd, inFrame, outVars, inVars, endVars, RouterPcs
  <2>2. /\ needsFlush' \in BOOLEAN /\ wrote' \in BOOLEAN /\ readEnd' \in BOOLEAN /\ writeEnd' \in BOOLEAN
        /\ timer' \in BOOLEAN /\ quiet' \in BOOLEAN /\ done' \in BOOLEAN
    BY <1>0, <1>8 DEF ReadRemotesEnd, inFrame, outVars, inVars, endVars
  <2> QED
    BY <2>1, <2>2 DEF RouterPhase, FinishesEmpty
<1>9. ASSUME PingServer PROVE RouterPhase'
  <2>1. /\ ~done /\ done' = done /\ rpc' \in RouterPcs /\ (rpc' = "drain" => ~writeEnd')
    BY <1>0, <1>9 DEF PingServer, inFrame, outVars, inVars, endVars, WriteSideEnds, RouterPcs
  <2>2. /\ needsFlush' \in BOOLEAN /\ wrote' \in BOOLEAN /\ readEnd' \in BOOLEAN /\ writeEnd' \in BOOLEAN
        /\ timer' \in BOOLEAN /\ quiet' \in BOOLEAN /\ done' \in BOOLEAN
    BY <1>0, <1>9 DEF PingServer, inFrame, outVars, inVars, endVars, WriteSideEnds
  <2> QED
    BY <2>1, <2>2 DEF RouterPhase, FinishesEmpty
<1>10. ASSUME FlushServer PROVE RouterPhase'
  <2>1. /\ ~done /\ done' = done /\ rpc' \in RouterPcs /\ (rpc' = "drain" => ~writeEnd')
    BY <1>0, <1>10 DEF FlushServer, inFrame, outVars, inVars, endVars, WriteSideEnds, RouterPcs
  <2>2. /\ needsFlush' \in BOOLEAN /\ wrote' \in BOOLEAN /\ readEnd' \in BOOLEAN /\ writeEnd' \in BOOLEAN
        /\ timer' \in BOOLEAN /\ quiet' \in BOOLEAN /\ done' \in BOOLEAN
    BY <1>0, <1>10 DEF FlushServer, inFrame, outVars, inVars, endVars, WriteSideEnds
  <2> QED
    BY <2>1, <2>2 DEF RouterPhase, FinishesEmpty
<1>11. ASSUME TailStep PROVE RouterPhase'
  <2>1. PICK expired \in SUBSET sessions, closed \in 0..MaxIds, fires \in BOOLEAN :
           TailWith(expired, closed, fires)
    BY <1>11 DEF TailStep
  <2>2. rpc' = "parked" /\ UNCHANGED <<needsFlush, wrote, readEnd, writeEnd, quiet, creating,
                                       remoteQ, flushQ, serverQ>>
    BY <2>1 DEF TailWith
  <2>3. /\ timer' = Drained
        /\ done' = (\/ readEnd /\ (writeEnd \/ Drained)
                    \/ Drained /\ timer /\ fires)
    BY Zenon, <2>1 DEF TailWith
  <2>4. Drained \in BOOLEAN
    BY Zenon DEF Drained
  <2>5. timer' \in BOOLEAN /\ done' \in BOOLEAN /\ (done' => writeEnd \/ Drained)
    BY Zenon, <2>3, <2>4
  <2>6. FinishesEmpty'
    BY <2>2, <2>5 DEF FinishesEmpty, Drained
  <2> QED
    BY <1>0, <2>2, <2>5, <2>6 DEF RouterPhase, RouterPcs
<1>12. ASSUME GoQuiet PROVE RouterPhase'
  <2>1. UNCHANGED <<needsFlush, wrote, readEnd, writeEnd, timer, done, creating, remoteQ, flushQ, serverQ>>
    BY <1>12 DEF GoQuiet, outVars, inVars, endVars
  <2>2. rpc' \in RouterPcs /\ rpc' # "drain" /\ (done => rpc' = "parked") /\ quiet' \in BOOLEAN
    BY <1>0, <1>12 DEF GoQuiet, outVars, inVars, endVars, RouterPcs
  <2> QED
    BY <1>0, <2>1, <2>2 DEF RouterPhase, FinishesEmpty
<1>13. ASSUME NEW f \in Flows, Created(f) PROVE RouterPhase'
  <2>1. /\ ~done /\ done' = done /\ rpc' \in RouterPcs /\ (rpc' = "drain" => ~writeEnd')
    BY <1>0, <1>13 DEF Created, outVars, inVars, endVars, RouterPcs
  <2>2. /\ needsFlush' \in BOOLEAN /\ wrote' \in BOOLEAN /\ readEnd' \in BOOLEAN /\ writeEnd' \in BOOLEAN
        /\ timer' \in BOOLEAN /\ quiet' \in BOOLEAN /\ done' \in BOOLEAN
    BY <1>0, <1>13 DEF Created, outVars, inVars, endVars
  <2> QED
    BY <2>1, <2>2 DEF RouterPhase, FinishesEmpty
<1>14. ASSUME NEW f \in Flows, CreateFails(f) PROVE RouterPhase'
  <2>1. /\ ~done /\ done' = done /\ rpc' \in RouterPcs /\ (rpc' = "drain" => ~writeEnd')
    BY <1>0, <1>14 DEF CreateFails, outVars, inVars, endVars, RouterPcs
  <2>2. /\ needsFlush' \in BOOLEAN /\ wrote' \in BOOLEAN /\ readEnd' \in BOOLEAN /\ writeEnd' \in BOOLEAN
        /\ timer' \in BOOLEAN /\ quiet' \in BOOLEAN /\ done' \in BOOLEAN
    BY <1>0, <1>14 DEF CreateFails, outVars, inVars, endVars
  <2> QED
    BY <2>1, <2>2 DEF RouterPhase, FinishesEmpty
<1>15. ASSUME NEW f \in Flows, ReadClient(f) PROVE RouterPhase'
  <2>1. /\ ~done /\ done' = done /\ rpc' \in RouterPcs /\ (rpc' = "drain" => ~writeEnd')
    BY <1>0, <1>15 DEF ReadClient, outVars, inVars, endVars, RouterPcs
  <2>2. /\ needsFlush' \in BOOLEAN /\ wrote' \in BOOLEAN /\ readEnd' \in BOOLEAN /\ writeEnd' \in BOOLEAN
        /\ timer' \in BOOLEAN /\ quiet' \in BOOLEAN /\ done' \in BOOLEAN
    BY <1>0, <1>15 DEF ReadClient, outVars, inVars, endVars
  <2> QED
    BY <2>1, <2>2 DEF RouterPhase, FinishesEmpty
<1>16. ASSUME NEW i \in SessionIds, FlushRemote(i) PROVE RouterPhase'
  <2>1. /\ ~done /\ done' = done /\ rpc' \in RouterPcs /\ (rpc' = "drain" => ~writeEnd')
    BY <1>0, <1>16 DEF FlushRemote, outVars, inVars, endVars, RouterPcs
  <2>2. /\ needsFlush' \in BOOLEAN /\ wrote' \in BOOLEAN /\ readEnd' \in BOOLEAN /\ writeEnd' \in BOOLEAN
        /\ timer' \in BOOLEAN /\ quiet' \in BOOLEAN /\ done' \in BOOLEAN
    BY <1>0, <1>16 DEF FlushRemote, outVars, inVars, endVars
  <2> QED
    BY <2>1, <2>2 DEF RouterPhase, FinishesEmpty
<1>17. ASSUME NEW i \in SessionIds, PingRemote(i) PROVE RouterPhase'
  <2>1. /\ ~done /\ done' = done /\ rpc' \in RouterPcs /\ (rpc' = "drain" => ~writeEnd')
    BY <1>0, <1>17 DEF PingRemote, outVars, inVars, endVars, RouterPcs
  <2>2. /\ needsFlush' \in BOOLEAN /\ wrote' \in BOOLEAN /\ readEnd' \in BOOLEAN /\ writeEnd' \in BOOLEAN
        /\ timer' \in BOOLEAN /\ quiet' \in BOOLEAN /\ done' \in BOOLEAN
    BY <1>0, <1>17 DEF PingRemote, outVars, inVars, endVars
  <2> QED
    BY <2>1, <2>2 DEF RouterPhase, FinishesEmpty
<1>18. ASSUME NEW i \in SessionIds, ReadRemote(i) PROVE RouterPhase'
  <2>1. /\ ~done /\ done' = done /\ rpc' \in RouterPcs /\ (rpc' = "drain" => ~writeEnd')
    BY <1>0, <1>18 DEF ReadRemote, inFrame, outVars, inVars, endVars, WriteSideEnds, RouterPcs
  <2>2. /\ needsFlush' \in BOOLEAN /\ wrote' \in BOOLEAN /\ readEnd' \in BOOLEAN /\ writeEnd' \in BOOLEAN
        /\ timer' \in BOOLEAN /\ quiet' \in BOOLEAN /\ done' \in BOOLEAN
    BY <1>0, <1>18 DEF ReadRemote, inFrame, outVars, inVars, endVars, WriteSideEnds
  <2> QED
    BY <2>1, <2>2 DEF RouterPhase, FinishesEmpty
<1> QED
  BY <1>1, <1>2, <1>3, <1>4, <1>5, <1>6, <1>7, <1>8, <1>9,
     <1>10, <1>11, <1>12, <1>13, <1>14, <1>15, <1>16, <1>17, <1>18 DEF RouterNext

LEMMA RouterInitial == RouterInit => RouterIInv
<1> SUFFICES ASSUME RouterInit PROVE RouterIInv
  OBVIOUS
<1>1. /\ <<>> \in Seq(1..0) /\ Len(<<>>) = 0 /\ 0 \in 0..PoolMax /\ 0 \in 0..PerSession /\ 0 \in 0..MaxIds
      /\ Cardinality({}) = 0 /\ 0 <= SessionCap /\ (CHOOSE f \in Flows : TRUE) \in Flows
  BY RouterConstants, EmptySeq, FS_EmptySet
<1>2. RouterPhase
  BY DEF RouterInit, RouterPhase, RouterPcs, FinishesEmpty
<1>3. PoolHolds([idle |-> 0, created |-> 0], 0)
  BY <1>1 DEF PoolHolds, PoolType
<1>4. CountsSound([i \in SessionIds |-> 0], <<>>, 0, {}, TRUE)
  BY <1>1 DEF CountsSound
<1>5. RemoteSide /\ ServerSide
  BY <1>1, <1>3, <1>4 DEF RouterInit, RemoteSide, ServerSide
<1>6. LookupSide
  BY <1>1 DEF RouterInit, LookupSide, LookupAgrees
<1>7. DeadSide
  BY DEF RouterInit, DeadSide, DeadIsMarked
<1> QED
  BY <1>2, <1>5, <1>6, <1>7 DEF RouterIInv

(* Whatever is pending, fails or ends between the phases of a poll, the buffers
   and the counters of the router match its queues, its lookup table matches its
   sessions, a dead session is marked, and it finishes with nothing left to send. *)
THEOREM RouterAlwaysSafe == RouterSafetySpec => []RouterSafe
<1>1. RouterIInv /\ [RouterNext]_routerVars => RouterIInv'
  <2> SUFFICES ASSUME RouterIInv, [RouterNext]_routerVars PROVE RouterIInv'
    OBVIOUS
  <2>1. CASE RouterNext
    BY <2>1, PhaseKeeps, RemoteKeeps, ServerKeeps, LookupKeeps, DeadKeep DEF RouterIInv
  <2>2. CASE UNCHANGED routerVars
    <3>1. RouterPhase' /\ DeadSide' /\ LookupSide'
      BY <2>2 DEF routerVars, RouterIInv, RouterPhase, DeadSide, LookupSide, FinishesEmpty,
                  DeadIsMarked, LookupAgrees
    <3>2. RemoteSide' /\ ServerSide'
      BY <2>2 DEF routerVars, RouterIInv, RemoteSide, ServerSide
    <3> QED
      BY <3>1, <3>2 DEF RouterIInv
  <2> QED
    BY <2>1, <2>2
<1>2. RouterIInv => RouterSafe
  <2> SUFFICES ASSUME RouterIInv PROVE RouterSafe
    OBVIOUS
  <2>1. nextId \in 0..MaxIds /\ 1..nextId \subseteq SessionIds /\ MaxIds \in Nat
    BY RouterConstants DEF RouterIInv, LookupSide, SessionIds
  <2>2. /\ remoteQ \in Seq(1..nextId) /\ serverQ \in Seq(1..nextId)
        /\ inRemote \in [SessionIds -> 0..PerSession] /\ inServer \in [SessionIds -> 0..PerSession]
        /\ PoolHolds(remotePool, Len(remoteQ)) /\ PoolHolds(serverPool, Len(serverQ))
    BY DEF RouterIInv, RemoteSide, ServerSide, CountsSound
  <2>3. remoteQ \in Seq(SessionIds) /\ serverQ \in Seq(SessionIds)
    BY <2>1, <2>2
  <2>4. shutdowns \in 0..MaxIds
    <3>1. IsFiniteSet(1..nextId) /\ sessions \in SUBSET (1..nextId)
      BY <2>1, FS_Interval DEF RouterIInv, LookupSide
    <3>2. Cardinality(sessions) \in Nat
      BY <3>1, FS_Subset, FS_CardinalityType
    <3> QED
      BY <2>1, <3>2 DEF RouterIInv, LookupSide
  <2>5. RouterTypeOK
    BY <2>1, <2>2, <2>3, <2>4
       DEF RouterIInv, RouterPhase, RouterPcs, LookupSide, DeadSide, PoolHolds, RouterTypeOK
  <2>6. BuffersAccounted
    BY <2>2 DEF PoolHolds, BuffersAccounted
  <2>7. CountersAccounted
    BY DEF RouterIInv, RemoteSide, ServerSide, CountsSound, CountersAccounted
  <2> QED
    BY <2>5, <2>6, <2>7 DEF RouterIInv, RouterPhase, LookupSide, DeadSide, RouterSafe
<1> QED
  BY <1>1, <1>2, RouterInitial, PTL DEF RouterSafetySpec

------------------------------------------------------------------------------
(* The routing rules and their cache. *)

JudgeType ==
    [at : {"idle", "match", "done"}, dest : Location, proto : Protos \cup {"none"},
     ip : Nat, pos : Nat \X Nat, out : [rule : Int, to : Location, ip : Nat]]

SelectorTypes ==
    /\ setup \in Setups
    /\ dns \in [Hosts -> Answers] /\ seen \in [Hosts -> SUBSET Answers]
    /\ \A n \in Hosts : dns[n] \in seen[n]
    /\ judge \in [Judges -> JudgeType]

MatchersOf(r) == 1..Len(Rule(r).matchers)

(* A judgement at a matcher has passed all the matchers before it. *)
MatchingSound(k) ==
    k.at = "match" =>
        /\ k.dest \in Dests /\ k.proto \in Protos /\ k.ip \in SeenIps(k.dest) \cup {NoIp}
        /\ k.pos[1] \in 1..Len(setup.rules) /\ k.pos[2] \in MatchersOf(k.pos[1])
        /\ \A r \in 1..k.pos[1] : \A j \in MatchersOf(r) :
              (r < k.pos[1] \/ j < k.pos[2])
                => Passed(Rule(r).matchers[j], k.dest, k.proto, k.ip)

(* A judgement that is done has a decision that is justified. *)
DecisionSound(k) ==
    k.at = "done" =>
        /\ k.dest \in Dests /\ k.proto \in Protos
        /\ k.out # JudgeFailed =>
              \E i \in 0..Len(setup.rules), e \in Spellings(k.dest) :
                  /\ k.out = ToDecision(i, k.dest, k.ip)
                  /\ \E ip \in JudgedIps(k, e) : FirstFor(i, e, k.proto, ip)

(* A cached rule is the first to match some spelling of its key, whatever
   protocol is sniffed. *)
RouteSound(t) ==
    /\ t.rule \in 0..Len(setup.rules)
    /\ \E e \in Dests :
          /\ RouteKey(e) = t.key
          /\ \E ip \in SeenIps(e) \cup {NoIp} : \A p \in Protos : FirstFor(t.rule, e, p, ip)

RoutesSound ==
    /\ routes \in Seq([key : {RouteKey(d) : d \in Dests}, rule : Nat])
    /\ \A n \in 1..Len(routes) : CacheOn /\ RouteSound(routes[n])

SelectorIInv ==
    /\ SelectorTypes
    /\ RoutesSound
    /\ \A c \in Judges : MatchingSound(judge[c]) /\ DecisionSound(judge[c])

LEMMA RulesTyped ==
  ASSUME setup \in Setups
  PROVE  /\ setup.resolve \in BOOLEAN /\ Len(setup.rules) \in Nat
         /\ (Len(setup.rules) = 0 <=> setup.rules = <<>>)
         /\ \A r \in 1..Len(setup.rules) :
               /\ Len(Rule(r).matchers) \in Nat \ {0}
               /\ Rule(r).allow \in BOOLEAN /\ Rule(r).override \in Location
               /\ \A j \in MatchersOf(r) :
                     /\ Rule(r).matchers[j] \in Matcher
                     /\ Rule(r).matchers[j].name \in Hosts \cup {<<>>}
<1> DEFINE R == [matchers : Seq(Matcher) \ {<<>>}, allow : BOOLEAN, override : Location]
<1> HIDE DEF R
<1>1. setup \in [resolve : BOOLEAN, rules : Seq(R)]
  BY SelectorBounds DEF R
<1>2. setup.resolve \in BOOLEAN /\ setup.rules \in Seq(R)
  BY <1>1
<1>3. Len(setup.rules) \in Nat /\ (Len(setup.rules) = 0 <=> setup.rules = <<>>)
  BY <1>2, EmptySeq
<1>4. ASSUME NEW r \in 1..Len(setup.rules)
      PROVE  /\ Len(Rule(r).matchers) \in Nat \ {0}
             /\ Rule(r).allow \in BOOLEAN /\ Rule(r).override \in Location
             /\ \A j \in MatchersOf(r) :
                   /\ Rule(r).matchers[j] \in Matcher
                   /\ Rule(r).matchers[j].name \in Hosts \cup {<<>>}
  <2>1. Rule(r) \in R
    BY <1>2, <1>4, ElementOfSeq DEF Rule
  <2>2. /\ Rule(r).matchers \in Seq(Matcher) /\ Rule(r).matchers # <<>>
        /\ Rule(r).allow \in BOOLEAN /\ Rule(r).override \in Location
    BY <2>1 DEF R
  <2>3. Len(Rule(r).matchers) \in Nat \ {0}
    BY <2>2, EmptySeq
  <2>4. ASSUME NEW j \in MatchersOf(r)
        PROVE  /\ Rule(r).matchers[j] \in Matcher
               /\ Rule(r).matchers[j].name \in Hosts \cup {<<>>}
    <3>1. Rule(r).matchers[j] \in Matcher
      BY <2>2, <2>4, ElementOfSeq DEF MatchersOf
    <3>2. Rule(r).matchers[j].name \in
             {setup.rules[r].matchers[x].name : x \in 1..Len(setup.rules[r].matchers)}
      BY <2>4 DEF MatchersOf, Rule
    <3>3. Rule(r).matchers[j].name \in RuleNames(setup)
      BY <1>4, <3>2 DEF RuleNames
    <3> QED
      BY <3>1, <3>3 DEF Hosts
  <2> QED
    BY <2>2, <2>3, <2>4
<1> QED
  BY <1>2, <1>3, <1>4

LEMMA DestNames == \A d \in Dests : d \in Location /\ d.name \in Hosts \cup {<<>>}
  BY SelectorBounds DEF Hosts

LEMMA AnswersTyped ==
  ASSUME SelectorTypes
  PROVE  \A n \in Hosts : seen[n] \subseteq Answers /\ dns[n] \in seen[n] /\ dns[n] \in Answers
  BY DEF SelectorTypes

LEMMA AnswerIps ==
  ASSUME NEW a \in Answers, a # <<>>
  PROVE  Head(a) \in Nat /\ Head(a) # NoIp
<1>1. a \in Seq(Nat \ {NoIp})
  BY SelectorBounds
<1>2. Head(a) \in Nat \ {NoIp}
  BY <1>1, HeadTailProperties
<1> QED
  BY <1>2

(* What the resolver answers now it has given. *)
LEMMA ResolvedSeen ==
  ASSUME SelectorTypes, NEW d \in Dests
  PROVE  /\ Resolved(d) \in SeenIps(d) \cup {NoIp}
         /\ SeenIps(d) \subseteq Nat
         /\ Resolved(d) \in Nat
<1>1. d \in Location /\ d.name \in Hosts \cup {<<>>}
  BY DestNames
<1>2. CASE d.name = <<>>
  BY <1>1, <1>2 DEF Resolved, SeenIps, Location
<1>3. CASE d.name # <<>>
  <2>1. /\ d.name \in Hosts /\ seen[d.name] \subseteq Answers
        /\ dns[d.name] \in seen[d.name] /\ dns[d.name] \in Answers
    BY <1>1, <1>3, AnswersTyped
  <2>2. SeenIps(d) = {Head(a) : a \in seen[d.name] \ {<<>>}}
    BY <1>3 DEF SeenIps
  <2>3. Resolved(d) \in SeenIps(d) \cup {NoIp}
    BY <1>3, <2>1, <2>2 DEF Resolved
  <2>4. SeenIps(d) \subseteq Nat
    BY <2>1, <2>2, AnswerIps
  <2> QED
    BY <2>3, <2>4 DEF NoIp
<1> QED
  BY <1>2, <1>3

LEMMA AnswerSeen ==
  ASSUME SelectorTypes, NEW n \in Hosts \cup {<<>>}
  PROVE  AnswerFor(n) \in SeenFor(n)
  BY AnswersTyped DEF AnswerFor, SeenFor

(* A matcher that compares no addresses does not look at the address, and one
   that is not for protocols not at the protocol. *)
LEMMA MatchesBy ==
  ASSUME NEW m \in Matcher, NEW d, NEW p, NEW q, NEW ip, NEW x, NEW a
  PROVE  /\ ~NeedsIp(m, d) => Matches(m, d, p, ip, a) = Matches(m, d, p, x, a)
         /\ m.kind # "proto" => Matches(m, d, p, ip, a) = Matches(m, d, q, ip, a)
<1>1. m.kind \in {"mask", "names", "proto"}
  BY DEF Matcher
<1>2. CASE m.kind = "names"
  BY <1>2 DEF Matches
<1>3. CASE m.kind = "proto"
  BY <1>3 DEF Matches
<1>4. CASE m.kind = "mask"
  BY <1>4 DEF Matches
<1> QED
  BY <1>1, <1>2, <1>3, <1>4

LEMMA PassedResolved ==
  ASSUME NEW m \in Matcher, NEW d, NEW p, NEW ip, Passed(m, d, p, NoIp)
  PROVE  Passed(m, d, p, ip)
<1>1. PICK a \in SeenFor(m.name) : ~Matches(m, d, p, NoIp, a)
  BY DEF Passed
<1>2. ~NeedsIp(m, d)
  BY DEF Passed
<1>3. ~Matches(m, d, p, ip, a)
  BY <1>1, <1>2, MatchesBy
<1> QED
  BY <1>1, <1>2, <1>3 DEF Passed

(* The rules stay and the resolver only gives more answers. *)
Growing ==
    /\ SelectorTypes /\ SelectorTypes' /\ setup' = setup
    /\ \A n \in Hosts : seen[n] \subseteq seen'[n]

LEMMA SeenGrows ==
  ASSUME Growing
  PROVE  /\ \A n \in Hosts \cup {<<>>} : SeenFor(n) \subseteq SeenFor(n)'
         /\ \A d \in Dests : SeenIps(d) \subseteq SeenIps(d)'
         /\ \A m, d, p, ip, a : Matches(m, d, p, ip, a)' = Matches(m, d, p, ip, a)
         /\ \A m, d : NeedsIp(m, d)' = NeedsIp(m, d)
<1>1. \A n \in Hosts \cup {<<>>} : SeenFor(n) \subseteq SeenFor(n)'
  BY DEF Growing, SeenFor
<1>2. \A d \in Dests : SeenIps(d) \subseteq SeenIps(d)'
  BY DestNames DEF Growing, SeenIps
<1>3. \A m, d : NeedsIp(m, d)' = NeedsIp(m, d)
  BY DEF Growing, NeedsIp, PortFits
<1>4. \A m, d, p, ip, a : Matches(m, d, p, ip, a)' = Matches(m, d, p, ip, a)
  BY <1>3 DEF Matches, MatchesDomain, PortFits
<1> QED
  BY <1>1, <1>2, <1>3, <1>4

(* So a matcher that was passed, or met, remains it. *)
LEMMA TriedGrows ==
  ASSUME Growing, NEW r \in 1..Len(setup.rules), NEW j \in MatchersOf(r), NEW d, NEW p, NEW ip
  PROVE  /\ Passed(Rule(r).matchers[j], d, p, ip) => Passed(Rule(r).matchers[j], d, p, ip)'
         /\ Met(Rule(r).matchers[j], d, p, ip) => Met(Rule(r).matchers[j], d, p, ip)'
<1> DEFINE m == Rule(r).matchers[j]
<1>1. setup' = setup /\ setup \in Setups
  BY DEF Growing, SelectorTypes
<1>2. m.name \in Hosts \cup {<<>>}
  BY <1>1, RulesTyped
<1>3. SeenFor(m.name) \subseteq SeenFor(m.name)'
  BY <1>1, <1>2, SeenGrows DEF Growing, SeenFor, Rule
<1>4. m' = m
  BY <1>1 DEF Rule
<1>5. /\ \A x, y, z, a : Matches(m, x, y, z, a)' = Matches(m, x, y, z, a)
      /\ NeedsIp(m, d)' = NeedsIp(m, d)
  BY <1>4, SeenGrows
<1>6. Passed(m, d, p, ip) => Passed(m, d, p, ip)'
  BY <1>3, <1>4, <1>5 DEF Passed
<1>7. Met(m, d, p, ip) => Met(m, d, p, ip)'
  BY <1>3, <1>4, <1>5 DEF Met
<1> QED
  BY <1>6, <1>7

(* What was the first rule to match remains it. *)
LEMMA FirstForGrows ==
  ASSUME Growing, NEW i \in 0..Len(setup.rules), NEW d, NEW p, NEW ip, FirstFor(i, d, p, ip)
  PROVE  FirstFor(i, d, p, ip)'
<1> DEFINE last == IF i = 0 THEN Len(setup.rules) ELSE i - 1
<1>1. setup' = setup /\ SelectorTypes /\ setup \in Setups
  BY DEF Growing, SelectorTypes
<1>2. last \in 0..Len(setup.rules) /\ Len(setup.rules) \in Nat
  BY <1>1, RulesTyped
<1>3. ASSUME NEW r \in 1..last, NEW j \in MatchersOf(r)
      PROVE  Passed(Rule(r).matchers[j], d, p, ip)'
  <2>1. r \in 1..Len(setup.rules)
    BY <1>2, <1>3
  <2>2. Passed(Rule(r).matchers[j], d, p, ip)
    BY <1>3 DEF FirstFor, MatchersOf
  <2> QED
    BY <1>3, <2>1, <2>2, TriedGrows
<1>4. ASSUME i > 0
      PROVE  \E j \in MatchersOf(i) : /\ Met(Rule(i).matchers[j], d, p, ip)'
                                      /\ \A n \in 1..(j - 1) : Passed(Rule(i).matchers[n], d, p, ip)'
  <2>1. i \in 1..Len(setup.rules)
    BY <1>2, <1>4
  <2>2. PICK j \in MatchersOf(i) : /\ Met(Rule(i).matchers[j], d, p, ip)
                                  /\ \A n \in 1..(j - 1) : Passed(Rule(i).matchers[n], d, p, ip)
    BY <1>4 DEF FirstFor, MatchersOf
  <2>3. Met(Rule(i).matchers[j], d, p, ip)'
    BY <2>1, <2>2, TriedGrows
  <2>4. ASSUME NEW n \in 1..(j - 1) PROVE Passed(Rule(i).matchers[n], d, p, ip)'
    <3>1. n \in MatchersOf(i)
      BY <1>1, <2>1, <2>4, RulesTyped DEF MatchersOf
    <3> QED
      BY <2>1, <2>2, <2>4, <3>1, TriedGrows
  <2> QED
    BY <2>3, <2>4
<1>5. \A r : MatchersOf(r)' = MatchersOf(r)
  BY <1>1 DEF MatchersOf, Rule
<1> QED
  BY <1>1, <1>3, <1>4, <1>5 DEF FirstFor, MatchersOf

LEMMA MatchingGrows ==
  ASSUME Growing, NEW k, MatchingSound(k)
  PROVE  MatchingSound(k)'
<1> SUFFICES ASSUME k.at = "match" PROVE MatchingSound(k)'
  BY DEF MatchingSound
<1>1. setup' = setup /\ setup \in Setups
  BY DEF Growing, SelectorTypes
<1>2. /\ k.dest \in Dests /\ k.proto \in Protos /\ k.ip \in SeenIps(k.dest)' \cup {NoIp}
  BY SeenGrows DEF MatchingSound
<1>3. k.pos[1] \in 1..Len(setup.rules) /\ k.pos[2] \in MatchersOf(k.pos[1])
  BY DEF MatchingSound
<1>4. ASSUME NEW r \in 1..k.pos[1], NEW j \in MatchersOf(r), r < k.pos[1] \/ j < k.pos[2]
      PROVE  Passed(Rule(r).matchers[j], k.dest, k.proto, k.ip)'
  <2>1. r \in 1..Len(setup.rules)
    BY <1>1, <1>3, <1>4, RulesTyped
  <2>2. Passed(Rule(r).matchers[j], k.dest, k.proto, k.ip)
    BY <1>4 DEF MatchingSound
  <2> QED
    BY <1>4, <2>1, <2>2, TriedGrows
<1> QED
  BY <1>1, <1>2, <1>3, <1>4 DEF MatchingSound, MatchersOf, Rule

LEMMA DecisionGrows ==
  ASSUME Growing, NEW k, DecisionSound(k)
  PROVE  DecisionSound(k)'
<1>1. setup' = setup /\ setup \in Setups
  BY DEF Growing, SelectorTypes
<1>2. CASE k.at = "done" /\ k.out # JudgeFailed
  <2>1. PICK i \in 0..Len(setup.rules), e \in Spellings(k.dest) :
           /\ k.out = ToDecision(i, k.dest, k.ip)
           /\ \E ip \in JudgedIps(k, e) : FirstFor(i, e, k.proto, ip)
    BY <1>2 DEF DecisionSound
  <2>2. PICK ip \in JudgedIps(k, e) : FirstFor(i, e, k.proto, ip)
    BY <2>1
  <2>3. FirstFor(i, e, k.proto, ip)'
    BY <2>2, FirstForGrows
  <2>4. /\ Spellings(k.dest)' = Spellings(k.dest) /\ CacheOn' = CacheOn
        /\ ToDecision(i, k.dest, k.ip)' = ToDecision(i, k.dest, k.ip)
    BY <1>1 DEF Spellings, CacheOn, Rule, ToDecision
  <2>5. k.dest \in Dests /\ k.proto \in Protos /\ e \in Dests
    BY <1>2, <2>1 DEF DecisionSound, Spellings
  <2>6. ip \in JudgedIps(k, e)'
    BY <2>2, <2>4, <2>5, SeenGrows DEF JudgedIps
  <2> QED
    BY <1>1, <2>1, <2>3, <2>4, <2>5, <2>6 DEF DecisionSound
<1>3. CASE ~(k.at = "done" /\ k.out # JudgeFailed)
  BY <1>3 DEF DecisionSound, JudgeFailed
<1> QED
  BY <1>2, <1>3

LEMMA RouteGrows ==
  ASSUME Growing, NEW t, RouteSound(t)
  PROVE  RouteSound(t)'
<1>1. setup' = setup
  BY DEF Growing
<1>2. t.rule \in 0..Len(setup.rules)
  BY DEF RouteSound
<1>3. PICK e \in Dests :
         /\ RouteKey(e) = t.key
         /\ \E ip \in SeenIps(e) \cup {NoIp} : \A p \in Protos : FirstFor(t.rule, e, p, ip)
  BY DEF RouteSound
<1>4. PICK ip \in SeenIps(e) \cup {NoIp} : \A p \in Protos : FirstFor(t.rule, e, p, ip)
  BY <1>3
<1>5. \A p \in Protos : FirstFor(t.rule, e, p, ip)'
  BY <1>2, <1>4, FirstForGrows
<1>6. ip \in SeenIps(e)' \cup {NoIp}
  BY <1>4, SeenGrows
<1> QED
  BY <1>1, <1>2, <1>3, <1>5, <1>6 DEF RouteSound

(* A decision that a judgement reached may be cached: no rule of a selector
   that has a cache looks at the protocol. *)
LEMMA Cacheable ==
  ASSUME SelectorTypes, CacheOn, NEW i \in 0..Len(setup.rules), NEW d \in Dests, NEW p,
         NEW ip \in SeenIps(d) \cup {NoIp}, FirstFor(i, d, p, ip)
  PROVE  RouteSound([key |-> RouteKey(d), rule |-> i])
<1> DEFINE last == IF i = 0 THEN Len(setup.rules) ELSE i - 1
<1>1. setup \in Setups /\ Len(setup.rules) \in Nat
  BY RulesTyped DEF SelectorTypes
<1>2. ASSUME NEW q \in Protos, NEW r \in 1..Len(setup.rules), NEW j \in MatchersOf(r)
      PROVE  /\ Passed(Rule(r).matchers[j], d, p, ip) => Passed(Rule(r).matchers[j], d, q, ip)
             /\ Met(Rule(r).matchers[j], d, p, ip) => Met(Rule(r).matchers[j], d, q, ip)
  <2>1. Rule(r).matchers[j] \in Matcher
    BY <1>1, <1>2, RulesTyped
  <2>2. Rule(r).matchers[j].kind # "proto"
    BY <1>2 DEF CacheOn, MatchersOf
  <2>3. \A a : Matches(Rule(r).matchers[j], d, p, ip, a) = Matches(Rule(r).matchers[j], d, q, ip, a)
    BY <2>1, <2>2, MatchesBy
  <2> QED
    BY <2>3 DEF Passed, Met
<1>3. ASSUME NEW q \in Protos PROVE FirstFor(i, d, q, ip)
  <2>1. ASSUME NEW r \in 1..last, NEW j \in MatchersOf(r)
        PROVE  Passed(Rule(r).matchers[j], d, q, ip)
    <3>1. r \in 1..Len(setup.rules)
      BY <1>1, <2>1
    <3>2. Passed(Rule(r).matchers[j], d, p, ip)
      BY <2>1 DEF FirstFor, MatchersOf
    <3> QED
      BY <1>2, <2>1, <3>1, <3>2
  <2>2. ASSUME i > 0
        PROVE  \E j \in MatchersOf(i) : /\ Met(Rule(i).matchers[j], d, q, ip)
                                        /\ \A n \in 1..(j - 1) : Passed(Rule(i).matchers[n], d, q, ip)
    <3>1. i \in 1..Len(setup.rules)
      BY <1>1, <2>2
    <3>2. PICK j \in MatchersOf(i) : /\ Met(Rule(i).matchers[j], d, p, ip)
                                    /\ \A n \in 1..(j - 1) : Passed(Rule(i).matchers[n], d, p, ip)
      BY <2>2 DEF FirstFor, MatchersOf
    <3>3. Met(Rule(i).matchers[j], d, q, ip)
      BY <1>2, <3>1, <3>2
    <3>4. ASSUME NEW n \in 1..(j - 1) PROVE Passed(Rule(i).matchers[n], d, q, ip)
      <4>1. n \in MatchersOf(i)
        BY <1>1, <3>1, <3>4, RulesTyped DEF MatchersOf
      <4> QED
        BY <1>2, <3>1, <3>2, <3>4, <4>1
    <3> QED
      BY <3>3, <3>4
  <2> QED
    BY <2>1, <2>2 DEF FirstFor, MatchersOf
<1> QED
  BY <1>3 DEF RouteSound

(* The cache after an insertion. *)
LEMMA InsertedSound ==
  ASSUME SelectorTypes, RoutesSound, CacheOn, NEW d \in Dests, NEW i \in Nat,
         RouteSound([key |-> RouteKey(d), rule |-> i])
  PROVE  /\ Inserted(d, i) \in Seq([key : {RouteKey(x) : x \in Dests}, rule : Nat])
         /\ \A n \in 1..Len(Inserted(d, i)) : RouteSound(Inserted(d, i)[n])
<1> DEFINE E == [key : {RouteKey(x) : x \in Dests}, rule : Nat]
           T == {t \in E : RouteSound(t)}
           new == [key |-> RouteKey(d), rule |-> i]
           kept == IF Hits(d) = {} THEN routes ELSE RemoveAt(routes, CHOOSE n \in Hits(d) : TRUE)
           cap == IF CacheCap = 0 THEN 1 ELSE CacheCap
           rest == IF Len(kept) < cap THEN kept ELSE SubSeq(kept, 1, cap - 1)
<1>1. new \in T
  OBVIOUS
<1> HIDE DEF new
<1>2. routes \in Seq(T)
  <2>0. routes \in Seq(E)
    BY DEF RoutesSound
  <2> HIDE DEF E
  <2>1. routes \in [1..Len(routes) -> E] /\ Len(routes) \in Nat
    BY <2>0, LenProperties
  <2>2. \A n \in 1..Len(routes) : routes[n] \in T
    BY <2>1 DEF RoutesSound
  <2>3. routes \in [1..Len(routes) -> T]
    BY <2>1, <2>2
  <2> QED
    BY <2>1, <2>3, IsASeq
<1> HIDE DEF T
<1>3. kept \in Seq(T)
  <2>1. CASE Hits(d) = {}
    BY <1>2, <2>1
  <2>2. CASE Hits(d) # {}
    <3>1. PICK n \in 1..Len(routes) : n = (CHOOSE x \in Hits(d) : TRUE)
      BY <2>2 DEF Hits
    <3>2. Len(routes) \in Nat
      BY <1>2, LenProperties
    <3>2a. /\ 1 \in 1..(Len(routes) + 1) /\ n - 1 \in (1 - 1)..Len(routes)
           /\ n + 1 \in 1..(Len(routes) + 1) /\ Len(routes) \in (n + 1 - 1)..Len(routes)
      BY <3>1, <3>2
    <3>3. SubSeq(routes, 1, n - 1) \in Seq(T) /\ SubSeq(routes, n + 1, Len(routes)) \in Seq(T)
      BY <1>2, <3>2a, SubSeqProperties
    <3> QED
      BY <2>2, <3>1, <3>3, ConcatProperties DEF RemoveAt
  <2> QED
    BY <2>1, <2>2
<1> HIDE DEF kept
<1>4. cap \in Nat \ {0}
  BY SelectorBounds
<1> HIDE DEF cap
<1>5. rest \in Seq(T)
  BY <1>3, <1>4, LenProperties, SubSeqProperties
<1> HIDE DEF rest
<1>6. <<new>> \o rest \in Seq(T)
  BY <1>1, <1>5, ConcatProperties
<1>7. Inserted(d, i) = <<new>> \o rest
  BY DEF Inserted, new, rest, kept, cap
<1>8. \A n \in 1..Len(Inserted(d, i)) : Inserted(d, i)[n] \in T
  BY <1>6, <1>7, ElementOfSeq
<1>9. Inserted(d, i) \in Seq(E)
  <2>1. \A n \in 1..Len(Inserted(d, i)) : Inserted(d, i)[n] \in E
    BY <1>8 DEF T
  <2> HIDE DEF E
  <2>2. /\ Inserted(d, i) \in [1..Len(Inserted(d, i)) -> T]
        /\ Len(Inserted(d, i)) \in Nat
    BY <1>6, <1>7, LenProperties
  <2>3. Inserted(d, i) \in [1..Len(Inserted(d, i)) -> E]
    BY <2>1, <2>2
  <2> QED
    BY <2>2, <2>3, IsASeq
<1> QED
  BY <1>8, <1>9 DEF T

LEMMA DecisionTyped ==
  ASSUME SelectorTypes, NEW i \in 0..Len(setup.rules), NEW d \in Location, NEW ip \in Nat
  PROVE  ToDecision(i, d, ip) \in [rule : Int, to : Location, ip : Nat]
<1>1. NoDest \in Location /\ NoIp \in Nat
  BY EmptySeq DEF NoDest, NoIp, Location
<1>2. Block \in [rule : Int, to : Location, ip : Nat]
  BY <1>1 DEF Block
<1>3. CASE i # 0
  <2>1. Rule(i).override \in Location
    BY <1>3, RulesTyped DEF SelectorTypes
  <2>2. [Rule(i).override EXCEPT !.port = d.port] \in Location
    BY <2>1 DEF Location
  <2> QED
    BY <1>1, <1>2, <1>3, <2>1, <2>2 DEF ToDecision
<1> QED
  BY <1>2, <1>3 DEF ToDecision

LEMMA RestingTyped ==
  /\ Resting \in JudgeType /\ Resting.at = "idle" /\ Resting.pos = <<1, 1>>
  /\ Resting.out = Block
<1>1. NoDest \in Location /\ NoIp \in Nat
  BY EmptySeq DEF NoDest, NoIp, Location
<1>2. Block \in [rule : Int, to : Location, ip : Nat]
  BY <1>1 DEF Block
<1>3. <<1, 1>> \in Nat \X Nat
  OBVIOUS
<1> QED
  BY <1>1, <1>2, <1>3 DEF Resting, JudgeType

LEMMA RoutesKeep ==
  ASSUME Growing, routes' \in Seq([key : {RouteKey(x) : x \in Dests}, rule : Nat]),
         \A n \in 1..Len(routes') : CacheOn /\ RouteSound(routes'[n])
  PROVE  RoutesSound'
<1>1. CacheOn' = CacheOn
  BY DEF Growing, CacheOn, Rule
<1>2. \A n \in 1..Len(routes') : RouteSound(routes[n])'
  BY RouteGrows
<1> QED
  BY <1>1, <1>2 DEF RoutesSound, RouteKey

(* One judgement k moves, and the cache stays or takes in a decision. *)
LEMMA OneMoves ==
  ASSUME SelectorIInv, UNCHANGED <<setup, dns, seen>>, NEW c \in Judges, NEW k \in JudgeType,
         judge' = [judge EXCEPT ![c] = k], MatchingSound(k), DecisionSound(k),
         \/ routes' = routes
         \/ /\ CacheOn
            /\ \E d \in Dests, i \in Nat : /\ routes' = Inserted(d, i)
                                           /\ RouteSound([key |-> RouteKey(d), rule |-> i])
  PROVE  SelectorIInv'
<1>1. SelectorTypes /\ RoutesSound
  BY DEF SelectorIInv
<1>2. SelectorTypes'
  BY <1>1 DEF SelectorTypes, JudgeType
<1>3. Growing
  BY <1>1, <1>2 DEF Growing, SelectorTypes
<1>4. RoutesSound'
  <2>1. CASE routes' = routes
    <3>1. /\ routes' \in Seq([key : {RouteKey(x) : x \in Dests}, rule : Nat])
          /\ \A n \in 1..Len(routes') : CacheOn /\ RouteSound(routes'[n])
      BY <1>1, <2>1 DEF RoutesSound
    <3> QED
      BY <1>3, <3>1, RoutesKeep
  <2>2. CASE CacheOn /\ \E d \in Dests, i \in Nat :
                           /\ routes' = Inserted(d, i)
                           /\ RouteSound([key |-> RouteKey(d), rule |-> i])
    <3>1. PICK d \in Dests, i \in Nat : /\ routes' = Inserted(d, i)
                                        /\ RouteSound([key |-> RouteKey(d), rule |-> i])
      BY <2>2
    <3>2. /\ Inserted(d, i) \in Seq([key : {RouteKey(x) : x \in Dests}, rule : Nat])
          /\ \A n \in 1..Len(Inserted(d, i)) : RouteSound(Inserted(d, i)[n])
      BY <1>1, <2>2, <3>1, InsertedSound
    <3>3. /\ routes' \in Seq([key : {RouteKey(x) : x \in Dests}, rule : Nat])
          /\ \A n \in 1..Len(routes') : CacheOn /\ RouteSound(routes'[n])
      BY <2>2, <3>1, <3>2
    <3> QED
      BY <1>3, <3>3, RoutesKeep
  <2> QED
    BY <2>1, <2>2
<1>5. ASSUME NEW x \in Judges PROVE MatchingSound(judge[x])' /\ DecisionSound(judge[x])'
  <2>1. PICK y : y = judge'[x]
    OBVIOUS
  <2>2. MatchingSound(y) /\ DecisionSound(y)
    BY <1>1, <2>1 DEF SelectorIInv, SelectorTypes
  <2>3. MatchingSound(y)' /\ DecisionSound(y)'
    BY <1>3, <2>2, MatchingGrows, DecisionGrows
  <2> QED
    BY <2>1, <2>3
<1> QED
  BY <1>2, <1>4, <1>5 DEF SelectorIInv

LEMMA JudgeKeeps ==
  ASSUME SelectorIInv, NEW c \in Judges, NEW d \in Dests, NEW p \in Protos, NEW pre \in BOOLEAN,
         Judge(c, d, p, pre)
  PROVE  SelectorIInv'
<1> DEFINE ip == IF pre THEN Resolved(d) ELSE NoIp
           k == [Resting EXCEPT !.dest = d, !.proto = p, !.ip = ip]
           hit == routes[CHOOSE i \in Hits(d) : TRUE]
<1>0. /\ UNCHANGED <<setup, dns, seen>> /\ SelectorTypes /\ RoutesSound /\ setup \in Setups
      /\ d \in Location
  BY DestNames, SelectorBounds DEF Judge, SelectorIInv, SelectorTypes
<1>1. ip \in SeenIps(d) \cup {NoIp} /\ ip \in Nat
  BY <1>0, ResolvedSeen DEF NoIp
<1>2. /\ judge' = [judge EXCEPT ![c] =
              IF CacheOn /\ Hits(d) # {}
              THEN [k EXCEPT !.at = "done", !.out = ToDecision(hit.rule, d, ip)]
              ELSE IF setup.rules = <<>> THEN [k EXCEPT !.at = "done"]
              ELSE [k EXCEPT !.at = "match"]]
      /\ routes' = IF CacheOn /\ Hits(d) = {} /\ setup.rules = <<>> THEN Inserted(d, 0)
                   ELSE routes
  BY DEF Judge
<1>3. Block \in [rule : Int, to : Location, ip : Nat]
  BY EmptySeq DEF Block, NoDest, NoIp, Location
<1> HIDE DEF ip
<1>3a. Resting \in JudgeType /\ Resting.pos = <<1, 1>> /\ Resting.out = Block
  BY RestingTyped
<1>4. /\ k \in JudgeType /\ k.dest = d /\ k.proto = p /\ k.ip = ip /\ k.pos = <<1, 1>>
      /\ k.out = Block
  BY <1>0, <1>1, <1>3a DEF JudgeType
<1> HIDE DEF k
<1>5. CASE CacheOn /\ Hits(d) # {}
  <2>1. PICK n \in 1..Len(routes) : hit = routes[n] /\ routes[n].key = RouteKey(d)
    BY <1>5 DEF Hits
  <2>2. PICK e \in Dests :
           /\ RouteKey(e) = RouteKey(d) /\ hit.rule \in 0..Len(setup.rules)
           /\ \E x \in SeenIps(e) \cup {NoIp} : FirstFor(hit.rule, e, p, x)
    BY <1>0, <2>1 DEF RoutesSound, RouteSound
  <2>3. e \in Spellings(d)
    BY <1>5, <2>2 DEF Spellings
  <2> DEFINE y == [k EXCEPT !.at = "done", !.out = ToDecision(hit.rule, d, ip)]
  <2>4. ToDecision(hit.rule, d, ip) \in [rule : Int, to : Location, ip : Nat]
    BY <1>0, <1>1, <2>2, DecisionTyped
  <2>5. /\ y \in JudgeType /\ y.at = "done" /\ y.dest = d /\ y.proto = p /\ y.ip = ip
        /\ y.out = ToDecision(hit.rule, d, ip)
    BY <1>0, <1>1, <1>4, <2>4 DEF JudgeType
  <2>6. judge' = [judge EXCEPT ![c] = y] /\ routes' = routes
    BY <1>2, <1>5
  <2> HIDE DEF y, hit
  <2>7. MatchingSound(y)
    BY <2>5 DEF MatchingSound
  <2>8. DecisionSound(y)
    BY <1>5, <2>2, <2>3, <2>5 DEF DecisionSound, JudgedIps
  <2> QED
    BY <1>0, <2>5, <2>6, <2>7, <2>8, OneMoves
<1>6. CASE ~(CacheOn /\ Hits(d) # {}) /\ setup.rules = <<>>
  <2> DEFINE y == [k EXCEPT !.at = "done"]
  <2>1. /\ y \in JudgeType /\ y.at = "done" /\ y.dest = d /\ y.proto = p /\ y.ip = ip
        /\ y.out = Block
    BY <1>0, <1>1, <1>3, <1>4 DEF JudgeType
  <2>2. judge' = [judge EXCEPT ![c] = y]
    BY <1>2, <1>6
  <2> HIDE DEF y
  <2>3. Len(setup.rules) = 0 /\ 0 \in 0..Len(setup.rules)
    BY <1>0, <1>6, RulesTyped
  <2>4. FirstFor(0, d, p, ip)
    BY <2>3 DEF FirstFor
  <2>5. Block = ToDecision(0, d, ip)
    BY DEF ToDecision
  <2>6. d \in Spellings(d)
    BY DEF Spellings
  <2>7. DecisionSound(y)
    BY <1>1, <2>1, <2>3, <2>4, <2>5, <2>6 DEF DecisionSound, JudgedIps
  <2>8. MatchingSound(y)
    BY <2>1 DEF MatchingSound
  <2>9. CacheOn => RouteSound([key |-> RouteKey(d), rule |-> 0])
    BY <1>0, <1>1, <2>3, <2>4, Cacheable
  <2>10. \/ routes' = routes
         \/ CacheOn /\ \E x \in Dests, i \in Nat :
                          /\ routes' = Inserted(x, i)
                          /\ RouteSound([key |-> RouteKey(x), rule |-> i])
    BY <1>2, <1>6, <2>9
  <2> QED
    BY <1>0, <2>1, <2>2, <2>7, <2>8, <2>10, OneMoves
<1>7. CASE ~(CacheOn /\ Hits(d) # {}) /\ setup.rules # <<>>
  <2> DEFINE y == [k EXCEPT !.at = "match"]
  <2>1. /\ y \in JudgeType /\ y.at = "match" /\ y.dest = d /\ y.proto = p /\ y.ip = ip
        /\ y.pos = <<1, 1>>
    BY <1>0, <1>1, <1>3, <1>4 DEF JudgeType
  <2>2. judge' = [judge EXCEPT ![c] = y] /\ routes' = routes
    BY <1>2, <1>7
  <2> HIDE DEF y
  <2>3. y.pos[1] = 1 /\ y.pos[2] = 1
    BY <2>1
  <2>4. 1 \in 1..Len(setup.rules) /\ 1 \in MatchersOf(1)
    BY <1>0, <1>7, RulesTyped DEF MatchersOf
  <2>5. MatchingSound(y)
    BY <1>1, <2>1, <2>3, <2>4 DEF MatchingSound, MatchersOf
  <2>6. DecisionSound(y)
    BY <2>1 DEF DecisionSound
  <2> QED
    BY <1>0, <2>1, <2>2, <2>5, <2>6, OneMoves
<1> QED
  BY <1>5, <1>6, <1>7

(* The matcher a judgement is at, and the address it takes there. *)
LEMMA TryMatcherKeeps ==
  ASSUME SelectorIInv, NEW c \in Judges, TryMatcher(c)
  PROVE  SelectorIInv'
<1> DEFINE m == Rule(judge[c].pos[1]).matchers[judge[c].pos[2]]
           ip == IF NeedsIp(m, judge[c].dest) /\ judge[c].ip = NoIp THEN Resolved(judge[c].dest)
                 ELSE judge[c].ip
           after == NextPos(judge[c].pos)
<1>0. /\ UNCHANGED <<setup, dns, seen>> /\ SelectorTypes /\ RoutesSound /\ setup \in Setups
      /\ judge \in [Judges -> JudgeType] /\ judge[c] \in JudgeType
  BY DEF TryMatcher, SelectorIInv, SelectorTypes
<1>1. PICK k : k = judge[c]
  OBVIOUS
<1>2. k \in JudgeType /\ k.at = "match" /\ MatchingSound(k)
  BY <1>0, <1>1 DEF TryMatcher, SelectorIInv
<1>3. /\ k.dest \in Dests /\ k.proto \in Protos /\ k.ip \in SeenIps(k.dest) \cup {NoIp}
      /\ k.pos[1] \in 1..Len(setup.rules) /\ k.pos[2] \in MatchersOf(k.pos[1])
      /\ k.dest \in Location
  BY <1>2, DestNames DEF MatchingSound
<1>4. m \in Matcher /\ m.name \in Hosts \cup {<<>>} /\ m = Rule(k.pos[1]).matchers[k.pos[2]]
  BY <1>0, <1>1, <1>3, RulesTyped
<1>5. /\ ip \in SeenIps(k.dest) \cup {NoIp} /\ ip \in Nat /\ (k.ip = ip \/ k.ip = NoIp)
      /\ (ip = NoIp => k.ip = NoIp)
  BY <1>0, <1>1, <1>3, ResolvedSeen DEF NoIp
<1> HIDE DEF m, ip
(* The matchers before this one are passed with the address too. *)
<1>6. ASSUME NEW r \in 1..k.pos[1], NEW j \in MatchersOf(r), r < k.pos[1] \/ j < k.pos[2]
      PROVE  Passed(Rule(r).matchers[j], k.dest, k.proto, ip)
  <2>1. Passed(Rule(r).matchers[j], k.dest, k.proto, k.ip)
    BY <1>2, <1>6 DEF MatchingSound
  <2>2. r \in 1..Len(setup.rules)
    BY <1>0, <1>3, <1>6, RulesTyped
  <2>3. Rule(r).matchers[j] \in Matcher
    BY <1>0, <1>6, <2>2, RulesTyped
  <2> QED
    BY <1>5, <2>1, <2>3, PassedResolved
<1>7. CASE NeedsIp(m, k.dest) /\ ip = NoIp
  <2> DEFINE y == [k EXCEPT !.at = "done", !.out = JudgeFailed]
  <2>1. judge' = [judge EXCEPT ![c] = y] /\ routes' = routes
    BY <1>0, <1>1, <1>7 DEF TryMatcher, m, ip
  <2>2. JudgeFailed \in [rule : Int, to : Location, ip : Nat]
    BY EmptySeq DEF JudgeFailed, NoDest, NoIp, Location
  <2>3. y \in JudgeType /\ y.at = "done" /\ y.dest = k.dest /\ y.proto = k.proto /\ y.out = JudgeFailed
    BY <1>2, <2>2 DEF JudgeType
  <2> HIDE DEF y
  <2>4. MatchingSound(y) /\ DecisionSound(y)
    BY <1>3, <2>3 DEF MatchingSound, DecisionSound
  <2> QED
    BY <1>0, <2>1, <2>3, <2>4, OneMoves
<1>8. ASSUME NEW i \in 0..Len(setup.rules), Decide(c, i, ip), FirstFor(i, k.dest, k.proto, ip)
      PROVE  SelectorIInv'
  <2> DEFINE y == [k EXCEPT !.at = "done", !.ip = ip, !.out = ToDecision(i, k.dest, ip)]
  <2>1. /\ judge' = [judge EXCEPT ![c] = y]
        /\ routes' = IF CacheOn THEN Inserted(k.dest, i) ELSE routes
    BY <1>0, <1>1, <1>8 DEF Decide
  <2>2. ToDecision(i, k.dest, ip) \in [rule : Int, to : Location, ip : Nat]
    BY <1>0, <1>3, <1>5, <1>8, DecisionTyped
  <2>3. /\ y \in JudgeType /\ y.at = "done" /\ y.dest = k.dest /\ y.proto = k.proto /\ y.ip = ip
        /\ y.out = ToDecision(i, k.dest, ip)
    BY <1>2, <1>5, <2>2 DEF JudgeType
  <2> HIDE DEF y
  <2>4. MatchingSound(y)
    BY <2>3 DEF MatchingSound
  <2>5. k.dest \in Spellings(k.dest)
    BY <1>3 DEF Spellings
  <2>6. DecisionSound(y)
    BY <1>3, <1>5, <1>8, <2>3, <2>5 DEF DecisionSound, JudgedIps
  <2>7. CacheOn => RouteSound([key |-> RouteKey(k.dest), rule |-> i])
    BY <1>0, <1>3, <1>5, <1>8, Cacheable
  <2>8. i \in Nat
    BY <1>8
  <2>9. \/ routes' = routes
        \/ CacheOn /\ \E x \in Dests, n \in Nat :
                         /\ routes' = Inserted(x, n)
                         /\ RouteSound([key |-> RouteKey(x), rule |-> n])
    BY <1>3, <2>1, <2>7, <2>8
  <2> QED
    BY <1>0, <2>1, <2>3, <2>4, <2>6, <2>9, OneMoves
<1>9. AnswerFor(m.name) \in SeenFor(m.name)
  BY <1>0, <1>4, AnswerSeen
<1>10. CASE /\ ~(NeedsIp(m, k.dest) /\ ip = NoIp)
            /\ Matches(m, k.dest, k.proto, ip, AnswerFor(m.name))
  <2>1. Decide(c, k.pos[1], ip)
    BY <1>1, <1>10 DEF TryMatcher, m, ip
  <2>2. k.pos[1] \in 0..Len(setup.rules) /\ k.pos[1] > 0 /\ Len(setup.rules) \in Nat
    BY <1>0, <1>3, RulesTyped
  <2>3. \A r \in 1..(k.pos[1] - 1) : \A j \in MatchersOf(r) :
           Passed(Rule(r).matchers[j], k.dest, k.proto, ip)
    BY <1>6, <2>2
  <2>4. /\ k.pos[2] \in MatchersOf(k.pos[1])
        /\ Met(Rule(k.pos[1]).matchers[k.pos[2]], k.dest, k.proto, ip)
    BY <1>3, <1>4, <1>9, <1>10 DEF Met
  <2>4a. \A j \in 1..(k.pos[2] - 1) : Passed(Rule(k.pos[1]).matchers[j], k.dest, k.proto, ip)
    <3>1. Len(Rule(k.pos[1]).matchers) \in Nat
      BY <1>0, <1>3, RulesTyped
    <3>2. \A j \in 1..(k.pos[2] - 1) : j \in MatchersOf(k.pos[1]) /\ j < k.pos[2]
      BY <1>3, <3>1 DEF MatchersOf
    <3> QED
      BY <1>6, <2>2, <3>2
  <2>5. FirstFor(k.pos[1], k.dest, k.proto, ip)
    <3>1. PICK n \in 1..Len(setup.rules) : n = k.pos[1]
      BY <1>3
    <3>2. \A r \in 1..(n - 1) : \A j \in 1..Len(Rule(r).matchers) :
             Passed(Rule(r).matchers[j], k.dest, k.proto, ip)
      BY <2>3, <3>1 DEF MatchersOf
    <3>3. \E j \in 1..Len(Rule(n).matchers) :
             /\ Met(Rule(n).matchers[j], k.dest, k.proto, ip)
             /\ \A l \in 1..(j - 1) : Passed(Rule(n).matchers[l], k.dest, k.proto, ip)
      BY <2>4, <2>4a, <3>1 DEF MatchersOf
    <3>4. FirstFor(n, k.dest, k.proto, ip)
      <4>1. n # 0
        BY <3>1
      <4>2. (IF n = 0 THEN Len(setup.rules) ELSE n - 1) = n - 1
        BY <4>1
      <4> QED
        BY Zenon, <3>2, <3>3, <4>2 DEF FirstFor
    <3> QED
      BY <3>1, <3>4
  <2> QED
    BY <1>8, <2>1, <2>2, <2>5
<1>11. CASE /\ ~(NeedsIp(m, k.dest) /\ ip = NoIp)
            /\ ~Matches(m, k.dest, k.proto, ip, AnswerFor(m.name))
  <2>1. Passed(m, k.dest, k.proto, ip)
    BY <1>9, <1>11 DEF Passed
  <2>2. ASSUME NEW r \in 1..k.pos[1], NEW j \in MatchersOf(r), r < k.pos[1] \/ j <= k.pos[2]
        PROVE  Passed(Rule(r).matchers[j], k.dest, k.proto, ip)
    <3>1. CASE r < k.pos[1] \/ j < k.pos[2]
      BY <1>6, <2>2, <3>1
    <3>2. CASE ~(r < k.pos[1] \/ j < k.pos[2])
      <4>1. r = k.pos[1] /\ j = k.pos[2]
        BY <1>3, <2>2, <3>2 DEF MatchersOf
      <4> QED
        BY <1>4, <2>1, <4>1
    <3> QED
      BY <3>1, <3>2
  <2>3. /\ Len(setup.rules) \in Nat /\ Len(Rule(k.pos[1]).matchers) \in Nat
        /\ k.pos[1] \in Nat /\ k.pos[2] \in Nat
    BY <1>0, <1>3, RulesTyped DEF MatchersOf
  <2>4. after = IF k.pos[2] < Len(Rule(k.pos[1]).matchers) THEN <<k.pos[1], k.pos[2] + 1>>
                ELSE <<k.pos[1] + 1, 1>>
    BY <1>1 DEF NextPos
  <2> HIDE DEF after
  <2>5. CASE after[1] > Len(setup.rules)
    <3>1. k.pos[1] = Len(setup.rules) /\ k.pos[2] >= Len(Rule(k.pos[1]).matchers)
      BY <1>3, <2>3, <2>4, <2>5
    <3>2. \A r \in 1..Len(setup.rules) : \A j \in MatchersOf(r) :
             Passed(Rule(r).matchers[j], k.dest, k.proto, ip)
      BY <2>2, <2>3, <3>1 DEF MatchersOf
    <3>3. FirstFor(0, k.dest, k.proto, ip)
      BY <3>2 DEF FirstFor, MatchersOf
    <3>4. Decide(c, 0, ip)
      BY <1>1, <1>11, <2>5 DEF TryMatcher, m, ip, after
    <3>5. 0 \in 0..Len(setup.rules)
      BY <2>3
    <3> QED
      BY <1>8, <3>3, <3>4, <3>5
  <2>6. CASE ~(after[1] > Len(setup.rules))
    <3> DEFINE y == [k EXCEPT !.pos = after, !.ip = ip]
    <3>1. judge' = [judge EXCEPT ![c] = y] /\ routes' = routes
      BY <1>0, <1>1, <1>11, <2>6 DEF TryMatcher, m, ip, after
    <3>2. after \in Nat \X Nat
      BY <2>3, <2>4
    <3>3. /\ y \in JudgeType /\ y.at = "match" /\ y.dest = k.dest /\ y.proto = k.proto
          /\ y.ip = ip /\ y.pos = after
      BY <1>2, <1>5, <3>2 DEF JudgeType
    <3> HIDE DEF y
    <3>4. after[1] \in 1..Len(setup.rules) /\ after[2] \in MatchersOf(after[1])
      <4>1. CASE k.pos[2] < Len(Rule(k.pos[1]).matchers)
        BY <1>3, <2>3, <2>4, <2>6, <4>1 DEF MatchersOf
      <4>2. CASE ~(k.pos[2] < Len(Rule(k.pos[1]).matchers))
        <5>1. after[1] = k.pos[1] + 1 /\ after[2] = 1
          BY <2>4, <4>2
        <5>2. after[1] \in 1..Len(setup.rules)
          BY <2>3, <2>6, <5>1
        <5> QED
          BY <1>0, <5>1, <5>2, RulesTyped DEF MatchersOf
      <4> QED
        BY <4>1, <4>2
    <3>5. ASSUME NEW r \in 1..after[1], NEW j \in MatchersOf(r), r < after[1] \/ j < after[2]
          PROVE  Passed(Rule(r).matchers[j], k.dest, k.proto, ip)
      <4>1. r \in 1..k.pos[1] /\ (r < k.pos[1] \/ j <= k.pos[2])
        <5>1. CASE k.pos[2] < Len(Rule(k.pos[1]).matchers)
          BY <2>3, <2>4, <3>5, <5>1 DEF MatchersOf
        <5>2. CASE ~(k.pos[2] < Len(Rule(k.pos[1]).matchers))
          BY <2>3, <2>4, <3>5, <5>2 DEF MatchersOf
        <5> QED
          BY <5>1, <5>2
      <4> QED
        BY <2>2, <3>5, <4>1
    <3>6. MatchingSound(y)
      BY <1>3, <1>5, <3>3, <3>4, <3>5 DEF MatchingSound
    <3>7. DecisionSound(y)
      BY <3>3 DEF DecisionSound
    <3> QED
      BY <1>0, <3>1, <3>3, <3>6, <3>7, OneMoves
  <2> QED
    BY <2>5, <2>6
<1> QED
  BY <1>7, <1>10, <1>11

LEMMA AnswerChangeKeeps ==
  ASSUME SelectorIInv, NEW n \in Hosts, NEW a \in Answers, AnswerChanges(n, a)
  PROVE  SelectorIInv'
<1>1. SelectorTypes /\ UNCHANGED <<setup, routes, judge>>
  BY DEF SelectorIInv, AnswerChanges
<1>2. dns' = [dns EXCEPT ![n] = a] /\ seen' = [seen EXCEPT ![n] = @ \cup {a}]
  BY DEF AnswerChanges
<1>3. SelectorTypes'
  BY <1>1, <1>2 DEF SelectorTypes
<1>4. Growing
  BY <1>1, <1>2, <1>3 DEF Growing, SelectorTypes
<1>5. RoutesSound'
  <2>1. /\ routes' \in Seq([key : {RouteKey(x) : x \in Dests}, rule : Nat])
        /\ \A x \in 1..Len(routes') : CacheOn /\ RouteSound(routes'[x])
    BY <1>1 DEF SelectorIInv, RoutesSound
  <2> QED
    BY <1>4, <2>1, RoutesKeep
<1>6. ASSUME NEW x \in Judges PROVE MatchingSound(judge[x])' /\ DecisionSound(judge[x])'
  <2>1. PICK y : y = judge'[x]
    OBVIOUS
  <2>2. MatchingSound(y) /\ DecisionSound(y)
    BY <1>1, <2>1 DEF SelectorIInv
  <2>3. MatchingSound(y)' /\ DecisionSound(y)'
    BY <1>4, <2>2, MatchingGrows, DecisionGrows
  <2> QED
    BY <2>1, <2>3
<1> QED
  BY <1>3, <1>5, <1>6 DEF SelectorIInv

LEMMA SelectorInitial == SelectorInit => SelectorIInv
<1> SUFFICES ASSUME SelectorInit PROVE SelectorIInv
  OBVIOUS
<1>1. Resting \in JudgeType /\ Resting.at = "idle"
  BY RestingTyped
<1>2. SelectorTypes
  BY <1>1 DEF SelectorInit, SelectorTypes
<1>3. RoutesSound
  BY EmptySeq DEF SelectorInit, RoutesSound
<1>4. \A c \in Judges : judge[c] = Resting
  BY DEF SelectorInit
<1>5. MatchingSound(Resting) /\ DecisionSound(Resting)
  BY <1>1 DEF MatchingSound, DecisionSound
<1> QED
  BY <1>2, <1>3, <1>4, <1>5 DEF SelectorIInv

LEMMA SelectorKeeps == SelectorIInv /\ [SelectorNext]_selectorVars => SelectorIInv'
<1> SUFFICES ASSUME SelectorIInv, [SelectorNext]_selectorVars PROVE SelectorIInv'
  OBVIOUS
<1>1. ASSUME NEW c \in Judges, NEW d \in Dests, NEW p \in Protos, NEW pre \in BOOLEAN,
             Judge(c, d, p, pre)
      PROVE  SelectorIInv'
  BY <1>1, JudgeKeeps
<1>2. ASSUME NEW c \in Judges, TryMatcher(c) PROVE SelectorIInv'
  BY <1>2, TryMatcherKeeps
<1>3. ASSUME NEW n \in Hosts, NEW a \in Answers, AnswerChanges(n, a) PROVE SelectorIInv'
  BY <1>3, AnswerChangeKeeps
<1>4. CASE UNCHANGED selectorVars
  <2>1. SelectorTypes /\ UNCHANGED <<setup, dns, seen, routes, judge>>
    BY <1>4 DEF SelectorIInv, selectorVars
  <2>2. SelectorTypes'
    BY <2>1 DEF SelectorTypes
  <2>3. Growing
    BY <2>1, <2>2 DEF Growing
  <2>4. RoutesSound'
    <3>1. /\ routes' \in Seq([key : {RouteKey(x) : x \in Dests}, rule : Nat])
          /\ \A x \in 1..Len(routes') : CacheOn /\ RouteSound(routes'[x])
      BY <2>1 DEF SelectorIInv, RoutesSound
    <3> QED
      BY <2>3, <3>1, RoutesKeep
  <2>5. ASSUME NEW x \in Judges PROVE MatchingSound(judge[x])' /\ DecisionSound(judge[x])'
    <3>1. PICK y : y = judge'[x]
      OBVIOUS
    <3>2. MatchingSound(y) /\ DecisionSound(y)
      BY <2>1, <3>1 DEF SelectorIInv
    <3>3. MatchingSound(y)' /\ DecisionSound(y)'
      BY <2>3, <3>2, MatchingGrows, DecisionGrows
    <3> QED
      BY <3>1, <3>3
  <2> QED
    BY <2>2, <2>4, <2>5 DEF SelectorIInv
<1> QED
  BY <1>1, <1>2, <1>3, <1>4 DEF SelectorNext

(* Every decision of judge_inner, from the cache or from the rules, is the one
   the first matching rule gives under answers the resolver has given, none of
   the rules before it being passed over for want of an address, for any rules, any size of the cache and any number of judgements at once. *)
THEOREM DecisionsAlwaysJustified == SelectorSpec => []DecisionsJustified
<1>1. SelectorIInv => DecisionsJustified
  BY DEF SelectorIInv, DecisionsJustified, DecisionSound
<1> QED
  BY <1>1, SelectorInitial, SelectorKeeps, PTL DEF SelectorSpec

==============================================================================
