------------------------------ MODULE Resolver ------------------------------
(***************************************************************************)
(* RefreshingResolver (resolver.rs): lookups share an inner resolver that  *)
(* is rebuilt when nobody used it for long, or when a lookup fails in a    *)
(* way that a stale pooled connection explains.  The inner resolver, the   *)
(* generation and the refresh lock are three separate locks, and a lookup  *)
(* awaits between them.                                                    *)
(***************************************************************************)
EXTENDS Naturals, FiniteSets

CONSTANTS
    Lookups,  \* concurrent calls of resolve_location
    MaxBuilds \* bound: resolvers built, the first one included

ASSUME ResolverConstants == "free" \notin Lookups /\ MaxBuilds \in Nat

VARIABLES
    inner,      \* the resolver in use, numbered by when it was built
    built,      \* resolvers built so far
    generation, \* RefreshState.generation
    activity,   \* RefreshState.last_activity_at: "none", "recent" or "old"
    holder,     \* who holds refresh_lock, or "free"
    broken,     \* resolvers whose pooled connections have gone stale
    look,       \* lookup -> [pc, gen, seen, target]
    wasted      \* history: an error refresh replaced a resolver its lookup had not used

resolverVars == <<inner, built, generation, activity, holder, broken, look, wasted>>

At(l, pcs) == look[l].pc \in pcs
Goto(l, pc) == [look EXCEPT ![l].pc = pc]
Ended == {"ok", "err"}

-----------------------------------------------------------------------------
(* The lookup begins; it asks for the lock when the resolver has been idle. *)
Begin(l) ==
    /\ At(l, {"new"})
    /\ look' = Goto(l, IF activity = "old" THEN "idleLock" ELSE "readGen")
    /\ UNCHANGED <<inner, built, generation, activity, holder, broken, wasted>>

(* The second check, under the lock. *)
IdleLocked(l) ==
    /\ At(l, {"idleLock"}) /\ holder = "free"
    /\ IF activity = "old"
       THEN holder' = l /\ look' = Goto(l, "idleBuild")
       ELSE UNCHANGED holder /\ look' = Goto(l, "readGen")
    /\ UNCHANGED <<inner, built, generation, activity, broken, wasted>>

(* The factory's answer: the fresh resolver is put in place first. *)
Build(l) ==
    /\ At(l, {"idleBuild", "errBuild"}) /\ built < MaxBuilds
    /\ wasted' = (wasted \/ (At(l, {"errBuild"}) /\ look[l].seen # inner))
    /\ built' = built + 1 /\ inner' = built + 1
    /\ look' = [look EXCEPT ![l].pc = IF @ = "idleBuild" THEN "idleBump" ELSE "errBump",
                            ![l].target = built + 1]
    /\ UNCHANGED <<generation, activity, holder, broken>>

(* The factory fails: an idle lookup goes on with the old resolver, a failed one
   returns its error. *)
BuildFails(l) ==
    /\ At(l, {"idleBuild", "errBuild"})
    /\ holder' = "free"
    /\ look' = Goto(l, IF At(l, {"idleBuild"}) THEN "readGen" ELSE "err")
    /\ UNCHANGED <<inner, built, generation, activity, broken, wasted>>

(* Then the generation is counted up; only the idle refresh is an activity. *)
Bump(l) ==
    /\ At(l, {"idleBump", "errBump"})
    /\ generation' = generation + 1
    /\ IF At(l, {"idleBump"})
       THEN activity' = "recent" /\ holder' = "free" /\ look' = Goto(l, "readGen")
       ELSE UNCHANGED <<activity, holder>> /\ look' = Goto(l, "retry")
    /\ UNCHANGED <<inner, built, broken, wasted>>

(* The generation is read before the resolver it is compared for. *)
ReadGeneration(l) ==
    /\ At(l, {"readGen"})
    /\ look' = [look EXCEPT ![l].pc = "readInner", ![l].gen = generation]
    /\ UNCHANGED <<inner, built, generation, activity, holder, broken, wasted>>

ReadInner(l) ==
    /\ At(l, {"readInner"})
    /\ look' = [look EXCEPT ![l].pc = "query", ![l].seen = inner]
    /\ UNCHANGED <<inner, built, generation, activity, holder, broken, wasted>>

(* The inner resolver's answer: addresses, an error that a refresh may cure
   (always, when the resolver is stale), or another error. *)
Answer(l, answer) ==
    /\ At(l, {"query"})
    /\ look[l].seen \in broken => answer = "stale"
    /\ activity' = IF answer = "ok" THEN "recent" ELSE activity
    /\ look' = Goto(l, IF answer = "stale" THEN "errLock" ELSE answer)
    /\ UNCHANGED <<inner, built, generation, holder, broken, wasted>>

(* A bug: whoever fails rebuilds. *)
ReplacedNever(l) == FALSE

(* Somebody has replaced the resolver since this lookup read the generation. *)
Replaced(l) == generation # look[l].gen

(* After the error, under the lock: use what another lookup built, or build. *)
ErrLocked(l) ==
    /\ At(l, {"errLock"}) /\ holder = "free"
    /\ holder' = l
    /\ look' = IF Replaced(l) THEN [look EXCEPT ![l].pc = "retry", ![l].target = inner]
               ELSE Goto(l, "errBuild")
    /\ UNCHANGED <<inner, built, generation, activity, broken, wasted>>

(* The retry, made under the lock. *)
Retry(l, answer) ==
    /\ At(l, {"retry"})
    /\ look[l].target \in broken => answer = "err"
    /\ activity' = IF answer = "ok" THEN "recent" ELSE activity
    /\ holder' = "free"
    /\ look' = Goto(l, answer)
    /\ UNCHANGED <<inner, built, generation, broken, wasted>>

(* Time passes; a resolver's connections go stale. *)
Age == /\ activity = "recent" /\ activity' = "old"
       /\ UNCHANGED <<inner, built, generation, holder, broken, look, wasted>>

Break == /\ inner \notin broken /\ broken' = broken \cup {inner}
         /\ UNCHANGED <<inner, built, generation, activity, holder, look, wasted>>

ResolverInit ==
    /\ inner = 1 /\ built = 1 /\ generation = 0 /\ activity = "none" /\ holder = "free"
    /\ broken = {} /\ wasted = FALSE
    /\ look = [l \in Lookups |-> [pc |-> "new", gen |-> 0, seen |-> 0, target |-> 0]]

ResolverNext ==
    \/ \E l \in Lookups :
         \/ Begin(l) \/ IdleLocked(l) \/ Build(l) \/ BuildFails(l) \/ Bump(l)
         \/ ReadGeneration(l) \/ ReadInner(l) \/ ErrLocked(l)
         \/ \E a \in {"ok", "stale", "err"} : Answer(l, a)
         \/ \E a \in Ended : Retry(l, a)
    \/ Age \/ Break

ResolverSpec == ResolverInit /\ [][ResolverNext]_resolverVars

-----------------------------------------------------------------------------
(* Lookups that fail together cost one rebuild: an error refresh replaces the
   resolver its own lookup saw fail, never one that another lookup has just
   built.  A lookup never retries on an older resolver than it began with.  When
   nobody refreshes, the generation counts the resolvers put in place, so a
   lookup that compares generations compares resolvers. *)
ResolverSafe ==
    /\ ~wasted
    /\ \A l \in Lookups : At(l, {"retry"}) => look[l].target >= look[l].seen
    /\ holder = "free" => generation = inner - 1 /\ inner = built
=============================================================================
