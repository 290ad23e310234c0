------------------------------ MODULE MuxProofs ------------------------------
(***************************************************************************)
(* What the multiplexers promise the logical streams: BudgetSafe and       *)
(* NoPayloadLost of SmuxBudget for any sessions, streams, limits and       *)
(* payload lengths, StreamPromise of SmuxSession and AnySafe of AnyTls for *)
(* any number of streams and any capacities.                               *)
(*                                                                         *)
(* The budgets are sums over all streams, readers and refunds.  That a sum *)
(* changes by what one of its terms changes is a lemma of FoldTheorems; a  *)
(* step of a reader or of a refund is then a balance of a few numbers.     *)
(***************************************************************************)
EXTENDS SmuxBudget, SmuxSession, AnyTls, FoldTheorems

-----------------------------------------------------------------------------
(* SmuxBudget.  Besides the accounts the invariant says where a reader can be
   with a charged payload, where the walks can be, and for every reader that was
   refused since it registered that its budget is still full, or that a refund
   has passed it and is on its way to the wake-up. *)

Readers == [pc : ReaderPc, s : MuxStreams, n : Nat, at : 1..3, blocked : Budgets,
            waiting : BOOLEAN, notified : BOOLEAN, charged : BOOLEAN]
Jobs == [kind : {"none", "refund", "evict", "rollback"}, s : MuxStreams, n : Nat, at : 0..3]

(* A payload is charged from the end of the charge to its enqueueing or its
   drop, and a reader parks only with its RefundWait enabled. *)
ReaderShape(q) ==
    /\ q.charged => q.pc \in {"lookup", "enqueue", "full"}
    /\ q.pc \in {"enqueue", "full"} => q.charged
    /\ q.pc = "parked" => q.waiting

(* Where the three walks can be: a roll-back starts above the budget that
   refused, an eviction above the leaf, a refund at the leaf. *)
JobShape(j) ==
    /\ j.kind = "rollback" => j.at \in 1..2
    /\ j.kind = "evict" => j.at \in 0..2

BudgetTypes ==
    /\ used \in [Budgets -> Nat]
    /\ evicted \subseteq MuxStreams /\ listed \subseteq MuxStreams /\ rxClosed \subseteq MuxStreams
    /\ rxQueue \in [MuxStreams -> Seq(Nat)]
    /\ \A s \in MuxStreams : Len(rxQueue[s]) <= QueueFrames
    /\ evictions \in [MuxSessions -> SUBSET MuxStreams]
    /\ \A r \in MuxSessions : \A s \in evictions[r] : SessionOf[s] = r
    /\ reader \in [MuxSessions -> Readers] /\ \A r \in MuxSessions : ReaderShape(reader[r])
    /\ job \in [Actors -> Jobs] /\ \A a \in Actors : JobShape(job[a])

(* The walk of a has given back what b held, and will wake who waits for b. *)
Passed(a, b) ==
    /\ job[a].kind \in {"refund", "evict"}
    /\ \E l \in 1..3 : b = Chain(job[a].s)[l] /\ job[a].at < l

(* A reader that was refused by the budget it waits for, since it registered:
   that budget is still full, or its refund is on its way to the wake-up. *)
Heard(r) ==
    /\ reader[r].pc = "parked"
         \/ (/\ reader[r].pc = "refused" /\ reader[r].waiting
             /\ Chain(reader[r].s)[reader[r].at] = reader[r].blocked)
    /\ ~reader[r].notified /\ r \notin rolledBack
    => \/ ~Fits(reader[r].blocked, reader[r].n) /\ reader[r].blocked \notin evicted
       \/ \E a \in Actors : Passed(a, reader[r].blocked)
       \/ reader[r].pc = "refused" /\ reader[r].s \in evicted

BudgetIInv == BudgetTypes /\ ChargesAccounted /\ \A r \in MuxSessions : Heard(r)

(* BudgetSpec without its fairness. *)
BudgetSafetySpec == BudgetInit /\ [][BudgetNext]_budgetVars

LEMMA Levels ==
    ASSUME NEW s \in MuxStreams
    PROVE  /\ Chain(s)[1] = Listener /\ Chain(s)[2] = SessionOf[s] /\ Chain(s)[3] = s
           /\ SessionOf[s] \in MuxSessions
           /\ Listener \in Budgets /\ SessionOf[s] \in Budgets /\ s \in Budgets
           /\ Listener # s /\ Listener # SessionOf[s] /\ SessionOf[s] # s
           /\ Range(Chain(s)) = {Listener, SessionOf[s], s}
<1>1. Chain(s)[1] = Listener /\ Chain(s)[2] = SessionOf[s] /\ Chain(s)[3] = s
  BY DEF Chain
<1>2. SessionOf[s] \in MuxSessions
  BY BudgetConstants
<1>3. /\ Listener \in Budgets /\ SessionOf[s] \in Budgets /\ s \in Budgets
      /\ Listener # s /\ Listener # SessionOf[s] /\ SessionOf[s] # s
  BY <1>2, BudgetConstants DEF Budgets, Actors
<1>4. DOMAIN Chain(s) = 1..3
  BY DEF Chain
<1>5. Range(Chain(s)) = {Listener, SessionOf[s], s}
  <2>1. \A k : k \in 1..3 <=> k = 1 \/ k = 2 \/ k = 3
    OBVIOUS
  <2> QED
    BY <1>1, <1>4, <2>1 DEF Range
<1> QED
  BY <1>1, <1>2, <1>3, <1>5

LEMMA FiniteParties ==
    /\ IsFiniteSet(MuxSessions) /\ IsFiniteSet(MuxStreams) /\ IsFiniteSet(Actors)
    /\ MuxSessions \subseteq Budgets /\ MuxStreams \subseteq Budgets /\ Listener \in Budgets
    /\ MuxSessions \subseteq Actors /\ MuxStreams \subseteq Actors
    /\ Listener \notin MuxSessions /\ Listener \notin MuxStreams
    /\ MuxSessions \cap MuxStreams = {}
BY BudgetConstants, FS_Union DEF Actors, Budgets

(* What one reader and one walk add to a sum. *)
LEMMA Numbers ==
    ASSUME NEW q \in Readers, NEW j \in Jobs, NEW s, NEW l
    PROVE  /\ ChargeAt(q, s, l) \in Nat /\ WalkAt(j, s, l) \in Nat
           /\ InHand(q, s) \in Nat /\ Returning(j, s) \in Nat
BY DEF Readers, Jobs, ChargeAt, WalkAt, InHand, Returning

(* A step that changes one reader r and one walk a. *)
OneParty(r, a) ==
    /\ \A q \in MuxSessions \ {r} : \A s \in MuxStreams :
          /\ \A l \in 1..2 : ChargeAt(reader'[q], s, l) = ChargeAt(reader[q], s, l)
          /\ InHand(reader'[q], s) = InHand(reader[q], s)
    /\ \A b \in Actors \ {a} : job'[b] = job[b]

LEMMA PassingChanges ==
    ASSUME BudgetTypes, BudgetTypes', NEW r \in MuxSessions, NEW a \in Actors, OneParty(r, a),
           NEW s \in MuxStreams, NEW l \in 1..2
    PROVE  /\ Passing(s, l) \in Nat /\ Passing(s, l)' \in Nat
           /\ Passing(s, l)' + ChargeAt(reader[r], s, l) + WalkAt(job[a], s, l)
                = Passing(s, l) + ChargeAt(reader'[r], s, l) + WalkAt(job'[a], s, l)
           /\ ChargeAt(reader[r], s, l) + WalkAt(job[a], s, l) <= Passing(s, l)
<1> DEFINE f == [q \in MuxSessions |-> ChargeAt(reader[q], s, l)]
           g == [q \in MuxSessions |-> ChargeAt(reader'[q], s, l)]
           h == [b \in Actors |-> WalkAt(job[b], s, l)]
           k == [b \in Actors |-> WalkAt(job'[b], s, l)]
<1>1. f \in [MuxSessions -> Nat] /\ g \in [MuxSessions -> Nat]
  BY Numbers DEF BudgetTypes
<1>2. h \in [Actors -> Nat] /\ k \in [Actors -> Nat]
  BY Numbers DEF BudgetTypes
<1>3. \A q \in MuxSessions \ {r} : g[q] = f[q]
  BY DEF OneParty
<1>4. \A b \in Actors \ {a} : k[b] = h[b]
  BY DEF OneParty
<1>5. /\ f[r] = ChargeAt(reader[r], s, l) /\ g[r] = ChargeAt(reader'[r], s, l)
      /\ h[a] = WalkAt(job[a], s, l) /\ k[a] = WalkAt(job'[a], s, l)
  OBVIOUS
<1>6. Passing(s, l) = SumFunction(f) + SumFunction(h)
  BY DEF Passing
<1>7. Passing(s, l)' = SumFunction(g) + SumFunction(k)
  BY DEF Passing
<1> HIDE DEF f, g, h, k
<1>8. /\ SumFunction(f) \in Nat /\ SumFunction(g) \in Nat
      /\ SumFunction(g) + f[r] = SumFunction(f) + g[r] /\ f[r] <= SumFunction(f)
  BY <1>1, <1>3, SumChanges, FiniteParties
<1>9. /\ SumFunction(h) \in Nat /\ SumFunction(k) \in Nat
      /\ SumFunction(k) + h[a] = SumFunction(h) + k[a] /\ h[a] <= SumFunction(h)
  BY <1>2, <1>4, SumChanges, FiniteParties
<1>10. f[r] \in Nat /\ g[r] \in Nat /\ h[a] \in Nat /\ k[a] \in Nat
  BY <1>1, <1>2
<1> QED
  BY <1>5, <1>6, <1>7, <1>8, <1>9, <1>10

LEMMA HeldChanges ==
    ASSUME BudgetTypes, BudgetTypes', NEW r \in MuxSessions, NEW a \in Actors, OneParty(r, a),
           NEW s \in MuxStreams
    PROVE  /\ Held(s) \in Nat /\ Held(s)' \in Nat
           /\ SumFunction(rxQueue[s]) \in Nat /\ SumFunction(rxQueue'[s]) \in Nat
           /\ Held(s)' + SumFunction(rxQueue[s]) + InHand(reader[r], s) + Returning(job[a], s)
                = Held(s) + SumFunction(rxQueue'[s]) + InHand(reader'[r], s)
                          + Returning(job'[a], s)
           /\ Returning(job[a], s) <= Held(s)
<1> DEFINE f == [q \in MuxSessions |-> InHand(reader[q], s)]
           g == [q \in MuxSessions |-> InHand(reader'[q], s)]
           h == [b \in Actors |-> Returning(job[b], s)]
           k == [b \in Actors |-> Returning(job'[b], s)]
<1>1. f \in [MuxSessions -> Nat] /\ g \in [MuxSessions -> Nat]
  BY Numbers DEF BudgetTypes
<1>2. h \in [Actors -> Nat] /\ k \in [Actors -> Nat]
  BY Numbers DEF BudgetTypes
<1>3. \A q \in MuxSessions \ {r} : g[q] = f[q]
  BY DEF OneParty
<1>4. \A b \in Actors \ {a} : k[b] = h[b]
  BY DEF OneParty
<1>5. /\ f[r] = InHand(reader[r], s) /\ g[r] = InHand(reader'[r], s)
      /\ h[a] = Returning(job[a], s) /\ k[a] = Returning(job'[a], s)
  OBVIOUS
<1>6. Held(s) = SumFunction(rxQueue[s]) + SumFunction(f) + SumFunction(h)
  BY DEF Held
<1>7. Held(s)' = SumFunction(rxQueue'[s]) + SumFunction(g) + SumFunction(k)
  BY DEF Held
<1> HIDE DEF f, g, h, k
<1>8. /\ SumFunction(f) \in Nat /\ SumFunction(g) \in Nat
      /\ SumFunction(g) + f[r] = SumFunction(f) + g[r] /\ f[r] <= SumFunction(f)
  BY <1>1, <1>3, SumChanges, FiniteParties
<1>9. /\ SumFunction(h) \in Nat /\ SumFunction(k) \in Nat
      /\ SumFunction(k) + h[a] = SumFunction(h) + k[a] /\ h[a] <= SumFunction(h)
  BY <1>2, <1>4, SumChanges, FiniteParties
<1>10. f[r] \in Nat /\ g[r] \in Nat /\ h[a] \in Nat /\ k[a] \in Nat
  BY <1>1, <1>2
<1>11. SumFunction(rxQueue[s]) \in Nat /\ SumFunction(rxQueue'[s]) \in Nat
  <2>1. rxQueue[s] \in Seq(Nat) /\ rxQueue'[s] \in Seq(Nat)
    BY DEF BudgetTypes
  <2> QED
    BY <2>1, SumOfQueue
<1> QED
  BY <1>5, <1>6, <1>7, <1>8, <1>9, <1>10, <1>11

(* All that a step touches belongs to the stream s0. *)
OneStream(r, a, s0) ==
    /\ \A s \in MuxStreams \ {s0} :
          /\ \A l \in 1..2 : /\ ChargeAt(reader'[r], s, l) = ChargeAt(reader[r], s, l)
                             /\ WalkAt(job'[a], s, l) = WalkAt(job[a], s, l)
          /\ InHand(reader'[r], s) = InHand(reader[r], s)
          /\ Returning(job'[a], s) = Returning(job[a], s)
          /\ rxQueue'[s] = rxQueue[s] /\ used'[s] = used[s]
          /\ s \in evicted' <=> s \in evicted
    /\ \A q \in MuxSessions \ {SessionOf[s0]} : used'[q] = used[q]

(* The three counters of a stream move with what is below them and in transit. *)
Balanced(r, a, s) ==
    /\ used'[Listener] + used[SessionOf[s]] + ChargeAt(reader[r], s, 1) + WalkAt(job[a], s, 1)
         = used[Listener] + used'[SessionOf[s]] + ChargeAt(reader'[r], s, 1) + WalkAt(job'[a], s, 1)
    /\ used'[SessionOf[s]] + used[s] + ChargeAt(reader[r], s, 2) + WalkAt(job[a], s, 2)
         = used[SessionOf[s]] + used'[s] + ChargeAt(reader'[r], s, 2) + WalkAt(job'[a], s, 2)
    /\ s \in evicted' => used'[s] = 0
    /\ s \notin evicted' =>
         /\ s \notin evicted
         /\ used'[s] + SumFunction(rxQueue[s]) + InHand(reader[r], s) + Returning(job[a], s)
              = used[s] + SumFunction(rxQueue'[s]) + InHand(reader'[r], s)
                        + Returning(job'[a], s)

LEMMA Transfer ==
    ASSUME NEW u \in Nat, NEW v \in Nat, NEW x \in Nat, NEW y \in Nat, NEW p \in Nat,
           NEW q \in Nat, NEW c \in Nat, NEW d \in Nat, NEW w \in Nat, NEW z \in Nat,
           v + x + c + w = u + y + d + z, q + c + w = p + d + z
    PROVE  v + x + p = u + y + q
OBVIOUS

LEMMA Settle ==
    ASSUME NEW u \in Nat, NEW v \in Nat, NEW x \in Nat, NEW y \in Nat, NEW p \in Nat,
           NEW q \in Nat, NEW F \in Nat, NEW G \in Nat,
           v + x + p = u + y + q, G + (x + p) = F + (y + q), u = F
    PROVE  v = G
OBVIOUS

LEMMA Balance ==
    ASSUME BudgetTypes, BudgetTypes', ChargesAccounted,
           NEW r \in MuxSessions, NEW a \in Actors, NEW s0 \in MuxStreams,
           OneParty(r, a), OneStream(r, a, s0), Balanced(r, a, s0)
    PROVE  ChargesAccounted'
<1>1. \A s \in MuxStreams : used'[s] = IF s \in evicted' THEN 0 ELSE Held(s)'
  <2> TAKE s \in MuxStreams
  <2>1. used[s] = IF s \in evicted THEN 0 ELSE Held(s)
    BY DEF ChargesAccounted
  <2>2. used[s] \in Nat /\ used'[s] \in Nat
    BY FiniteParties DEF BudgetTypes
  <2>3. /\ Held(s) \in Nat /\ Held(s)' \in Nat
        /\ SumFunction(rxQueue[s]) \in Nat /\ SumFunction(rxQueue'[s]) \in Nat
        /\ Held(s)' + SumFunction(rxQueue[s]) + InHand(reader[r], s) + Returning(job[a], s)
             = Held(s) + SumFunction(rxQueue'[s]) + InHand(reader'[r], s)
                       + Returning(job'[a], s)
    BY HeldChanges
  <2>4. /\ InHand(reader[r], s) \in Nat /\ InHand(reader'[r], s) \in Nat
        /\ Returning(job[a], s) \in Nat /\ Returning(job'[a], s) \in Nat
    BY Numbers DEF BudgetTypes
  <2>5. CASE s = s0
    BY <2>1, <2>2, <2>3, <2>4, <2>5 DEF Balanced
  <2>6. CASE s # s0
    <3>1. /\ InHand(reader'[r], s) = InHand(reader[r], s)
          /\ Returning(job'[a], s) = Returning(job[a], s)
          /\ rxQueue'[s] = rxQueue[s] /\ used'[s] = used[s]
          /\ s \in evicted' <=> s \in evicted
      BY <2>6 DEF OneStream
    <3>2. Held(s)' = Held(s)
      BY <3>1, <2>3, <2>4
    <3> QED
      BY <3>1, <3>2, <2>1
  <2> QED
    BY <2>5, <2>6
<1>2. ASSUME NEW s \in MuxStreams, NEW l \in 1..2
      PROVE  /\ Passing(s, l) \in Nat /\ Passing(s, l)' \in Nat
             /\ s # s0 => Passing(s, l)' = Passing(s, l)
             /\ ChargeAt(reader[r], s, l) \in Nat /\ WalkAt(job[a], s, l) \in Nat
             /\ ChargeAt(reader'[r], s, l) \in Nat /\ WalkAt(job'[a], s, l) \in Nat
             /\ Passing(s, l)' + ChargeAt(reader[r], s, l) + WalkAt(job[a], s, l)
                  = Passing(s, l) + ChargeAt(reader'[r], s, l) + WalkAt(job'[a], s, l)
  <2>1. /\ Passing(s, l) \in Nat /\ Passing(s, l)' \in Nat
        /\ Passing(s, l)' + ChargeAt(reader[r], s, l) + WalkAt(job[a], s, l)
             = Passing(s, l) + ChargeAt(reader'[r], s, l) + WalkAt(job'[a], s, l)
    BY PassingChanges
  <2>2. /\ ChargeAt(reader[r], s, l) \in Nat /\ WalkAt(job[a], s, l) \in Nat
        /\ ChargeAt(reader'[r], s, l) \in Nat /\ WalkAt(job'[a], s, l) \in Nat
    BY Numbers DEF BudgetTypes
  <2>3. s # s0 => /\ ChargeAt(reader'[r], s, l) = ChargeAt(reader[r], s, l)
                  /\ WalkAt(job'[a], s, l) = WalkAt(job[a], s, l)
    BY DEF OneStream
  <2> QED
    BY <2>1, <2>2, <2>3
<1>3. /\ used \in [Budgets -> Nat] /\ used' \in [Budgets -> Nat]
      /\ \A b \in Budgets : used[b] \in Nat /\ used'[b] \in Nat
  BY DEF BudgetTypes
<1>4. /\ SessionOf[s0] \in MuxSessions
      /\ used[SessionOf[s0]] \in Nat /\ used'[SessionOf[s0]] \in Nat
      /\ used[s0] \in Nat /\ used'[s0] \in Nat /\ used[Listener] \in Nat /\ used'[Listener] \in Nat
  BY <1>3, Levels
<1>5. ASSUME NEW q \in MuxSessions PROVE used'[q] = SumFunction(OfSession(q)')
  <2> DEFINE f == OfSession(q)
             g == OfSession(q)'
  <2>1. /\ f = [s \in MuxStreams |-> IF SessionOf[s] = q THEN used[s] + Passing(s, 2) ELSE 0]
        /\ g = [s \in MuxStreams |-> IF SessionOf[s] = q THEN used'[s] + Passing(s, 2)' ELSE 0]
    BY DEF OfSession
  <2>2. ASSUME NEW s \in MuxStreams
        PROVE  /\ used[s] + Passing(s, 2) \in Nat /\ used'[s] + Passing(s, 2)' \in Nat
               /\ s # s0 => used'[s] + Passing(s, 2)' = used[s] + Passing(s, 2)
    <3>1. used[s] \in Nat /\ used'[s] \in Nat
      BY <1>3, FiniteParties
    <3>2. s # s0 => used'[s] = used[s]
      BY DEF OneStream
    <3> QED
      BY <3>1, <3>2, <1>2
  <2>3. f \in [MuxStreams -> Nat] /\ g \in [MuxStreams -> Nat]
    BY <2>1, <2>2
  <2>4. \A s \in MuxStreams \ {s0} : g[s] = f[s]
    BY <2>1, <2>2
  <2>5. used[q] = SumFunction(f)
    BY DEF ChargesAccounted
  <2>6. /\ f[s0] = IF SessionOf[s0] = q THEN used[s0] + Passing(s0, 2) ELSE 0
        /\ g[s0] = IF SessionOf[s0] = q THEN used'[s0] + Passing(s0, 2)' ELSE 0
    BY <2>1
  <2> HIDE DEF f, g
  <2>7. /\ SumFunction(f) \in Nat /\ SumFunction(g) \in Nat
        /\ SumFunction(g) + f[s0] = SumFunction(f) + g[s0]
    BY <2>3, <2>4, SumChanges, FiniteParties
  <2>8. used'[q] = SumFunction(g)
    <3>1. CASE SessionOf[s0] = q
      <4>1. used'[q] + used[s0] + ChargeAt(reader[r], s0, 2) + WalkAt(job[a], s0, 2)
              = used[q] + used'[s0] + ChargeAt(reader'[r], s0, 2) + WalkAt(job'[a], s0, 2)
        BY <3>1 DEF Balanced
      <4>2. /\ Passing(s0, 2) \in Nat /\ Passing(s0, 2)' \in Nat
            /\ ChargeAt(reader[r], s0, 2) \in Nat /\ WalkAt(job[a], s0, 2) \in Nat
            /\ ChargeAt(reader'[r], s0, 2) \in Nat /\ WalkAt(job'[a], s0, 2) \in Nat
            /\ Passing(s0, 2)' + ChargeAt(reader[r], s0, 2) + WalkAt(job[a], s0, 2)
                 = Passing(s0, 2) + ChargeAt(reader'[r], s0, 2) + WalkAt(job'[a], s0, 2)
        BY <1>2
      <4>3. f[s0] = used[s0] + Passing(s0, 2) /\ g[s0] = used'[s0] + Passing(s0, 2)'
        BY <3>1, <2>6
      <4>4. used[q] \in Nat /\ used'[q] \in Nat
        BY <3>1, <1>4
      <4> QED
        <5>1. used'[q] + used[s0] + Passing(s0, 2) = used[q] + used'[s0] + Passing(s0, 2)'
          BY <4>1, <4>2, <4>4, <1>4, Transfer
        <5>2. SumFunction(g) + (used[s0] + Passing(s0, 2))
                = SumFunction(f) + (used'[s0] + Passing(s0, 2)')
          BY <4>3, <2>7
        <5>3. used[s0] \in Nat /\ used'[s0] \in Nat
          BY <1>4
        <5> QED
          BY ONLY <5>1, <5>2, <5>3, <4>2, <4>4, <2>5, <2>7, Settle
    <3>2. CASE SessionOf[s0] # q
      <4>1. used'[q] = used[q]
        BY <3>2 DEF OneStream
      <4> QED
        BY <4>1, <3>2, <2>5, <2>6, <2>7
    <3> QED
      BY <3>1, <3>2
  <2> QED
    BY <2>8 DEF g
<1>6. used'[Listener] = SumFunction([q \in MuxSessions |-> used'[q]])
                          + SumFunction([s \in MuxStreams |-> Passing(s, 1)'])
  <2>0. PICK q0 \in MuxSessions : q0 = SessionOf[s0]
    BY <1>4
  <2> DEFINE f == [q \in MuxSessions |-> used[q]]
             g == [q \in MuxSessions |-> used'[q]]
             h == [s \in MuxStreams |-> Passing(s, 1)]
             k == [s \in MuxStreams |-> Passing(s, 1)']
  <2>1. f \in [MuxSessions -> Nat] /\ g \in [MuxSessions -> Nat]
    BY <1>3, FiniteParties
  <2>2. h \in [MuxStreams -> Nat] /\ k \in [MuxStreams -> Nat]
    BY <1>2
  <2>3. \A q \in MuxSessions \ {q0} : g[q] = f[q]
    BY <2>0 DEF OneStream
  <2>4. \A s \in MuxStreams \ {s0} : k[s] = h[s]
    BY <1>2
  <2>5. used[Listener] = SumFunction(f) + SumFunction(h)
    BY DEF ChargesAccounted
  <2>6. /\ f[q0] = used[q0] /\ g[q0] = used'[q0]
        /\ h[s0] = Passing(s0, 1) /\ k[s0] = Passing(s0, 1)'
    OBVIOUS
  <2>7. used'[Listener] + used[q0] + ChargeAt(reader[r], s0, 1) + WalkAt(job[a], s0, 1)
          = used[Listener] + used'[q0] + ChargeAt(reader'[r], s0, 1) + WalkAt(job'[a], s0, 1)
    BY <2>0 DEF Balanced
  <2>8. q0 \in MuxSessions /\ used[q0] \in Nat /\ used'[q0] \in Nat
    BY <2>0, <1>4
  <2> HIDE DEF f, g, h, k
  <2>9. /\ SumFunction(f) \in Nat /\ SumFunction(g) \in Nat
        /\ SumFunction(g) + f[q0] = SumFunction(f) + g[q0]
    BY <2>1, <2>3, <2>8, SumChanges, FiniteParties
  <2>10. /\ SumFunction(h) \in Nat /\ SumFunction(k) \in Nat
         /\ SumFunction(k) + h[s0] = SumFunction(h) + k[s0]
    BY <2>2, <2>4, SumChanges, FiniteParties
  <2>11. used'[Listener] = SumFunction(g) + SumFunction(k)
    <3>1. /\ Passing(s0, 1) \in Nat /\ Passing(s0, 1)' \in Nat
          /\ ChargeAt(reader[r], s0, 1) \in Nat /\ WalkAt(job[a], s0, 1) \in Nat
          /\ ChargeAt(reader'[r], s0, 1) \in Nat /\ WalkAt(job'[a], s0, 1) \in Nat
          /\ Passing(s0, 1)' + ChargeAt(reader[r], s0, 1) + WalkAt(job[a], s0, 1)
               = Passing(s0, 1) + ChargeAt(reader'[r], s0, 1) + WalkAt(job'[a], s0, 1)
      BY <1>2
    <3> QED
      <4>1. used'[Listener] + used[q0] + Passing(s0, 1)
              = used[Listener] + used'[q0] + Passing(s0, 1)'
        <5>1. used[Listener] \in Nat /\ used'[Listener] \in Nat
          BY <1>4
        <5>2. PICK c \in Nat, d \in Nat, w \in Nat, z \in Nat :
                 /\ c = ChargeAt(reader[r], s0, 1) /\ d = ChargeAt(reader'[r], s0, 1)
                 /\ w = WalkAt(job[a], s0, 1) /\ z = WalkAt(job'[a], s0, 1)
          BY <3>1
        <5>3. used'[Listener] + used[q0] + c + w = used[Listener] + used'[q0] + d + z
          BY <5>2, <2>7
        <5>4. Passing(s0, 1)' + c + w = Passing(s0, 1) + d + z
          BY <5>2, <3>1
        <5>5. PICK u \in Nat, v \in Nat, x \in Nat, y \in Nat :
                 u = used[Listener] /\ v = used'[Listener] /\ x = used[q0] /\ y = used'[q0]
          BY <5>1, <2>8
        <5>6. v + x + c + w = u + y + d + z
          BY <5>3, <5>5
        <5>7. Passing(s0, 1) \in Nat /\ Passing(s0, 1)' \in Nat
          BY <3>1
        <5>8. v + x + Passing(s0, 1) = u + y + Passing(s0, 1)'
          BY <5>4, <5>6, <5>7
        <5> QED
          BY <5>8, <5>5
      <4> QED
        BY <4>1, <3>1, <2>5, <2>6, <2>8, <2>9, <2>10, <1>4
  <2> QED
    BY <2>11 DEF g, k
<1> QED
  BY <1>1, <1>5, <1>6 DEF ChargesAccounted

LEMMA Resting ==
    /\ Idle \in Readers /\ ReaderShape(Idle) /\ Idle.pc = "idle" /\ Idle.at = 1 /\ ~Idle.charged
    /\ ~Idle.waiting /\ ~Idle.notified
    /\ NoJob \in Jobs /\ JobShape(NoJob) /\ NoJob.kind = "none"
<1>1. (CHOOSE s \in MuxStreams : TRUE) \in MuxStreams
  BY BudgetConstants
<1>2. Listener \in Budgets
  BY FiniteParties
<1> QED
  BY <1>1, <1>2 DEF Idle, NoJob, Readers, Jobs, ReaderShape, JobShape, ReaderPc

LEMMA Turned ==
    ASSUME NEW q \in Readers, NEW pc \in ReaderPc, NEW w \in BOOLEAN
    PROVE  [q EXCEPT !.pc = pc, !.at = 1, !.waiting = w, !.notified = FALSE] \in Readers
<1>1. \A p \in Readers, k \in 1..3 : [p EXCEPT !.pc = pc, !.at = k] \in Readers
  <2>1. \A p \in Readers : [p EXCEPT !.pc = pc] \in Readers
    BY DEF Readers
  <2>2. \A p \in Readers, k \in 1..3 : [p EXCEPT !.at = k] \in Readers
    BY DEF Readers
  <2> QED
    BY <2>1, <2>2
<1>2. \A p \in Readers : [p EXCEPT !.waiting = w, !.notified = FALSE] \in Readers
  BY DEF Readers
<1>3. 1 \in 1..3
  OBVIOUS
<1> QED
  BY <1>1, <1>2, <1>3

LEMMA OneReader ==
    ASSUME BudgetTypes, NEW r \in MuxSessions, NEW R \in Readers, ReaderShape(R),
           reader' = [reader EXCEPT ![r] = R]
    PROVE  /\ reader' \in [MuxSessions -> Readers]
           /\ \A q \in MuxSessions : ReaderShape(reader'[q])
           /\ reader'[r] = R /\ \A q \in MuxSessions \ {r} : reader'[q] = reader[q]
BY DEF BudgetTypes

LEMMA OneJob ==
    ASSUME BudgetTypes, NEW a \in Actors, NEW J \in Jobs, JobShape(J),
           job' = [job EXCEPT ![a] = J]
    PROVE  /\ job' \in [Actors -> Jobs]
           /\ \A b \in Actors : JobShape(job'[b])
           /\ job'[a] = J /\ \A b \in Actors \ {a} : job'[b] = job[b]
BY DEF BudgetTypes

(* Two states of a reader that account for the same bytes: neither has charged a
   part of the chain, and what the payload's charge holds is the same. *)
SameLoad(p, q) ==
    /\ p.pc # "charge" \/ p.at = 1
    /\ q.pc # "charge" \/ q.at = 1
    /\ (~p.charged /\ ~q.charged) \/ (p.charged /\ q.charged /\ p.s = q.s /\ p.n = q.n)

(* A step that moves no bytes. *)
LEMMA Quiet ==
    ASSUME BudgetTypes, BudgetTypes', ChargesAccounted,
           NEW r \in MuxSessions, NEW a \in Actors, OneParty(r, a),
           used' = used, rxQueue' = rxQueue, evicted' = evicted,
           \A s \in MuxStreams :
              /\ \A l \in 1..2 : /\ ChargeAt(reader'[r], s, l) = ChargeAt(reader[r], s, l)
                                 /\ WalkAt(job'[a], s, l) = WalkAt(job[a], s, l)
              /\ InHand(reader'[r], s) = InHand(reader[r], s)
              /\ Returning(job'[a], s) = Returning(job[a], s)
    PROVE  ChargesAccounted'
<1>1. PICK s0 \in MuxStreams : TRUE
  BY BudgetConstants
<1>2. OneStream(r, a, s0)
  BY DEF OneStream
<1>3. Balanced(r, a, s0)
  <2>1. s0 \in evicted => used[s0] = 0
    BY DEF ChargesAccounted
  <2> QED
    BY <2>1 DEF Balanced
<1> QED
  BY <1>2, <1>3, Balance

LEMMA ReaderMoves ==
    ASSUME BudgetTypes, BudgetTypes', ChargesAccounted, NEW r \in MuxSessions,
           used' = used, rxQueue' = rxQueue, evicted' = evicted, job' = job,
           \A q \in MuxSessions \ {r} : reader'[q] = reader[q],
           SameLoad(reader[r], reader'[r])
    PROVE  ChargesAccounted'
<1>1. r \in Actors /\ OneParty(r, r)
  BY FiniteParties DEF OneParty
<1>2. \A s \in MuxStreams :
        /\ \A l \in 1..2 : ChargeAt(reader'[r], s, l) = ChargeAt(reader[r], s, l)
        /\ InHand(reader'[r], s) = InHand(reader[r], s)
  BY DEF SameLoad, ChargeAt, InHand
<1> QED
  BY <1>1, <1>2, Quiet

(* A step that takes no budget's room away from who waits for it: budgets do not
   shrink, walks go on, and readers stay or are not waiting. *)
LEMMA HeardKeeps ==
    ASSUME BudgetTypes, \A r \in MuxSessions : Heard(r),
           evicted' = evicted, \A b \in Budgets : used[b] <= used'[b], used' \in [Budgets -> Nat],
           \A a \in Actors : job[a].kind # "none" => job'[a] = job[a],
           \A r \in MuxSessions :
              Heard(r)' \/ (reader'[r] = reader[r] /\ (r \in rolledBack => r \in rolledBack'))
    PROVE  \A r \in MuxSessions : Heard(r)'
<1> SUFFICES ASSUME NEW r \in MuxSessions,
                    reader'[r] = reader[r], r \in rolledBack => r \in rolledBack'
             PROVE  Heard(r)'
  OBVIOUS
<1>1. ASSUME NEW a \in Actors, NEW b, Passed(a, b) PROVE Passed(a, b)'
  <2>1. job'[a] = job[a]
    BY <1>1 DEF Passed
  <2> QED
    BY <1>1, <2>1 DEF Passed, Chain
<1>2. ASSUME NEW b \in Budgets, NEW n \in Nat, ~Fits(b, n), b \notin evicted
      PROVE  ~Fits(b, n)'
  BY <1>2, BudgetConstants DEF Fits, BudgetTypes
<1>3. reader[r].blocked \in Budgets /\ reader[r].n \in Nat
  BY DEF BudgetTypes, Readers
<1>4. Heard(r)
  OBVIOUS
<1> QED
  BY <1>1, <1>2, <1>3, <1>4 DEF Heard, Chain

LEMMA ReadFrameKeeps ==
    ASSUME BudgetIInv, NEW r \in MuxSessions, NEW s \in MuxStreams, NEW n \in FrameLengths,
           ReadFrame(r, s, n)
    PROVE  BudgetIInv'
<1> USE DEF BudgetIInv
<1> DEFINE R == [Idle EXCEPT !.pc = "charge", !.s = s, !.n = n]
<1>1. R \in Readers /\ ReaderShape(R) /\ R.at = 1 /\ ~R.charged /\ R.pc = "charge"
  BY Resting, BudgetConstants DEF Readers, ReaderShape, ReaderPc, Idle
<1>2. reader' = [reader EXCEPT ![r] = R]
  BY DEF ReadFrame
<1> HIDE DEF R
<1>3. /\ reader' \in [MuxSessions -> Readers] /\ \A q \in MuxSessions : ReaderShape(reader'[q])
      /\ reader'[r] = R /\ \A q \in MuxSessions \ {r} : reader'[q] = reader[q]
  BY <1>1, <1>2, OneReader
<1>4. BudgetTypes'
  BY <1>3 DEF BudgetTypes, ReadFrame
<1>5. reader[r].pc = "idle" /\ ~reader[r].charged
  BY DEF ReadFrame, BudgetTypes, ReaderShape
<1>6. ChargesAccounted'
  <2>1. SameLoad(reader[r], reader'[r])
    BY <1>1, <1>3, <1>5 DEF SameLoad
  <2> QED
    BY <2>1, <1>3, <1>4, ReaderMoves DEF ReadFrame
<1>7. \A q \in MuxSessions : Heard(q)'
  <2>1. Heard(r)'
    BY <1>1, <1>3 DEF Heard
  <2> QED
    BY <2>1, <1>3, <1>4, HeardKeeps DEF ReadFrame, BudgetTypes
<1> QED
  BY <1>4, <1>6, <1>7

(* A charged payload is dropped by its reader: its bytes go into a refund. *)
LEMMA AbandonKeeps ==
    ASSUME BudgetIInv, NEW r \in MuxSessions, Free(r), Abandon(r), reader[r].pc # "charge",
           used' = used, evicted' = evicted, rxQueue' = rxQueue, rxClosed' = rxClosed,
           evictions' = evictions, listed' \subseteq listed,
           \A q \in MuxSessions \ {r} : q \in rolledBack => q \in rolledBack'
    PROVE  BudgetIInv'
<1> USE DEF BudgetIInv
<1>1. /\ reader' \in [MuxSessions -> Readers] /\ \A q \in MuxSessions : ReaderShape(reader'[q])
      /\ reader'[r] = Idle /\ \A q \in MuxSessions \ {r} : reader'[q] = reader[q]
  BY Resting, OneReader DEF Abandon
<1>2. r \in Actors /\ reader[r] \in Readers /\ job[r].kind = "none"
  BY FiniteParties DEF BudgetTypes, Free
<1>3. Heard(r)'
  BY <1>1, Resting DEF Heard
<1>4. CASE ~reader[r].charged
  <2>1. job' = job
    BY <1>4 DEF Abandon
  <2>2. BudgetTypes'
    BY <1>1, <2>1 DEF BudgetTypes
  <2>3. SameLoad(reader[r], reader'[r])
    BY <1>1, <1>4, Resting DEF SameLoad
  <2>4. ChargesAccounted'
    BY <1>1, <2>1, <2>2, <2>3, ReaderMoves
  <2>5. \A q \in MuxSessions : Heard(q)'
    BY <1>1, <1>3, <2>1, <2>2, HeardKeeps DEF BudgetTypes
  <2> QED
    BY <2>2, <2>4, <2>5
<1>5. CASE reader[r].charged
  <2> DEFINE s0 == reader[r].s
             J == Job("refund", s0, reader[r].n, 3)
  <2>1. job' = [job EXCEPT ![r] = J]
    BY <1>5 DEF Abandon
  <2>2. /\ J \in Jobs /\ JobShape(J) /\ J.kind = "refund" /\ J.s = s0 /\ J.n = reader[r].n
        /\ J.at = 3 /\ s0 \in MuxStreams /\ reader[r].n \in Nat
    BY <1>2 DEF Readers, Jobs, JobShape, Job
  <2> HIDE DEF J
  <2>3. /\ job' \in [Actors -> Jobs] /\ \A b \in Actors : JobShape(job'[b])
        /\ job'[r] = J /\ \A b \in Actors \ {r} : job'[b] = job[b]
    BY <1>2, <2>1, <2>2, OneJob
  <2>4. BudgetTypes'
    BY <1>1, <2>3 DEF BudgetTypes
  <2>5. OneParty(r, r)
    BY <1>1, <2>3 DEF OneParty
  <2>6. /\ \A s \in MuxStreams : \A l \in 1..2 :
             /\ ChargeAt(reader[r], s, l) = 0 /\ ChargeAt(reader'[r], s, l) = 0
             /\ WalkAt(job[r], s, l) = 0 /\ WalkAt(job'[r], s, l) = 0
    BY <1>1, <1>2, <2>2, <2>3, Resting DEF ChargeAt, WalkAt
  <2>7. /\ \A s \in MuxStreams \ {s0} :
             /\ InHand(reader[r], s) = 0 /\ InHand(reader'[r], s) = 0
             /\ Returning(job[r], s) = 0 /\ Returning(job'[r], s) = 0
        /\ InHand(reader[r], s0) = reader[r].n /\ InHand(reader'[r], s0) = 0
        /\ Returning(job[r], s0) = 0 /\ Returning(job'[r], s0) = reader[r].n
    BY <1>1, <1>2, <1>5, <2>2, <2>3, Resting DEF InHand, Returning
  <2>8. OneStream(r, r, s0)
    BY <2>6, <2>7 DEF OneStream
  <2>9. Balanced(r, r, s0)
    <3>1. s0 \in evicted => used[s0] = 0
      BY <2>2 DEF ChargesAccounted
    <3>2. SumFunction(rxQueue[s0]) \in Nat /\ used[s0] \in Nat
      BY <2>2, SumOfQueue, FiniteParties DEF BudgetTypes
    <3> QED
      BY <2>2, <2>6, <2>7, <3>1, <3>2 DEF Balanced
  <2>10. ChargesAccounted'
    BY <1>2, <2>2, <2>4, <2>5, <2>8, <2>9, Balance
  <2>11. \A q \in MuxSessions : Heard(q)'
    <3>1. \A a \in Actors : job[a].kind # "none" => job'[a] = job[a]
      BY <1>2, <2>3
    <3> QED
      BY <1>1, <1>3, <2>4, <3>1, HeardKeeps DEF BudgetTypes
  <2> QED
    BY <2>4, <2>10, <2>11
<1> QED
  BY <1>4, <1>5

(* A reader moves on without bytes, and is not left asleep. *)
LEMMA MoveKeeps ==
    ASSUME BudgetIInv, NEW r \in MuxSessions, NEW R \in Readers, ReaderShape(R),
           reader' = [reader EXCEPT ![r] = R], SameLoad(reader[r], R),
           used' = used, evicted' = evicted, rxQueue' = rxQueue, job' = job,
           rxClosed' \subseteq MuxStreams, listed' \subseteq listed,
           \A q \in MuxSessions : evictions'[q] \subseteq evictions[q],
           evictions' \in [MuxSessions -> SUBSET MuxStreams],
           \A q \in MuxSessions \ {r} : q \in rolledBack => q \in rolledBack',
           Heard(r)'
    PROVE  BudgetIInv'
<1> USE DEF BudgetIInv
<1>1. /\ reader' \in [MuxSessions -> Readers] /\ \A q \in MuxSessions : ReaderShape(reader'[q])
      /\ reader'[r] = R /\ \A q \in MuxSessions \ {r} : reader'[q] = reader[q]
  BY OneReader
<1>2. BudgetTypes'
  BY <1>1 DEF BudgetTypes
<1>3. ChargesAccounted'
  BY <1>1, <1>2, ReaderMoves
<1>4. \A q \in MuxSessions : Heard(q)'
  BY <1>1, <1>2, HeardKeeps DEF BudgetTypes
<1> QED
  BY <1>2, <1>3, <1>4

LEMMA LookupKeeps ==
    ASSUME BudgetIInv, NEW r \in MuxSessions, Lookup(r)
    PROVE  BudgetIInv'
<1> DEFINE R == [reader[r] EXCEPT !.pc = IF reader[r].charged THEN "enqueue" ELSE "charge",
                                  !.at = 1, !.waiting = FALSE, !.notified = FALSE]
<1>1. CASE Abandon(r)
  BY <1>1, AbandonKeeps DEF Lookup
<1>2. CASE reader' = [reader EXCEPT ![r] = R] /\ job' = job
  <2>1. reader[r] \in Readers /\ reader[r].pc = "lookup"
    BY DEF BudgetIInv, BudgetTypes, Lookup
  <2>2. /\ R \in Readers /\ ReaderShape(R) /\ R.at = 1 /\ R.charged = reader[r].charged
        /\ R.s = reader[r].s /\ R.n = reader[r].n /\ R.pc \in {"enqueue", "charge"}
    <3>1. R \in Readers
      BY <2>1, Turned DEF ReaderPc
    <3>2. /\ R.pc = (IF reader[r].charged THEN "enqueue" ELSE "charge") /\ R.at = 1
          /\ R.charged = reader[r].charged /\ R.s = reader[r].s /\ R.n = reader[r].n
      BY <2>1 DEF Readers
    <3> HIDE DEF R
    <3>3. ReaderShape(R)
      BY <3>2 DEF ReaderShape
    <3> QED
      BY <3>1, <3>2, <3>3
  <2> HIDE DEF R
  <2>3. SameLoad(reader[r], R)
    BY <2>1, <2>2 DEF SameLoad
  <2>4. reader'[r] = R
    BY <1>2 DEF BudgetIInv, BudgetTypes
  <2>5. Heard(r)'
    BY <2>2, <2>4 DEF Heard
  <2> QED
    BY <1>2, <2>2, <2>3, <2>5, MoveKeeps DEF Lookup, BudgetIInv, BudgetTypes
<1> QED
  BY <1>1, <1>2 DEF Lookup

LEMMA RegisterKeeps ==
    ASSUME BudgetIInv, NEW r \in MuxSessions, Register(r)
    PROVE  BudgetIInv'
<1> DEFINE R == [reader[r] EXCEPT !.pc = "charge", !.at = 1, !.waiting = TRUE, !.notified = FALSE]
<1>1. reader[r] \in Readers /\ reader[r].pc = "register" /\ ~reader[r].charged
  BY DEF BudgetIInv, BudgetTypes, ReaderShape, Register
<1>2. /\ R \in Readers /\ ReaderShape(R) /\ R.at = 1 /\ ~R.charged /\ R.pc = "charge"
  <2>1. R \in Readers
    BY <1>1, Turned DEF ReaderPc
  <2>2. R.pc = "charge" /\ R.at = 1 /\ R.charged = reader[r].charged
    BY <1>1 DEF Readers
  <2> HIDE DEF R
  <2>3. ReaderShape(R)
    BY <1>1, <2>2 DEF ReaderShape
  <2> QED
    BY <1>1, <2>1, <2>2, <2>3
<1>3. reader' = [reader EXCEPT ![r] = R]
  BY DEF Register
<1> HIDE DEF R
<1>4. SameLoad(reader[r], R)
  BY <1>1, <1>2 DEF SameLoad
<1>5. reader'[r] = R
  BY <1>3 DEF BudgetIInv, BudgetTypes
<1>6. Heard(r)'
  BY <1>2, <1>5 DEF Heard
<1> QED
  BY <1>2, <1>3, <1>4, <1>6, MoveKeeps DEF Register, BudgetIInv, BudgetTypes

LEMMA WakeKeeps ==
    ASSUME BudgetIInv, NEW r \in MuxSessions, Wake(r)
    PROVE  BudgetIInv'
<1> DEFINE R == [reader[r] EXCEPT !.pc = "lookup"]
<1>1. reader[r] \in Readers /\ reader[r].pc = "parked" /\ ~reader[r].charged
  BY DEF BudgetIInv, BudgetTypes, ReaderShape, Wake
<1>2. R \in Readers /\ ReaderShape(R) /\ ~R.charged /\ R.pc = "lookup"
  BY <1>1 DEF Readers, ReaderShape, ReaderPc
<1>3. reader' = [reader EXCEPT ![r] = R]
  BY DEF Wake
<1> HIDE DEF R
<1>4. SameLoad(reader[r], R)
  BY <1>1, <1>2 DEF SameLoad
<1>5. reader'[r] = R
  BY <1>3 DEF BudgetIInv, BudgetTypes
<1>6. Heard(r)'
  BY <1>2, <1>5 DEF Heard
<1> QED
  BY <1>2, <1>3, <1>4, <1>6, MoveKeeps DEF Wake, BudgetIInv, BudgetTypes

LEMMA ServiceEvictionKeeps ==
    ASSUME BudgetIInv, NEW r \in MuxSessions, ServiceEviction(r)
    PROVE  BudgetIInv'
<1> DEFINE R == [reader[r] EXCEPT !.pc = IF @ = "idle" THEN @ ELSE "lookup"]
<1>1. /\ reader[r] \in Readers /\ ReaderShape(reader[r])
      /\ reader[r].pc \in {"idle", "parked", "full"}
  BY DEF BudgetIInv, BudgetTypes, ServiceEviction
<1>2. /\ R \in Readers /\ ReaderShape(R) /\ R.charged = reader[r].charged
      /\ R.s = reader[r].s /\ R.n = reader[r].n /\ R.pc \in {"idle", "lookup"}
  BY <1>1 DEF Readers, ReaderShape, ReaderPc
<1>3. reader' = [reader EXCEPT ![r] = R]
  BY DEF ServiceEviction
<1> HIDE DEF R
<1>4. SameLoad(reader[r], R)
  BY <1>1, <1>2 DEF SameLoad
<1>5. reader'[r] = R
  BY <1>3 DEF BudgetIInv, BudgetTypes
<1>6. Heard(r)'
  BY <1>2, <1>5 DEF Heard
<1>7. /\ listed' \subseteq listed
      /\ evictions' \in [MuxSessions -> SUBSET MuxStreams]
      /\ \A q \in MuxSessions : evictions'[q] \subseteq evictions[q]
  BY DEF ServiceEviction, BudgetIInv, BudgetTypes
<1> QED
  BY <1>2, <1>3, <1>4, <1>6, <1>7, MoveKeeps DEF ServiceEviction, BudgetIInv, BudgetTypes

LEMMA DropStreamKeeps ==
    ASSUME BudgetIInv, NEW s \in MuxStreams, DropStream(s)
    PROVE  BudgetIInv'
<1>1. PICK r \in MuxSessions : TRUE
  BY Levels
<1>2. /\ reader[r] \in Readers /\ ReaderShape(reader[r]) /\ reader' = [reader EXCEPT ![r] = reader[r]]
  BY DEF BudgetIInv, BudgetTypes, DropStream
<1>3. BudgetTypes'
  BY DEF BudgetIInv, BudgetTypes, DropStream
<1>4. ChargesAccounted'
  <2>1. r \in Actors /\ OneParty(r, r)
    BY FiniteParties DEF OneParty, DropStream
  <2> QED
    BY <2>1, <1>3, Quiet DEF BudgetIInv, DropStream
<1>5. \A q \in MuxSessions : Heard(q)'
  BY <1>3, HeardKeeps DEF BudgetIInv, BudgetTypes, DropStream
<1> QED
  BY <1>3, <1>4, <1>5 DEF BudgetIInv

LEMMA RefusedKeeps ==
    ASSUME BudgetIInv, NEW r \in MuxSessions, Refused(r)
    PROVE  BudgetIInv'
<1> DEFINE q == reader[r]
           R == IF q.s \in evicted THEN Idle
                ELSE IF ~q.waiting THEN [q EXCEPT !.pc = "register"]
                ELSE IF Chain(q.s)[q.at] # q.blocked THEN [q EXCEPT !.pc = "lookup"]
                ELSE [q EXCEPT !.pc = "parked"]
<1>1. q \in Readers /\ q.pc = "refused" /\ ~q.charged /\ Heard(r)
  BY DEF BudgetIInv, BudgetTypes, ReaderShape, Refused
<1>2. R \in Readers /\ ReaderShape(R) /\ ~R.charged /\ R.pc # "charge"
  <2>1. CASE q.s \in evicted
    BY <2>1, Resting
  <2>2. CASE q.s \notin evicted
    BY <2>2, <1>1 DEF Readers, ReaderShape, ReaderPc
  <2> QED
    BY <2>1, <2>2
<1>3. reader' = [reader EXCEPT ![r] = R]
  BY DEF Refused
<1>4. reader'[r] = R
  BY <1>3 DEF BudgetIInv, BudgetTypes
<1>5. Heard(r)'
  <2>1. CASE R.pc # "parked"
    <3>1. R.pc # "refused"
      BY <1>1, Resting
    <3> HIDE DEF R
    <3> QED
      BY <2>1, <3>1, <1>4 DEF Heard
  <2>2. CASE R.pc = "parked"
    <3>1. /\ q.s \notin evicted /\ q.waiting /\ Chain(q.s)[q.at] = q.blocked
          /\ R = [q EXCEPT !.pc = "parked"]
      BY <1>1, <2>2, Resting
    <3>2. /\ R.notified = q.notified /\ R.blocked = q.blocked /\ R.n = q.n
      BY <3>1, <1>1 DEF Readers
    <3>3. /\ rolledBack' = rolledBack /\ evicted' = evicted /\ used' = used /\ job' = job
      BY DEF Refused
    <3>4. ~q.notified /\ r \notin rolledBack =>
            \/ ~Fits(q.blocked, q.n) /\ q.blocked \notin evicted
            \/ \E a \in Actors : Passed(a, q.blocked)
      BY <3>1, <1>1 DEF Heard
    <3> HIDE DEF R
    <3> QED
      BY <2>2, <3>2, <3>3, <3>4, <1>4 DEF Heard, Fits, Passed, Chain
  <2> QED
    BY <2>1, <2>2
<1> HIDE DEF R
<1>6. SameLoad(reader[r], R)
  BY <1>1, <1>2 DEF SameLoad
<1> QED
  BY <1>2, <1>3, <1>5, <1>6, MoveKeeps DEF Refused, BudgetIInv, BudgetTypes

LEMMA QueueGraceExpiresKeeps ==
    ASSUME BudgetIInv, NEW r \in MuxSessions, QueueGraceExpires(r)
    PROVE  BudgetIInv'
BY AbandonKeeps DEF QueueGraceExpires

LEMMA EnqueueKeeps ==
    ASSUME BudgetIInv, NEW r \in MuxSessions, Enqueue(r)
    PROVE  BudgetIInv'
<1> DEFINE s0 == reader[r].s
           n == reader[r].n
<1>1. /\ reader[r] \in Readers /\ reader[r].pc \in {"enqueue", "full"} /\ reader[r].charged
      /\ s0 \in MuxStreams /\ n \in Nat
  BY DEF BudgetIInv, BudgetTypes, ReaderShape, Enqueue, Readers
<1>2. CASE Abandon(r) /\ rxQueue' = rxQueue
  BY <1>1, <1>2, AbandonKeeps DEF Enqueue
<1>3. CASE /\ Len(rxQueue[s0]) < QueueFrames
           /\ rxQueue' = [rxQueue EXCEPT ![s0] = Append(@, n)]
           /\ reader' = [reader EXCEPT ![r] = Idle]
           /\ job' = job
  <2>1. /\ reader' \in [MuxSessions -> Readers] /\ \A q \in MuxSessions : ReaderShape(reader'[q])
        /\ reader'[r] = Idle /\ \A q \in MuxSessions \ {r} : reader'[q] = reader[q]
    BY <1>3, Resting, OneReader DEF BudgetIInv
  <2>2. /\ rxQueue[s0] \in Seq(Nat) /\ rxQueue'[s0] = Append(rxQueue[s0], n)
        /\ \A s \in MuxStreams \ {s0} : rxQueue'[s] = rxQueue[s]
    BY <1>1, <1>3 DEF BudgetIInv, BudgetTypes
  <2>3. rxQueue' \in [MuxStreams -> Seq(Nat)] /\ \A s \in MuxStreams : Len(rxQueue'[s]) <= QueueFrames
    <3>1. Append(rxQueue[s0], n) \in Seq(Nat) /\ Len(Append(rxQueue[s0], n)) = Len(rxQueue[s0]) + 1
          /\ Len(rxQueue[s0]) \in Nat
      BY <1>1, <2>2, AppendProperties, LenProperties
    <3>2. Len(rxQueue'[s0]) <= QueueFrames
      BY <1>3, <2>2, <3>1, BudgetConstants
    <3>3. \A s \in MuxStreams \ {s0} : Len(rxQueue'[s]) <= QueueFrames
      BY <2>2 DEF BudgetIInv, BudgetTypes
    <3>4. rxQueue' \in [MuxStreams -> Seq(Nat)]
      BY <1>1, <1>3, <3>1 DEF BudgetIInv, BudgetTypes
    <3> QED
      BY <3>2, <3>3, <3>4
  <2>4. BudgetTypes'
    BY <1>3, <2>1, <2>3 DEF BudgetIInv, BudgetTypes, Enqueue
  <2>5. r \in Actors /\ OneParty(r, r)
    BY <1>3, <2>1, FiniteParties DEF OneParty
  <2>6. \A s \in MuxStreams : \A l \in 1..2 :
           ChargeAt(reader[r], s, l) = 0 /\ ChargeAt(reader'[r], s, l) = 0
    BY <1>1, <2>1, Resting DEF ChargeAt
  <2>7. /\ \A s \in MuxStreams \ {s0} : InHand(reader[r], s) = 0 /\ InHand(reader'[r], s) = 0
        /\ InHand(reader[r], s0) = n /\ InHand(reader'[r], s0) = 0
    BY <1>1, <2>1, Resting DEF InHand
  <2>8. OneStream(r, r, s0)
    BY <1>3, <2>2, <2>6, <2>7 DEF OneStream, Enqueue
  <2>9. Balanced(r, r, s0)
    <3>1. s0 \in evicted => used[s0] = 0
      BY <1>1 DEF BudgetIInv, ChargesAccounted
    <3>2. /\ SumFunction(rxQueue[s0]) \in Nat /\ used[s0] \in Nat
          /\ SumFunction(rxQueue'[s0]) = SumFunction(rxQueue[s0]) + n
      <4>1. used[s0] \in Nat
        BY <1>1, FiniteParties DEF BudgetIInv, BudgetTypes
      <4> HIDE DEF s0, n
      <4> QED
        BY <1>1, <2>2, <4>1, SumOfQueue
    <3>3. Returning(job[r], s0) \in Nat
      BY <1>1, <2>5, Numbers DEF BudgetIInv, BudgetTypes
    <3>4. used' = used /\ evicted' = evicted
      BY DEF Enqueue
    <3> QED
      BY <1>1, <1>3, <2>6, <2>7, <3>1, <3>2, <3>3, <3>4 DEF Balanced
  <2>10. ChargesAccounted'
    BY <1>1, <2>4, <2>5, <2>8, <2>9, Balance DEF BudgetIInv
  <2>11. \A q \in MuxSessions : Heard(q)'
    <3>1. Heard(r)'
      BY <2>1, Resting DEF Heard
    <3> QED
      BY <1>3, <2>1, <2>4, <3>1, HeardKeeps DEF BudgetIInv, BudgetTypes, Enqueue
  <2> QED
    BY <2>4, <2>10, <2>11 DEF BudgetIInv
<1>4. CASE /\ reader' = [reader EXCEPT ![r].pc = "full"]
           /\ rxQueue' = rxQueue /\ job' = job
  <2> DEFINE R == [reader[r] EXCEPT !.pc = "full"]
  <2>1. /\ R \in Readers /\ ReaderShape(R) /\ R.charged /\ R.s = s0 /\ R.n = n /\ R.pc = "full"
    BY <1>1 DEF Readers, ReaderShape, ReaderPc
  <2>2. reader' = [reader EXCEPT ![r] = R]
    BY <1>4
  <2> HIDE DEF R
  <2>3. SameLoad(reader[r], R)
    BY <1>1, <2>1 DEF SameLoad
  <2>4. reader'[r] = R
    BY <2>2 DEF BudgetIInv, BudgetTypes
  <2>5. Heard(r)'
    BY <2>1, <2>4 DEF Heard
  <2> QED
    BY <1>4, <2>1, <2>2, <2>3, <2>5, MoveKeeps DEF Enqueue, BudgetIInv, BudgetTypes
<1> QED
  BY <1>2, <1>3, <1>4 DEF Enqueue

LEMMA ConsumeKeeps ==
    ASSUME BudgetIInv, NEW s0 \in MuxStreams, Consume(s0)
    PROVE  BudgetIInv'
<1> DEFINE n == Head(rxQueue[s0])
           J == Job("refund", s0, n, 3)
           r == SessionOf[s0]
<1>1. /\ rxQueue[s0] \in Seq(Nat) /\ rxQueue[s0] # <<>> /\ job[s0].kind = "none"
      /\ s0 \in Actors /\ r \in MuxSessions
  BY FiniteParties, Levels DEF BudgetIInv, BudgetTypes, Consume, Free
<1>2. /\ n \in Nat /\ Tail(rxQueue[s0]) \in Seq(Nat)
      /\ Len(Tail(rxQueue[s0])) = Len(rxQueue[s0]) - 1 /\ Len(rxQueue[s0]) \in Nat
  BY <1>1, HeadTailProperties, LenProperties
<1>3. /\ rxQueue'[s0] = Tail(rxQueue[s0]) /\ \A s \in MuxStreams \ {s0} : rxQueue'[s] = rxQueue[s]
      /\ rxQueue' \in [MuxStreams -> Seq(Nat)]
  BY <1>2 DEF BudgetIInv, BudgetTypes, Consume
<1>4. \A s \in MuxStreams : Len(rxQueue'[s]) <= QueueFrames
  <2>1. Len(rxQueue'[s0]) <= QueueFrames
    BY <1>2, <1>3, BudgetConstants DEF BudgetIInv, BudgetTypes
  <2>2. \A s \in MuxStreams \ {s0} : Len(rxQueue'[s]) <= QueueFrames
    BY <1>3 DEF BudgetIInv, BudgetTypes
  <2> QED
    BY <2>1, <2>2
<1>5. job' = [job EXCEPT ![s0] = J]
  BY DEF Consume
<1>6. /\ J \in Jobs /\ JobShape(J) /\ J.kind = "refund" /\ J.s = s0 /\ J.n = n /\ J.at = 3
  BY <1>2 DEF Jobs, JobShape, Job
<1> HIDE DEF J
<1>7. /\ job' \in [Actors -> Jobs] /\ \A b \in Actors : JobShape(job'[b])
      /\ job'[s0] = J /\ \A b \in Actors \ {s0} : job'[b] = job[b]
  BY <1>1, <1>5, <1>6, OneJob DEF BudgetIInv
<1>8. BudgetTypes'
  BY <1>3, <1>4, <1>7 DEF BudgetIInv, BudgetTypes, Consume
<1>9. OneParty(r, s0)
  BY <1>7 DEF OneParty, Consume
<1>10. \A s \in MuxStreams : \A l \in 1..2 : WalkAt(job[s0], s, l) = 0 /\ WalkAt(job'[s0], s, l) = 0
  BY <1>1, <1>6, <1>7 DEF WalkAt
<1>11. /\ \A s \in MuxStreams \ {s0} : Returning(job[s0], s) = 0 /\ Returning(job'[s0], s) = 0
       /\ Returning(job[s0], s0) = 0 /\ Returning(job'[s0], s0) = n
  BY <1>1, <1>6, <1>7 DEF Returning
<1>12. OneStream(r, s0, s0)
  BY <1>3, <1>10, <1>11 DEF OneStream, Consume
<1>13. Balanced(r, s0, s0)
  <2>1. s0 \in evicted => used[s0] = 0
    BY DEF BudgetIInv, ChargesAccounted
  <2>2. /\ SumFunction(rxQueue[s0]) = n + SumFunction(rxQueue'[s0])
        /\ SumFunction(rxQueue'[s0]) \in Nat /\ used[s0] \in Nat
    <3>1. used[s0] \in Nat
      BY FiniteParties DEF BudgetIInv, BudgetTypes
    <3> HIDE DEF n
    <3>2. SumFunction(rxQueue[s0]) = n + SumFunction(Tail(rxQueue[s0]))
      BY <1>1, SumOfQueue DEF n
    <3>3. SumFunction(Tail(rxQueue[s0])) \in Nat
      BY <1>2, SumOfQueue
    <3> QED
      BY <1>3, <3>1, <3>2, <3>3
  <2>3. InHand(reader[r], s0) \in Nat
    BY <1>1, Numbers DEF BudgetIInv, BudgetTypes
  <2>4. used' = used /\ evicted' = evicted /\ reader' = reader
    BY DEF Consume
  <2> HIDE DEF n, r
  <2> QED
    BY <1>2, <1>10, <1>11, <2>1, <2>2, <2>3, <2>4 DEF Balanced
<1>14. ChargesAccounted'
  BY <1>1, <1>8, <1>9, <1>12, <1>13, Balance DEF BudgetIInv
<1>15. \A q \in MuxSessions : Heard(q)'
  <2>1. \A a \in Actors : job[a].kind # "none" => job'[a] = job[a]
    BY <1>1, <1>7
  <2> QED
    BY <1>8, <2>1, HeardKeeps DEF BudgetIInv, BudgetTypes, Consume
<1> QED
  BY <1>8, <1>14, <1>15 DEF BudgetIInv

(* A charge that fits. *)
LEMMA ChargeFits ==
    ASSUME BudgetIInv, NEW r \in MuxSessions, ChargeOne(r),
           Fits(Chain(reader[r].s)[reader[r].at], reader[r].n)
    PROVE  BudgetIInv'
<1> DEFINE q == reader[r]
           s0 == q.s
           n == q.n
           b == Chain(q.s)[q.at]
           R == IF q.at < 3 THEN [q EXCEPT !.at = @ + 1]
                ELSE [q EXCEPT !.charged = TRUE, !.waiting = FALSE, !.notified = FALSE,
                               !.pc = "enqueue"]
<1>1. /\ q \in Readers /\ q.pc = "charge" /\ ~q.charged /\ s0 \in MuxStreams /\ n \in Nat
      /\ q.at \in 1..3 /\ r \in Actors
  BY FiniteParties DEF BudgetIInv, BudgetTypes, ReaderShape, ChargeOne, Readers
<1>2. /\ used' = [used EXCEPT ![b] = @ + n] /\ reader' = [reader EXCEPT ![r] = R] /\ job' = job
  BY DEF ChargeOne
<1>3. /\ b = IF q.at = 1 THEN Listener ELSE IF q.at = 2 THEN SessionOf[s0] ELSE s0
      /\ b \in Budgets
  BY <1>1, Levels
<1>4. /\ R.s = s0 /\ R.n = n
      /\ q.at < 3 => R.at = q.at + 1 /\ R.pc = "charge" /\ ~R.charged
      /\ q.at = 3 => R.pc = "enqueue" /\ R.charged
  BY <1>1 DEF Readers
<1>5. R \in Readers
  <2>1. ASSUME NEW k \in 1..3 PROVE [q EXCEPT !.at = k] \in Readers
    BY <1>1 DEF Readers
  <2>2. q.at < 3 => q.at + 1 \in 1..3
    BY <1>1
  <2>3. [q EXCEPT !.charged = TRUE, !.waiting = FALSE, !.notified = FALSE, !.pc = "enqueue"]
          \in Readers
    BY <1>1 DEF Readers, ReaderPc
  <2> QED
    BY <2>1, <2>2, <2>3
<1> HIDE DEF R
<1>6. ReaderShape(R)
  BY <1>1, <1>4 DEF ReaderShape
<1>7. /\ reader' \in [MuxSessions -> Readers] /\ \A p \in MuxSessions : ReaderShape(reader'[p])
      /\ reader'[r] = R /\ \A p \in MuxSessions \ {r} : reader'[p] = reader[p]
  BY <1>2, <1>5, <1>6, OneReader DEF BudgetIInv
<1>8. /\ used \in [Budgets -> Nat] /\ used' \in [Budgets -> Nat] /\ used'[b] = used[b] + n
      /\ \A c \in Budgets \ {b} : used'[c] = used[c]
      /\ \A c \in Budgets : used[c] \in Nat /\ used[c] <= used'[c]
  BY <1>1, <1>2, <1>3 DEF BudgetIInv, BudgetTypes
<1>9. BudgetTypes'
  BY <1>2, <1>7, <1>8 DEF BudgetIInv, BudgetTypes, ChargeOne
<1>10. OneParty(r, r)
  BY <1>2, <1>7 DEF OneParty
<1>11. \A s \in MuxStreams \ {s0} :
          /\ \A l \in 1..2 : ChargeAt(reader[r], s, l) = 0 /\ ChargeAt(reader'[r], s, l) = 0
          /\ InHand(reader[r], s) = 0 /\ InHand(reader'[r], s) = 0
  BY <1>4, <1>7 DEF ChargeAt, InHand
<1>12. /\ ChargeAt(reader[r], s0, 1) = IF q.at = 2 THEN n ELSE 0
       /\ ChargeAt(reader[r], s0, 2) = IF q.at = 3 THEN n ELSE 0
       /\ ChargeAt(reader'[r], s0, 1) = IF q.at = 1 THEN n ELSE 0
       /\ ChargeAt(reader'[r], s0, 2) = IF q.at = 2 THEN n ELSE 0
       /\ InHand(reader[r], s0) = 0 /\ InHand(reader'[r], s0) = IF q.at = 3 THEN n ELSE 0
  BY <1>1, <1>4, <1>7 DEF ChargeAt, InHand
<1>13. OneStream(r, r, s0)
  <2>1. \A s \in MuxStreams \ {s0} : used'[s] = used[s]
    BY <1>1, <1>3, <1>8, FiniteParties, Levels
  <2>2. \A p \in MuxSessions \ {SessionOf[s0]} : used'[p] = used[p]
    BY <1>1, <1>3, <1>8, FiniteParties, Levels
  <2>3. rxQueue' = rxQueue /\ evicted' = evicted
    BY DEF ChargeOne
  <2> QED
    BY <1>2, <1>11, <2>1, <2>2, <2>3 DEF OneStream
<1>14. Balanced(r, r, s0)
  <2>1. s0 \in evicted => used[s0] = 0
    BY <1>1 DEF BudgetIInv, ChargesAccounted
  <2>2. s0 \in evicted => q.at # 3
    BY <1>1, <1>3 DEF Fits
  <2>3. /\ SumFunction(rxQueue[s0]) \in Nat
        /\ Returning(job[r], s0) \in Nat /\ WalkAt(job[r], s0, 1) \in Nat /\ WalkAt(job[r], s0, 2) \in Nat
    BY <1>1, Numbers, SumOfQueue DEF BudgetIInv, BudgetTypes
  <2>4. rxQueue' = rxQueue /\ evicted' = evicted
    BY DEF ChargeOne
  <2>5. /\ used[Listener] \in Nat /\ used[SessionOf[s0]] \in Nat /\ used[s0] \in Nat
    BY <1>1, <1>8, Levels
  <2>6. CASE q.at = 1
    <3>1. /\ used'[Listener] = used[Listener] + n /\ used'[SessionOf[s0]] = used[SessionOf[s0]]
          /\ used'[s0] = used[s0]
      BY <1>1, <1>3, <1>8, <2>6, Levels
    <3> QED
      BY <1>1, <1>2, <1>12, <2>1, <2>3, <2>4, <2>5, <2>6, <3>1 DEF Balanced
  <2>7. CASE q.at = 2
    <3>1. /\ used'[Listener] = used[Listener] /\ used'[SessionOf[s0]] = used[SessionOf[s0]] + n
          /\ used'[s0] = used[s0]
      BY <1>1, <1>3, <1>8, <2>7, Levels
    <3> QED
      BY <1>1, <1>2, <1>12, <2>1, <2>3, <2>4, <2>5, <2>7, <3>1 DEF Balanced
  <2>8. CASE q.at = 3
    <3>1. /\ used'[Listener] = used[Listener] /\ used'[SessionOf[s0]] = used[SessionOf[s0]]
          /\ used'[s0] = used[s0] + n
      BY <1>1, <1>3, <1>8, <2>8, Levels
    <3> QED
      BY <1>1, <1>2, <1>12, <2>2, <2>3, <2>4, <2>5, <2>8, <3>1 DEF Balanced
  <2> QED
    BY <1>1, <2>6, <2>7, <2>8
<1>15. ChargesAccounted'
  BY <1>1, <1>9, <1>10, <1>13, <1>14, Balance DEF BudgetIInv
<1>16. \A p \in MuxSessions : Heard(p)'
  <2>1. Heard(r)'
    BY <1>1, <1>4, <1>7 DEF Heard
  <2> QED
    BY <1>2, <1>7, <1>8, <2>1, HeardKeeps DEF BudgetIInv, ChargeOne
<1> QED
  BY <1>9, <1>15, <1>16 DEF BudgetIInv

(* A charge that is refused. *)
LEMMA ChargeRefused ==
    ASSUME BudgetIInv, NEW r \in MuxSessions, ChargeOne(r),
           ~Fits(Chain(reader[r].s)[reader[r].at], reader[r].n)
    PROVE  BudgetIInv'
<1> DEFINE q == reader[r]
           s0 == q.s
           n == q.n
           b == Chain(q.s)[q.at]
           R == [q EXCEPT !.pc = "refused", !.at = q.at,
                          !.blocked = IF q.waiting THEN @ ELSE b]
           J == IF q.at = 1 THEN NoJob ELSE Job("rollback", s0, n, q.at - 1)
<1>1. /\ q \in Readers /\ q.pc = "charge" /\ ~q.charged /\ s0 \in MuxStreams /\ n \in Nat
      /\ q.at \in 1..3 /\ r \in Actors /\ job[r].kind = "none" /\ q.blocked \in Budgets
  BY FiniteParties DEF BudgetIInv, BudgetTypes, ReaderShape, ChargeOne, Readers, Free
<1>2. /\ job' = [job EXCEPT ![r] = J] /\ reader' = [reader EXCEPT ![r] = R]
      /\ used' = used /\ evicted' = evicted /\ rxQueue' = rxQueue /\ rolledBack' = rolledBack
  BY DEF ChargeOne
<1>3. /\ b = IF q.at = 1 THEN Listener ELSE IF q.at = 2 THEN SessionOf[s0] ELSE s0
      /\ b \in Budgets
  BY <1>1, Levels
<1>4. /\ R.s = s0 /\ R.n = n /\ R.at = q.at /\ R.pc = "refused" /\ ~R.charged
      /\ R.waiting = q.waiting /\ R.blocked = IF q.waiting THEN q.blocked ELSE b
  BY <1>1 DEF Readers
<1>5. R \in Readers
  <2>1. ASSUME NEW c \in Budgets, NEW k \in 1..3
        PROVE [q EXCEPT !.pc = "refused", !.at = k, !.blocked = c] \in Readers
    <3>1. [q EXCEPT !.pc = "refused"] \in Readers
      BY <1>1 DEF Readers, ReaderPc
    <3>2. \A p \in Readers : [p EXCEPT !.at = k, !.blocked = c] \in Readers
      BY DEF Readers
    <3> QED
      BY <3>1, <3>2
  <2> QED
    BY <2>1, <1>1, <1>3
<1>6. /\ J \in Jobs /\ JobShape(J)
      /\ q.at = 1 => J.kind = "none"
      /\ q.at # 1 => J.kind = "rollback" /\ J.s = s0 /\ J.n = n /\ J.at = q.at - 1
  <2>1. CASE q.at = 1
    BY <2>1, Resting
  <2>2. CASE q.at # 1
    BY <2>2, <1>1 DEF Jobs, JobShape, Job
  <2> QED
    BY <2>1, <2>2
<1> HIDE DEF R, J
<1>7. /\ reader' \in [MuxSessions -> Readers] /\ \A p \in MuxSessions : ReaderShape(reader'[p])
      /\ reader'[r] = R /\ \A p \in MuxSessions \ {r} : reader'[p] = reader[p]
  <2>1. ReaderShape(R)
    BY <1>4 DEF ReaderShape
  <2> QED
    BY <1>2, <1>5, <2>1, OneReader DEF BudgetIInv
<1>8. /\ job' \in [Actors -> Jobs] /\ \A a \in Actors : JobShape(job'[a])
      /\ job'[r] = J /\ \A a \in Actors \ {r} : job'[a] = job[a]
  BY <1>1, <1>2, <1>6, OneJob DEF BudgetIInv
<1>9. BudgetTypes'
  BY <1>2, <1>7, <1>8 DEF BudgetIInv, BudgetTypes, ChargeOne
<1>10. OneParty(r, r)
  BY <1>7, <1>8 DEF OneParty
<1>11. /\ \A s \in MuxStreams : /\ InHand(reader[r], s) = 0 /\ InHand(reader'[r], s) = 0
                                /\ Returning(job[r], s) = 0 /\ Returning(job'[r], s) = 0
       /\ \A s \in MuxStreams \ {s0} : \A l \in 1..2 :
             /\ ChargeAt(reader[r], s, l) = 0 /\ ChargeAt(reader'[r], s, l) = 0
             /\ WalkAt(job[r], s, l) = 0 /\ WalkAt(job'[r], s, l) = 0
  BY <1>1, <1>4, <1>6, <1>7, <1>8 DEF ChargeAt, InHand, WalkAt, Returning
<1>12. /\ ChargeAt(reader[r], s0, 1) = (IF q.at = 2 THEN n ELSE 0)
       /\ ChargeAt(reader[r], s0, 2) = (IF q.at = 3 THEN n ELSE 0)
       /\ ChargeAt(reader'[r], s0, 1) = 0 /\ ChargeAt(reader'[r], s0, 2) = 0
       /\ WalkAt(job[r], s0, 1) = 0 /\ WalkAt(job[r], s0, 2) = 0
       /\ WalkAt(job'[r], s0, 1) = (IF q.at = 2 THEN n ELSE 0)
       /\ WalkAt(job'[r], s0, 2) = (IF q.at = 3 THEN n ELSE 0)
  BY <1>1, <1>4, <1>6, <1>7, <1>8 DEF ChargeAt, WalkAt
<1>13. OneStream(r, r, s0)
  BY <1>2, <1>11 DEF OneStream
<1>14. Balanced(r, r, s0)
  <2>1. s0 \in evicted => used[s0] = 0
    BY <1>1 DEF BudgetIInv, ChargesAccounted
  <2>2. used[Listener] \in Nat /\ used[SessionOf[s0]] \in Nat /\ used[s0] \in Nat
    BY <1>1, Levels DEF BudgetIInv, BudgetTypes
  <2>3. \A s \in MuxStreams : InHand(reader[r], s) = InHand(reader'[r], s)
                              /\ Returning(job[r], s) = Returning(job'[r], s)
    BY <1>11
  <2> QED
    BY <1>1, <1>2, <1>12, <2>1, <2>2, <2>3 DEF Balanced
<1>15. ChargesAccounted'
  BY <1>1, <1>9, <1>10, <1>13, <1>14, Balance DEF BudgetIInv
<1>16. Heard(r)'
  <2> SUFFICES ASSUME R.waiting, Chain(R.s)[R.at] = R.blocked
               PROVE  \/ ~Fits(reader[r].blocked, reader[r].n)' /\ reader'[r].blocked \notin evicted'
                      \/ reader'[r].pc = "refused" /\ reader'[r].s \in evicted'
    BY <1>4, <1>7 DEF Heard, Chain
  <2>1. reader'[r].blocked = b /\ reader'[r].n = n /\ reader'[r].s = s0 /\ reader'[r].pc = "refused"
    BY <1>4, <1>7
  <2>2. b \in evicted => s0 \in evicted
    BY <1>1, <1>3, Levels, FiniteParties DEF BudgetIInv, BudgetTypes
  <2>3. ~(b \notin evicted /\ used[b] + n <= BudgetMax[b])
    BY DEF Fits
  <2> HIDE DEF b, n, s0
  <2> QED
    BY <1>2, <2>1, <2>2, <2>3 DEF Fits
<1>17. \A p \in MuxSessions : Heard(p)'
  <2>1. \A a \in Actors : job[a].kind # "none" => job'[a] = job[a]
    BY <1>1, <1>8
  <2> QED
    BY <1>2, <1>7, <1>9, <1>16, <2>1, HeardKeeps DEF BudgetIInv, BudgetTypes
<1> QED
  BY <1>9, <1>15, <1>17 DEF BudgetIInv

(* The walk of a has changed nothing that anyone waits for but b, which it passes. *)
LEMMA HeardPast ==
    ASSUME BudgetTypes, \A r \in MuxSessions : Heard(r), NEW a \in Actors, NEW b,
           \A r \in MuxSessions : Heard(r)' \/ reader'[r] = reader[r],
           rolledBack \subseteq rolledBack', evicted \subseteq evicted',
           \A c \in Budgets \ {b} : used'[c] = used[c] /\ (c \in evicted' <=> c \in evicted),
           \A c \in Actors \ {a} : job'[c] = job[c],
           \A c \in Budgets : Passed(a, c) => Passed(a, c)',
           \/ Passed(a, b)'
           \/ \A r \in MuxSessions : reader[r].waiting /\ reader[r].blocked = b => r \in rolledBack'
           \/ used' = used /\ evicted' = evicted
    PROVE  \A r \in MuxSessions : Heard(r)'
<1> SUFFICES ASSUME NEW r \in MuxSessions, reader'[r] = reader[r] PROVE Heard(r)'
  OBVIOUS
<1>1. Heard(r) /\ reader[r].blocked \in Budgets /\ (reader[r].pc = "parked" => reader[r].waiting)
  BY DEF BudgetTypes, Readers, ReaderShape
<1>2. \A c \in Actors : Passed(c, reader[r].blocked) => Passed(c, reader[r].blocked)'
  BY <1>1 DEF Passed, Chain
<1>3. /\ reader[r].blocked # b \/ (used' = used /\ evicted' = evicted)
      /\ ~Fits(reader[r].blocked, reader[r].n) /\ reader[r].blocked \notin evicted
      => ~Fits(reader[r].blocked, reader[r].n)' /\ reader[r].blocked \notin evicted'
  BY <1>1 DEF Fits
<1> QED
  BY <1>1, <1>2, <1>3 DEF Heard, Chain

LEMMA GraceExpiresKeeps ==
    ASSUME BudgetIInv, NEW r \in MuxSessions, GraceExpires(r)
    PROVE  BudgetIInv'
<1> DEFINE R == [reader[r] EXCEPT !.pc = "lookup"]
<1>1. /\ reader[r] \in Readers /\ reader[r].pc = "parked" /\ ~reader[r].charged
      /\ job[r].kind = "none" /\ r \in Actors /\ reader[r].s \in MuxStreams
  BY FiniteParties DEF BudgetIInv, BudgetTypes, ReaderShape, GraceExpires, Free, Readers
<1>2. R \in Readers /\ ReaderShape(R) /\ ~R.charged /\ R.pc = "lookup"
  BY <1>1 DEF Readers, ReaderShape, ReaderPc
<1>3. reader' = [reader EXCEPT ![r] = R]
  BY DEF GraceExpires
<1> HIDE DEF R
<1>4. /\ reader' \in [MuxSessions -> Readers] /\ \A q \in MuxSessions : ReaderShape(reader'[q])
      /\ reader'[r] = R /\ \A q \in MuxSessions \ {r} : reader'[q] = reader[q]
  BY <1>2, <1>3, OneReader DEF BudgetIInv
<1>5. \A s \in MuxStreams :
        /\ \A l \in 1..2 : ChargeAt(reader[r], s, l) = 0 /\ ChargeAt(reader'[r], s, l) = 0
        /\ InHand(reader[r], s) = 0 /\ InHand(reader'[r], s) = 0
  BY <1>1, <1>2, <1>4 DEF ChargeAt, InHand
<1>6. Heard(r)'
  BY <1>2, <1>4 DEF Heard
<1>7. PICK v \in MuxStreams :
        /\ evicted' = evicted \cup {v}
        /\ used' = [used EXCEPT ![v] = IF v \in evicted THEN @ ELSE 0]
        /\ job' = [job EXCEPT ![r] = IF v \in evicted THEN NoJob
                     ELSE Job("evict", v, used[v], IF used[v] > 0 THEN 2 ELSE 0)]
  <2>1. Victims(reader[r]) \subseteq MuxStreams
    BY <1>1 DEF Victims, Largest, Leaves
  <2> QED
    BY <2>1 DEF GraceExpires
<1> DEFINE J == IF v \in evicted THEN NoJob
                ELSE Job("evict", v, used[v], IF used[v] > 0 THEN 2 ELSE 0)
<1>8. used[v] \in Nat /\ v \in Budgets
  BY FiniteParties DEF BudgetIInv, BudgetTypes
<1>9. /\ J \in Jobs /\ JobShape(J)
      /\ v \in evicted => J.kind = "none"
      /\ v \notin evicted => /\ J.kind = "evict" /\ J.s = v /\ J.n = used[v]
                             /\ J.at = IF used[v] > 0 THEN 2 ELSE 0
  <2>1. CASE v \in evicted
    BY <2>1, Resting
  <2>2. CASE v \notin evicted
    BY <2>2, <1>8 DEF Jobs, JobShape, Job
  <2> QED
    BY <2>1, <2>2
<1>10. job' = [job EXCEPT ![r] = J]
  BY <1>7
<1> HIDE DEF J
<1>11. /\ job' \in [Actors -> Jobs] /\ \A a \in Actors : JobShape(job'[a])
       /\ job'[r] = J /\ \A a \in Actors \ {r} : job'[a] = job[a]
  BY <1>1, <1>9, <1>10, OneJob DEF BudgetIInv
<1>12. /\ used' \in [Budgets -> Nat] /\ used'[v] = (IF v \in evicted THEN used[v] ELSE 0)
       /\ \A c \in Budgets \ {v} : used'[c] = used[c]
  BY <1>7, <1>8 DEF BudgetIInv, BudgetTypes
<1>13. BudgetTypes'
  BY <1>4, <1>7, <1>11, <1>12 DEF BudgetIInv, BudgetTypes, GraceExpires
<1>14. OneParty(r, r)
  BY <1>4, <1>11 DEF OneParty
<1>15. /\ \A s \in MuxStreams : Returning(job[r], s) = 0 /\ Returning(job'[r], s) = 0
       /\ \A s \in MuxStreams : \A l \in 1..2 : WalkAt(job[r], s, l) = 0
       /\ \A s \in MuxStreams \ {v} : \A l \in 1..2 : WalkAt(job'[r], s, l) = 0
       /\ WalkAt(job'[r], v, 1) = 0
       /\ WalkAt(job'[r], v, 2) = IF v \in evicted THEN 0 ELSE used[v]
  BY <1>1, <1>8, <1>9, <1>11 DEF WalkAt, Returning
<1>16. OneStream(r, r, v)
  <2>1. \A s \in MuxStreams \ {v} : used'[s] = used[s] /\ (s \in evicted' <=> s \in evicted)
    BY <1>7, <1>12, FiniteParties
  <2>2. \A q \in MuxSessions \ {SessionOf[v]} : used'[q] = used[q]
    BY <1>12, FiniteParties
  <2> QED
    BY <1>5, <1>15, <2>1, <2>2 DEF OneStream, GraceExpires
<1>17. Balanced(r, r, v)
  <2>1. v \in evicted => used[v] = 0
    BY DEF BudgetIInv, ChargesAccounted
  <2>2. v \in evicted' /\ used'[v] = 0
    BY <1>7, <1>12, <2>1
  <2>3. /\ used'[Listener] = used[Listener] /\ used'[SessionOf[v]] = used[SessionOf[v]]
        /\ used[Listener] \in Nat /\ used[SessionOf[v]] \in Nat
    BY <1>12, Levels DEF BudgetIInv, BudgetTypes
  <2> QED
    BY <1>5, <1>8, <1>15, <2>1, <2>2, <2>3 DEF Balanced
<1>18. ChargesAccounted'
  BY <1>1, <1>13, <1>14, <1>16, <1>17, Balance DEF BudgetIInv
<1>19. \A q \in MuxSessions : Heard(q)'
  <2>1. \A c \in Budgets : Passed(r, c) => Passed(r, c)'
    BY <1>1 DEF Passed
  <2>2. \/ Passed(r, v)'
        \/ used' = used /\ evicted' = evicted
    <3>1. CASE v \in evicted
      BY <3>1, <1>7 DEF BudgetIInv, BudgetTypes
    <3>2. CASE v \notin evicted
      <4>1. /\ job'[r].kind = "evict" /\ job'[r].s = v /\ job'[r].at < 3
        BY <3>2, <1>8, <1>9, <1>11
      <4>2. v = Chain(v)[3]
        BY Levels
      <4> QED
        BY <4>1, <4>2 DEF Passed, Chain
    <3> QED
      BY <3>1, <3>2
  <2>3. \A c \in Budgets \ {v} : c \in evicted' <=> c \in evicted
    BY <1>7
  <2>4. rolledBack' = rolledBack /\ evicted \subseteq evicted'
    BY <1>7 DEF GraceExpires
  <2> QED
    BY <1>1, <1>4, <1>6, <1>11, <1>12, <2>1, <2>2, <2>3, <2>4, HeardPast DEF BudgetIInv
<1> QED
  BY <1>13, <1>18, <1>19 DEF BudgetIInv

(* What a walk is about to give back is there: the subtraction never saturates. *)
LEMMA Covered ==
    ASSUME BudgetTypes, BudgetTypes', ChargesAccounted, NEW r \in MuxSessions, NEW a \in Actors,
           OneParty(r, a), NEW s \in MuxStreams
    PROVE  /\ WalkAt(job[a], s, 1) <= used[Listener]
           /\ WalkAt(job[a], s, 2) <= used[SessionOf[s]]
           /\ s \notin evicted => Returning(job[a], s) <= used[s]
<1>1. \A b \in Budgets : used[b] \in Nat
  BY DEF BudgetTypes
<1>2. ASSUME NEW t \in MuxStreams, NEW l \in 1..2
      PROVE  Passing(t, l) \in Nat /\ WalkAt(job[a], t, l) <= Passing(t, l) /\ WalkAt(job[a], t, l) \in Nat
  <2>1. /\ Passing(t, l) \in Nat
        /\ ChargeAt(reader[r], t, l) + WalkAt(job[a], t, l) <= Passing(t, l)
    BY PassingChanges
  <2>2. ChargeAt(reader[r], t, l) \in Nat /\ WalkAt(job[a], t, l) \in Nat
    BY Numbers DEF BudgetTypes
  <2> QED
    BY <2>1, <2>2
<1>3. WalkAt(job[a], s, 1) <= used[Listener]
  <2> DEFINE f == [q \in MuxSessions |-> used[q]]
             h == [t \in MuxStreams |-> Passing(t, 1)]
  <2>1. f \in [MuxSessions -> Nat]
    BY <1>1, FiniteParties
  <2>2. h \in [MuxStreams -> Nat] /\ h[s] = Passing(s, 1)
    BY <1>2
  <2>3. used[Listener] = SumFunction(f) + SumFunction(h)
    BY DEF ChargesAccounted
  <2> HIDE DEF f, h
  <2>4. SumFunction(f) \in Nat
    BY <2>1, FiniteParties, SumIsNumber
  <2>5. SumFunction(h) \in Nat /\ h[s] <= SumFunction(h)
    BY <2>2, FiniteParties, SumChanges
  <2>6. Passing(s, 1) \in Nat /\ WalkAt(job[a], s, 1) <= Passing(s, 1) /\ WalkAt(job[a], s, 1) \in Nat
    BY <1>2
  <2> QED
    BY <2>2, <2>3, <2>4, <2>5, <2>6
<1>4. WalkAt(job[a], s, 2) <= used[SessionOf[s]]
  <2> DEFINE f == OfSession(SessionOf[s])
  <2>1. f = [t \in MuxStreams |-> IF SessionOf[t] = SessionOf[s] THEN used[t] + Passing(t, 2) ELSE 0]
    BY DEF OfSession
  <2>2. used[SessionOf[s]] = SumFunction(f)
    BY Levels DEF ChargesAccounted
  <2>3. \A t \in MuxStreams : used[t] + Passing(t, 2) \in Nat
    BY <1>1, <1>2, FiniteParties
  <2> HIDE DEF f
  <2>4. f \in [MuxStreams -> Nat] /\ f[s] = used[s] + Passing(s, 2)
    BY <2>1, <2>3
  <2>5. SumFunction(f) \in Nat /\ f[s] <= SumFunction(f)
    BY <2>4, FiniteParties, SumChanges
  <2>6. /\ Passing(s, 2) \in Nat /\ WalkAt(job[a], s, 2) <= Passing(s, 2)
        /\ WalkAt(job[a], s, 2) \in Nat /\ used[s] \in Nat
    BY <1>1, <1>2, FiniteParties
  <2> QED
    BY <2>2, <2>4, <2>5, <2>6
<1>5. s \notin evicted => Returning(job[a], s) <= used[s]
  <2>1. Returning(job[a], s) <= Held(s)
    BY HeldChanges
  <2> QED
    BY <2>1 DEF ChargesAccounted
<1> QED
  BY <1>3, <1>4, <1>5

LEMMA RefundOneKeeps ==
    ASSUME BudgetIInv, NEW a \in Actors, RefundOne(a)
    PROVE  BudgetIInv'
<1> DEFINE j == job[a]
           s0 == j.s
           n == j.n
           void == j.kind = "refund" /\ j.at = 3 /\ j.s \in evicted
           J == IF void \/ (j.kind = "rollback" /\ j.at = 1) THEN NoJob ELSE [j EXCEPT !.at = @ - 1]
           r == SessionOf[s0]
<1>0. PICK b : b = Chain(j.s)[j.at]
  OBVIOUS
<1>1. /\ j \in Jobs /\ JobShape(j) /\ j.kind \in {"refund", "evict", "rollback"} /\ s0 \in MuxStreams
      /\ n \in Nat /\ j.at \in 1..3 /\ r \in MuxSessions
      /\ j.kind # "refund" => j.at \in 1..2
  <2>1. j \in Jobs /\ JobShape(j) /\ j.kind # "none" /\ j.at > 0
    BY DEF BudgetIInv, BudgetTypes, RefundOne, Free
  <2>2. /\ j.kind \in {"refund", "evict", "rollback"} /\ s0 \in MuxStreams /\ n \in Nat
        /\ j.at \in 1..3
    BY <2>1 DEF Jobs
  <2> QED
    BY <2>1, <2>2, Levels DEF JobShape
<1>2. /\ used' = IF void THEN used ELSE [used EXCEPT ![b] = IF @ < n THEN 0 ELSE @ - n]
      /\ job' = [job EXCEPT ![a] = J]
      /\ reader' = reader /\ evicted' = evicted /\ rxQueue' = rxQueue
      /\ rolledBack \subseteq rolledBack'
  BY <1>0 DEF RefundOne
<1>3. /\ b = IF j.at = 1 THEN Listener ELSE IF j.at = 2 THEN SessionOf[s0] ELSE s0
      /\ b \in Budgets
  BY <1>0, <1>1, Levels
<1>4. /\ J \in Jobs /\ JobShape(J)
      /\ void \/ (j.kind = "rollback" /\ j.at = 1) => J.kind = "none"
      /\ ~(void \/ (j.kind = "rollback" /\ j.at = 1)) =>
           J.kind = j.kind /\ J.s = s0 /\ J.n = n /\ J.at = j.at - 1
  <2>1. CASE void \/ (j.kind = "rollback" /\ j.at = 1)
    BY <2>1, Resting
  <2>2. CASE ~(void \/ (j.kind = "rollback" /\ j.at = 1))
    <3> DEFINE K == [j EXCEPT !.at = @ - 1]
    <3>1. J = K
      BY <2>2
    <3>2. \A k \in 0..3 : [j EXCEPT !.at = k] \in Jobs
      BY <1>1 DEF Jobs
    <3>3. j.at - 1 \in 0..3
      BY <1>1
    <3>4. K \in Jobs
      BY <3>2, <3>3
    <3>5. K.kind = j.kind /\ K.s = s0 /\ K.n = n /\ K.at = j.at - 1
      BY <1>1 DEF Jobs
    <3> HIDE DEF K, J
    <3>6. JobShape(K)
      BY <1>1, <2>2, <3>5 DEF JobShape
    <3> QED
      BY <2>2, <3>1, <3>4, <3>5, <3>6
  <2> QED
    BY <2>1, <2>2
<1> HIDE DEF J
<1>5. /\ job' \in [Actors -> Jobs] /\ \A c \in Actors : JobShape(job'[c])
      /\ job'[a] = J /\ \A c \in Actors \ {a} : job'[c] = job[c]
  BY <1>2, <1>4, OneJob DEF BudgetIInv
<1>6. /\ used \in [Budgets -> Nat] /\ used' \in [Budgets -> Nat]
      /\ \A c \in Budgets \ {b} : used'[c] = used[c]
      /\ used'[b] = IF void THEN used[b] ELSE IF used[b] < n THEN 0 ELSE used[b] - n
  <2>1. used \in [Budgets -> Nat] /\ used[b] \in Nat
    BY <1>3 DEF BudgetIInv, BudgetTypes
  <2>2. (IF used[b] < n THEN 0 ELSE used[b] - n) \in Nat
    BY <2>1, <1>1
  <2> HIDE DEF n
  <2> QED
    BY <1>2, <1>3, <2>1, <2>2
<1>7. BudgetTypes'
  BY <1>2, <1>5, <1>6 DEF BudgetIInv, BudgetTypes, RefundOne
<1>8. OneParty(r, a)
  BY <1>2, <1>5 DEF OneParty
<1>9. /\ \A s \in MuxStreams \ {s0} :
            /\ Returning(job[a], s) = 0 /\ Returning(job'[a], s) = 0
            /\ \A l \in 1..2 : WalkAt(job[a], s, l) = 0 /\ WalkAt(job'[a], s, l) = 0
  BY <1>4, <1>5 DEF WalkAt, Returning
<1>10. /\ WalkAt(job[a], s0, 1) = (IF j.at = 1 THEN n ELSE 0)
       /\ WalkAt(job[a], s0, 2) = (IF j.at = 2 THEN n ELSE 0)
       /\ Returning(job[a], s0) = (IF j.at = 3 THEN n ELSE 0)
       /\ WalkAt(job'[a], s0, 1) = (IF j.at = 2 THEN n ELSE 0)
       /\ WalkAt(job'[a], s0, 2) = (IF j.at = 3 /\ ~void THEN n ELSE 0)
       /\ Returning(job'[a], s0) = 0
  BY <1>1, <1>4, <1>5 DEF WalkAt, Returning
<1>11. OneStream(r, a, s0)
  <2>1. \A s \in MuxStreams \ {s0} : used'[s] = used[s]
    BY <1>1, <1>3, <1>6, FiniteParties, Levels
  <2>2. \A q \in MuxSessions \ {SessionOf[s0]} : used'[q] = used[q]
    BY <1>1, <1>3, <1>6, FiniteParties, Levels
  <2> QED
    BY <1>2, <1>9, <2>1, <2>2 DEF OneStream
<1>12. Balanced(r, a, s0)
  <2>1. s0 \in evicted => used[s0] = 0
    BY <1>1 DEF BudgetIInv, ChargesAccounted
  <2>2. /\ WalkAt(job[a], s0, 1) <= used[Listener]
        /\ WalkAt(job[a], s0, 2) <= used[SessionOf[s0]]
        /\ s0 \notin evicted => Returning(job[a], s0) <= used[s0]
    BY <1>1, <1>7, <1>8, Covered DEF BudgetIInv
  <2>3. /\ SumFunction(rxQueue[s0]) \in Nat /\ InHand(reader[r], s0) \in Nat
        /\ ChargeAt(reader[r], s0, 1) \in Nat /\ ChargeAt(reader[r], s0, 2) \in Nat
    BY <1>1, Numbers, SumOfQueue DEF BudgetIInv, BudgetTypes
  <2>4. used[Listener] \in Nat /\ used[SessionOf[s0]] \in Nat /\ used[s0] \in Nat
    BY <1>1, <1>6, Levels
  <2> HIDE DEF r
  <2>5. CASE j.at = 1
    <3>1. ~void /\ n <= used[Listener] /\ b = Listener
      BY <2>5, <2>2, <1>3, <1>10
    <3>2. /\ used'[Listener] = used[Listener] - n /\ used'[SessionOf[s0]] = used[SessionOf[s0]]
          /\ used'[s0] = used[s0]
      BY <1>1, <1>6, <2>4, <3>1, Levels
    <3> QED
      BY <1>1, <1>2, <1>10, <2>1, <2>3, <2>4, <2>5, <3>1, <3>2 DEF Balanced
  <2>6. CASE j.at = 2
    <3>1. ~void /\ n <= used[SessionOf[s0]] /\ b = SessionOf[s0]
      BY <2>6, <2>2, <1>3, <1>10
    <3>2. /\ used'[Listener] = used[Listener] /\ used'[SessionOf[s0]] = used[SessionOf[s0]] - n
          /\ used'[s0] = used[s0]
      BY <1>1, <1>6, <2>4, <3>1, Levels
    <3> QED
      BY <1>1, <1>2, <1>10, <2>1, <2>3, <2>4, <2>6, <3>1, <3>2 DEF Balanced
  <2>7. CASE j.at = 3 /\ ~void
    <3>1. s0 \notin evicted /\ n <= used[s0] /\ b = s0
      BY <2>7, <2>2, <1>1, <1>3, <1>10
    <3>2. /\ used'[Listener] = used[Listener] /\ used'[SessionOf[s0]] = used[SessionOf[s0]]
          /\ used'[s0] = used[s0] - n
      BY <1>1, <1>6, <2>4, <2>7, <3>1, Levels
    <3> QED
      BY <1>1, <1>2, <1>10, <2>3, <2>4, <2>7, <3>1, <3>2 DEF Balanced
  <2>8. CASE void
    <3>1. used' = used /\ s0 \in evicted' /\ j.at = 3
      BY <2>8, <1>2
    <3> QED
      BY <1>1, <1>2, <1>10, <2>1, <2>3, <2>4, <2>8, <3>1 DEF Balanced
  <2> QED
    BY <1>1, <2>5, <2>6, <2>7, <2>8
<1>13. ChargesAccounted'
  BY <1>1, <1>7, <1>8, <1>11, <1>12, Balance DEF BudgetIInv
<1>14. \A q \in MuxSessions : Heard(q)'
  <2>1. ASSUME NEW c \in Budgets, Passed(a, c) PROVE Passed(a, c)'
    <3>1. /\ j.kind \in {"refund", "evict"}
          /\ \E l \in 1..3 : c = Chain(j.s)[l] /\ j.at < l
      BY <2>1 DEF Passed
    <3>2. ~void /\ j.kind # "rollback"
      BY <3>1, <1>1
    <3>3. /\ job'[a].kind = j.kind /\ job'[a].s = j.s /\ job'[a].at = j.at - 1
      BY <3>2, <1>4, <1>5
    <3>4. \A l \in 1..3 : j.at < l => j.at - 1 < l
      BY <1>1
    <3> QED
      BY <3>1, <3>3, <3>4 DEF Passed, Chain
  <2>2. \/ Passed(a, b)'
        \/ \A q \in MuxSessions : reader[q].waiting /\ reader[q].blocked = b => q \in rolledBack'
        \/ used' = used /\ evicted' = evicted
    <3>1. CASE j.kind = "rollback"
      BY <3>1, <1>0 DEF RefundOne
    <3>2. CASE void
      BY <3>2, <1>2
    <3>3. CASE j.kind # "rollback" /\ ~void
      <4>1. /\ job'[a].kind = j.kind /\ job'[a].s = j.s /\ job'[a].at = j.at - 1
        BY <3>3, <1>4, <1>5
      <4>2. j.at \in 1..3 /\ j.at - 1 < j.at
        BY <1>1
      <4> QED
        BY <1>0, <1>1, <3>3, <4>1, <4>2 DEF Passed, Chain
    <3> QED
      BY <3>1, <3>2, <3>3
  <2>3. \A q \in MuxSessions : reader'[q] = reader[q]
    BY <1>2
  <2> QED
    BY <1>2, <1>5, <1>6, <2>1, <2>2, <2>3, HeardPast DEF BudgetIInv
<1> QED
  BY <1>7, <1>13, <1>14 DEF BudgetIInv

LEMMA FinishWalkKeeps ==
    ASSUME BudgetIInv, NEW a \in Actors, FinishWalk(a)
    PROVE  BudgetIInv'
<1> DEFINE j == job[a]
<1>1. /\ j \in Jobs /\ JobShape(j) /\ j.kind # "none" /\ j.at = 0 /\ j.s \in MuxStreams
      /\ SessionOf[j.s] \in MuxSessions
  BY Levels DEF BudgetIInv, BudgetTypes, FinishWalk, Free, Jobs
<1>2. /\ job' \in [Actors -> Jobs] /\ \A c \in Actors : JobShape(job'[c])
      /\ job'[a] = NoJob /\ \A c \in Actors \ {a} : job'[c] = job[c]
  BY Resting, OneJob DEF BudgetIInv, FinishWalk
<1>3. ASSUME NEW q \in MuxSessions
      PROVE  reader'[q] = IF q \in Waiters(j.s) THEN [reader[q] EXCEPT !.notified = TRUE] ELSE reader[q]
  BY DEF FinishWalk
<1>4. ASSUME NEW q \in MuxSessions
      PROVE  /\ reader[q] \in Readers /\ [reader[q] EXCEPT !.notified = TRUE] \in Readers
             /\ ReaderShape(reader[q]) /\ ReaderShape([reader[q] EXCEPT !.notified = TRUE])
  <2>1. reader[q] \in Readers /\ ReaderShape(reader[q])
    BY DEF BudgetIInv, BudgetTypes
  <2> QED
    BY <2>1 DEF Readers, ReaderShape
<1>5. ASSUME NEW q \in MuxSessions
      PROVE  /\ reader'[q].pc = reader[q].pc /\ reader'[q].s = reader[q].s /\ reader'[q].n = reader[q].n
             /\ reader'[q].at = reader[q].at /\ reader'[q].charged = reader[q].charged
             /\ reader'[q] \in Readers /\ ReaderShape(reader'[q])
             /\ q \in Waiters(j.s) => reader'[q].notified
             /\ q \notin Waiters(j.s) => reader'[q] = reader[q]
  <2>1. reader[q] \in Readers
    BY <1>4
  <2>2. CASE q \in Waiters(j.s)
    <3>1. reader'[q] = [reader[q] EXCEPT !.notified = TRUE]
      BY <1>3, <2>2
    <3> QED
      BY <2>1, <2>2, <3>1, <1>4 DEF Readers
  <2>3. CASE q \notin Waiters(j.s)
    BY <1>3, <1>4, <2>3
  <2> QED
    BY <2>2, <2>3
<1>6. reader' \in [MuxSessions -> Readers] /\ \A q \in MuxSessions : ReaderShape(reader'[q])
  <2>1. DOMAIN reader' = MuxSessions /\ reader' = [q \in MuxSessions |-> reader'[q]]
    BY DEF FinishWalk
  <2> QED
    BY <1>5, <2>1
<1>7. /\ evictions' \in [MuxSessions -> SUBSET MuxStreams]
      /\ \A q \in MuxSessions : \A s \in evictions'[q] : SessionOf[s] = q
  <2>1. CASE j.kind = "evict"
    <3>1. evictions' = [evictions EXCEPT ![SessionOf[j.s]] = @ \cup {j.s}]
      BY <2>1 DEF FinishWalk
    <3> QED
      BY <3>1, <1>1 DEF BudgetIInv, BudgetTypes
  <2>2. CASE j.kind # "evict"
    BY <2>2 DEF FinishWalk, BudgetIInv, BudgetTypes
  <2> QED
    BY <2>1, <2>2
<1>8. BudgetTypes'
  BY <1>2, <1>6, <1>7 DEF BudgetIInv, BudgetTypes, FinishWalk
<1>9. ChargesAccounted'
  <2>0. PICK r \in MuxSessions : TRUE
    BY <1>1
  <2>1. \A q \in MuxSessions : \A s \in MuxStreams :
          /\ \A l \in 1..2 : ChargeAt(reader'[q], s, l) = ChargeAt(reader[q], s, l)
          /\ InHand(reader'[q], s) = InHand(reader[q], s)
    BY <1>5 DEF ChargeAt, InHand
  <2>2. \A s \in MuxStreams :
          /\ \A l \in 1..2 : WalkAt(job'[a], s, l) = WalkAt(job[a], s, l)
          /\ Returning(job'[a], s) = Returning(job[a], s)
    BY <1>1, <1>2, Resting DEF WalkAt, Returning
  <2>3. OneParty(r, a)
    BY <1>2, <2>1 DEF OneParty
  <2>4. used' = used /\ rxQueue' = rxQueue /\ evicted' = evicted
    BY DEF FinishWalk
  <2>5. \A s \in MuxStreams :
          /\ \A l \in 1..2 : /\ ChargeAt(reader'[r], s, l) = ChargeAt(reader[r], s, l)
                             /\ WalkAt(job'[a], s, l) = WalkAt(job[a], s, l)
          /\ InHand(reader'[r], s) = InHand(reader[r], s)
          /\ Returning(job'[a], s) = Returning(job[a], s)
    BY <2>1, <2>2
  <2> QED
    BY <1>8, <2>3, <2>4, <2>5, Quiet DEF BudgetIInv
<1>10. \A q \in MuxSessions : Heard(q)'
  <2> TAKE q \in MuxSessions
  <2>1. CASE q \in Waiters(j.s)
    BY <2>1, <1>5 DEF Heard
  <2>2. CASE q \notin Waiters(j.s)
    <3>1. reader'[q] = reader[q] /\ Heard(q) /\ (reader[q].pc = "parked" => reader[q].waiting)
      BY <2>2, <1>4, <1>5 DEF BudgetIInv, ReaderShape
    <3>2. used' = used /\ evicted' = evicted /\ rolledBack' = rolledBack
      BY DEF FinishWalk
    <3>3. \A c \in Actors \ {a} : \A b : Passed(c, b) => Passed(c, b)'
      BY <1>2 DEF Passed, Chain
    <3>4. reader[q].waiting => ~Passed(a, reader[q].blocked)
      <4>1. \A l \in 1..3 : Chain(j.s)[l] \in Range(Chain(j.s))
        <5>1. Range(Chain(j.s)) = {Chain(j.s)[1], Chain(j.s)[2], Chain(j.s)[3]}
          BY <1>1, Levels
        <5>2. \A l \in 1..3 : l = 1 \/ l = 2 \/ l = 3
          OBVIOUS
        <5> QED
          BY <5>1, <5>2
      <4> QED
        BY <2>2, <4>1 DEF Passed, Waiters
    <3>5. ~Fits(reader[q].blocked, reader[q].n) /\ reader[q].blocked \notin evicted
            => ~Fits(reader[q].blocked, reader[q].n)' /\ reader'[q].blocked \notin evicted'
      BY <3>1, <3>2 DEF Fits
    <3> QED
      BY <3>1, <3>2, <3>3, <3>4, <3>5 DEF Heard, Chain
  <2> QED
    BY <2>1, <2>2
<1> QED
  BY <1>8, <1>9, <1>10 DEF BudgetIInv

LEMMA BudgetInitial == BudgetInit => BudgetIInv
<1> SUFFICES ASSUME BudgetInit PROVE BudgetIInv
  OBVIOUS
<1>1. /\ \A r \in MuxSessions : reader[r] = Idle
      /\ \A a \in Actors : job[a] = NoJob
      /\ \A b \in Budgets : used[b] = 0
      /\ \A s \in MuxStreams : rxQueue[s] = <<>>
  BY DEF BudgetInit
<1>2. BudgetTypes
  BY Resting, BudgetConstants DEF BudgetInit, BudgetTypes
<1>3. \A r \in MuxSessions : Heard(r)
  BY <1>1, Resting DEF Heard
<1>4. ASSUME NEW s \in MuxStreams, NEW l \in 1..2 PROVE Passing(s, l) = 0
  <2> DEFINE f == [r \in MuxSessions |-> ChargeAt(reader[r], s, l)]
             h == [a \in Actors |-> WalkAt(job[a], s, l)]
  <2>1. f \in [MuxSessions -> Nat] /\ \A r \in MuxSessions : f[r] = 0
    BY <1>1, Resting DEF ChargeAt
  <2>2. h \in [Actors -> Nat] /\ \A a \in Actors : h[a] = 0
    BY <1>1, Resting DEF WalkAt
  <2>3. Passing(s, l) = SumFunction(f) + SumFunction(h)
    BY DEF Passing
  <2> HIDE DEF f, h
  <2>4. SumFunction(f) = 0 /\ SumFunction(h) = 0
    BY <2>1, <2>2, FiniteParties, SumOfNothing
  <2> QED
    BY <2>3, <2>4
<1>5. ASSUME NEW s \in MuxStreams PROVE Held(s) = 0
  <2> DEFINE f == [r \in MuxSessions |-> InHand(reader[r], s)]
             h == [a \in Actors |-> Returning(job[a], s)]
             e == rxQueue[s]
  <2>1. f \in [MuxSessions -> Nat] /\ \A r \in MuxSessions : f[r] = 0
    BY <1>1, Resting DEF InHand
  <2>2. h \in [Actors -> Nat] /\ \A a \in Actors : h[a] = 0
    BY <1>1, Resting DEF Returning
  <2>3. Held(s) = SumFunction(e) + SumFunction(f) + SumFunction(h)
    BY DEF Held
  <2>4. e \in [{} -> Nat] /\ IsFiniteSet({})
    <3>1. e \in Seq(Nat) /\ Len(e) = 0
      BY <1>1, EmptySeq
    <3>2. e \in [1..Len(e) -> Nat] /\ 1..0 = {}
      BY <3>1, LenProperties
    <3> QED
      BY <3>1, <3>2, FS_EmptySet
  <2> HIDE DEF e, f, h
  <2>5. SumFunction(f) = 0 /\ SumFunction(h) = 0
    BY <2>1, <2>2, FiniteParties, SumOfNothing
  <2>6. SumFunction(e) = 0
    BY <2>4, SumOfNothing
  <2> QED
    BY <2>3, <2>5, <2>6
<1>6. ASSUME NEW r \in MuxSessions PROVE used[r] = SumFunction(OfSession(r))
  <2> DEFINE f == OfSession(r)
  <2>1. f \in [MuxStreams -> Nat] /\ \A s \in MuxStreams : f[s] = 0
    <3>1. \A s \in MuxStreams : used[s] + Passing(s, 2) = 0
      BY <1>1, <1>4, FiniteParties
    <3> QED
      BY <3>1 DEF OfSession
  <2> HIDE DEF f
  <2>2. SumFunction(f) = 0
    BY <2>1, FiniteParties, SumOfNothing
  <2> QED
    BY <2>2, <1>1, FiniteParties DEF f
<1>7. used[Listener] = SumFunction([r \in MuxSessions |-> used[r]])
                         + SumFunction([s \in MuxStreams |-> Passing(s, 1)])
  <2> DEFINE f == [r \in MuxSessions |-> used[r]]
             h == [s \in MuxStreams |-> Passing(s, 1)]
  <2>1. f \in [MuxSessions -> Nat] /\ \A r \in MuxSessions : f[r] = 0
    BY <1>1, FiniteParties
  <2>2. h \in [MuxStreams -> Nat] /\ \A s \in MuxStreams : h[s] = 0
    BY <1>4
  <2> HIDE DEF f, h
  <2>3. SumFunction(f) = 0 /\ SumFunction(h) = 0
    BY <2>1, <2>2, FiniteParties, SumOfNothing
  <2>4. used[Listener] = SumFunction(f) + SumFunction(h)
    BY <1>1, <2>3, FiniteParties
  <2> QED
    BY <2>4 DEF f, h
<1>8. \A s \in MuxStreams : used[s] = IF s \in evicted THEN 0 ELSE Held(s)
  BY <1>1, <1>5, FiniteParties DEF BudgetInit
<1>9. ChargesAccounted
  BY <1>6, <1>7, <1>8 DEF ChargesAccounted
<1> QED
  BY <1>2, <1>3, <1>9 DEF BudgetIInv

(* Every step of the readers, the streams and the refunds of smux.rs keeps the
   accounts, the places of charged payloads and walks, and what a refused reader
   may rely on. *)
THEOREM BudgetInductive == BudgetIInv /\ [BudgetNext]_budgetVars => BudgetIInv'
<1> SUFFICES ASSUME BudgetIInv, [BudgetNext]_budgetVars PROVE BudgetIInv'
  OBVIOUS
<1>1. CASE UNCHANGED budgetVars
  <2>1. BudgetTypes'
    BY <1>1 DEF budgetVars, BudgetIInv, BudgetTypes
  <2>2. ChargesAccounted'
    BY <1>1 DEF budgetVars, BudgetIInv, ChargesAccounted, Held, OfSession, Passing
  <2>3. \A r \in MuxSessions : Heard(r)'
    BY <1>1, <2>1, HeardKeeps DEF budgetVars, BudgetIInv, BudgetTypes
  <2> QED
    BY <2>1, <2>2, <2>3 DEF BudgetIInv
<1>2. ASSUME NEW r \in MuxSessions, NEW s \in MuxStreams, NEW n \in FrameLengths, ReadFrame(r, s, n)
      PROVE  BudgetIInv'
  BY <1>2, ReadFrameKeeps
<1>3. ASSUME NEW r \in MuxSessions, ReaderStep(r) PROVE BudgetIInv'
  <2>1. CASE ChargeOne(r)
    BY <2>1, ChargeFits, ChargeRefused
  <2> QED
    BY <1>3, <2>1, LookupKeeps, RefusedKeeps, RegisterKeeps, ServiceEvictionKeeps, WakeKeeps,
       GraceExpiresKeeps, EnqueueKeeps, QueueGraceExpiresKeeps DEF ReaderStep
<1>4. ASSUME NEW s \in MuxStreams, Consume(s) \/ DropStream(s) PROVE BudgetIInv'
  BY <1>4, ConsumeKeeps, DropStreamKeeps
<1>5. ASSUME NEW a \in Actors, WalkStep(a) PROVE BudgetIInv'
  BY <1>5, RefundOneKeeps, FinishWalkKeeps DEF WalkStep
<1> QED
  BY <1>1, <1>2, <1>3, <1>4, <1>5 DEF BudgetNext

LEMMA LimitsKept ==
    ASSUME BudgetTypes, WithinLimits, [BudgetNext]_budgetVars
    PROVE  WithinLimits'
<1>1. /\ used \in [Budgets -> Nat] /\ BudgetMax \in [Budgets -> Nat]
      /\ \A b \in Budgets : used[b] <= BudgetMax[b]
  BY BudgetConstants DEF BudgetTypes, WithinLimits
<1>2. CASE used' = used
  BY <1>1, <1>2 DEF WithinLimits
<1>3. ASSUME NEW r \in MuxSessions, ChargeOne(r) PROVE WithinLimits'
  <2> DEFINE n == reader[r].n
  <2>1. PICK b : b = Chain(reader[r].s)[reader[r].at]
    OBVIOUS
  <2>2. CASE ~Fits(b, n)
    BY <2>1, <2>2, <1>2, <1>3 DEF ChargeOne
  <2>3. CASE Fits(b, n)
    <3>1. used' = [used EXCEPT ![b] = @ + n] /\ used[b] + n <= BudgetMax[b]
      BY <1>3, <2>1, <2>3 DEF ChargeOne, Fits
    <3> HIDE DEF n
    <3>2. ASSUME NEW c \in Budgets PROVE used'[c] <= BudgetMax[c]
      <4>1. used'[c] = IF c = b THEN used[c] + n ELSE used[c]
        BY <1>1, <3>1
      <4> QED
        BY <1>1, <3>1, <4>1
    <3> QED
      BY <3>2 DEF WithinLimits
  <2> QED
    BY <2>2, <2>3
<1>4. ASSUME NEW b \in Budgets, NEW n \in Nat, used' = [used EXCEPT ![b] = n], n <= used[b]
      PROVE  WithinLimits'
  <2>1. ASSUME NEW c \in Budgets PROVE used'[c] <= BudgetMax[c]
    <3>1. used'[c] = IF c = b THEN n ELSE used[c]
      BY <1>1, <1>4
    <3> QED
      BY <1>1, <1>4, <3>1
  <2> QED
    BY <2>1 DEF WithinLimits
<1>5. ASSUME NEW r \in MuxSessions, GraceExpires(r) PROVE WithinLimits'
  <2>1. PICK v \in Victims(reader[r]) : used' = [used EXCEPT ![v] = IF v \in evicted THEN @ ELSE 0]
    BY <1>5 DEF GraceExpires
  <2>2. v \in Budgets
    BY FiniteParties DEF Victims, Largest, Leaves, BudgetTypes, Readers
  <2> DEFINE n == IF v \in evicted THEN used[v] ELSE 0
  <2>3. n \in Nat /\ n <= used[v] /\ used' = [used EXCEPT ![v] = n]
    BY <1>1, <2>1, <2>2
  <2> HIDE DEF n
  <2> QED
    BY <1>4, <2>2, <2>3
<1>6. ASSUME NEW a \in Actors, RefundOne(a) PROVE WithinLimits'
  <2>1. PICK b : b = Chain(job[a].s)[job[a].at]
    OBVIOUS
  <2> DEFINE m == job[a].n
             n == IF used[b] < m THEN 0 ELSE used[b] - m
  <2>2. b \in Budgets /\ m \in Nat
    <3>1. /\ job[a].s \in MuxStreams /\ job[a].at \in 0..3 /\ m \in Nat
      BY DEF BudgetTypes, Jobs
    <3>2. job[a].at \in 1..3
      BY <1>6, <3>1 DEF RefundOne
    <3> QED
      BY <2>1, <3>1, <3>2, Levels
  <2>3. n \in Nat /\ n <= used[b]
    BY <1>1, <2>2
  <2>4. used' = used \/ used' = [used EXCEPT ![b] = n]
    BY <1>6, <2>1 DEF RefundOne
  <2> HIDE DEF n
  <2> QED
    BY <1>2, <1>4, <2>2, <2>3, <2>4
<1> QED
  BY <1>2, <1>3, <1>5, <1>6 DEF BudgetNext, ReaderStep, WalkStep, budgetVars, ReadFrame, Lookup,
     Refused, Register, ServiceEviction, Wake, Enqueue, QueueGraceExpires, Consume, DropStream,
     FinishWalk

(* The listener, session and stream budgets of smux.rs hold exactly the bytes
   that are queued or in transit, within their limits, and a parked reader hears
   of every refund but the roll-back of another reader's charge: for any sessions
   and streams, any limits and any payload lengths. *)
THEOREM BudgetAlwaysSafe == BudgetSafetySpec => []BudgetSafe
<1>0. BudgetInit => WithinLimits
  BY BudgetConstants DEF BudgetInit, WithinLimits
<1>1. BudgetIInv /\ WithinLimits => BudgetSafe
  <2> SUFFICES ASSUME BudgetIInv, WithinLimits PROVE BudgetSafe
    OBVIOUS
  <2>1. BudgetTypeOK
    BY DEF BudgetIInv, BudgetTypes, BudgetTypeOK, Readers, Jobs
  <2>2. ASSUME NEW r \in MuxSessions, reader[r].pc = "parked", ~reader[r].notified,
               Fits(reader[r].blocked, reader[r].n) \/ reader[r].blocked \in evicted,
               r \notin rolledBack
        PROVE  WakeComing(reader[r].blocked)
    <3>1. PICK a \in Actors : Passed(a, reader[r].blocked)
      BY <2>2 DEF BudgetIInv, Heard
    <3>2. job[a].s \in MuxStreams
      BY DEF BudgetIInv, BudgetTypes, Jobs
    <3>3. \A l \in 1..3 : Chain(job[a].s)[l] \in Range(Chain(job[a].s))
      <4>1. Range(Chain(job[a].s)) = {Chain(job[a].s)[1], Chain(job[a].s)[2], Chain(job[a].s)[3]}
        BY <3>2, Levels
      <4>2. \A l \in 1..3 : l = 1 \/ l = 2 \/ l = 3
        OBVIOUS
      <4> QED
        BY <4>1, <4>2
    <3> QED
      BY <3>1, <3>3 DEF Passed, WakeComing
  <2>3. RefundHeardButRollback
    BY <2>2 DEF RefundHeardButRollback
  <2> QED
    BY <2>1, <2>3 DEF BudgetIInv, BudgetSafe
<1>2. BudgetIInv /\ WithinLimits /\ [BudgetNext]_budgetVars => WithinLimits'
  BY LimitsKept DEF BudgetIInv
<1> QED
  BY <1>0, <1>1, <1>2, BudgetInitial, BudgetInductive, PTL DEF BudgetSafetySpec

(* deliver_payload of smux.rs gives a payload up only for a stream that was
   evicted, has left the session's map or is gone. *)
THEOREM PayloadsAlwaysDelivered == BudgetSafetySpec => NoPayloadLost
<1> DEFINE Kept(r) ==
      (reader[r].pc # "idle" /\ reader'[r].pc = "idle")
      => \/ rxQueue'[reader[r].s] = Append(rxQueue[reader[r].s], reader[r].n)
         \/ reader[r].s \in evicted \/ reader[r].s \notin listed' \/ reader[r].s \in rxClosed
<1>1. ASSUME BudgetIInv, [BudgetNext]_budgetVars, NEW r \in MuxSessions PROVE Kept(r)
  <2>0. /\ reader \in [MuxSessions -> Readers] /\ reader[r] \in Readers
        /\ reader[r].s \in MuxStreams /\ rxQueue \in [MuxStreams -> Seq(Nat)]
    BY <1>1 DEF BudgetIInv, BudgetTypes, Readers
  <2> SUFFICES ASSUME reader[r].pc # "idle", reader'[r].pc = "idle" PROVE Kept(r)
    OBVIOUS
  <2>1. CASE UNCHANGED budgetVars
    BY <2>1 DEF budgetVars
  <2>2. ASSUME NEW q \in MuxSessions, NEW s \in MuxStreams, NEW n \in FrameLengths,
               ReadFrame(q, s, n)
        PROVE  Kept(r)
    BY <2>0, <2>2 DEF ReadFrame, Idle
  <2>3. ASSUME NEW q \in MuxSessions, ReaderStep(q) PROVE Kept(r)
    <3>1. CASE Lookup(q)
      BY <2>0, <3>1 DEF Lookup, Abandon, Readers
    <3>2. CASE ChargeOne(q)
      <4>1. CASE q # r
        BY <2>0, <3>2, <4>1 DEF ChargeOne
      <4>2. CASE q = r /\ Fits(Chain(reader[r].s)[reader[r].at], reader[r].n)
        <5> DEFINE x == reader[r]
                   R == IF x.at < 3 THEN [x EXCEPT !.at = @ + 1]
                        ELSE [x EXCEPT !.charged = TRUE, !.waiting = FALSE, !.notified = FALSE,
                                       !.pc = "enqueue"]
        <5>1. reader'[r] = R /\ x.pc = "charge"
          BY <2>0, <3>2, <4>2 DEF ChargeOne
        <5>2. R.pc \in {x.pc, "enqueue"}
          BY <2>0 DEF Readers
        <5> QED
          BY <5>1, <5>2
      <4>3. CASE q = r /\ ~Fits(Chain(reader[r].s)[reader[r].at], reader[r].n)
        BY <2>0, <3>2, <4>3 DEF ChargeOne, Readers
      <4> QED
        BY <4>1, <4>2, <4>3
    <3>3. CASE Refused(q)
      BY <2>0, <3>3 DEF Refused, Readers
    <3>4. CASE Register(q)
      BY <2>0, <3>4 DEF Register, Readers
    <3>5. CASE ServiceEviction(q)
      BY <2>0, <3>5 DEF ServiceEviction, Readers
    <3>6. CASE Wake(q)
      BY <2>0, <3>6 DEF Wake, Readers
    <3>7. CASE GraceExpires(q)
      BY <2>0, <3>7 DEF GraceExpires, Readers
    <3>8. CASE Enqueue(q)
      <4>1. CASE q # r
        BY <2>0, <3>8, <4>1 DEF Enqueue, Abandon
      <4>2. CASE q = r /\ reader[r].s \in rxClosed
        BY <4>2
      <4>3. CASE /\ q = r /\ reader[r].s \notin rxClosed
                 /\ rxQueue' = [rxQueue EXCEPT ![reader[r].s] = Append(@, reader[r].n)]
        BY <2>0, <4>3
      <4>4. CASE q = r /\ reader' = [reader EXCEPT ![r].pc = "full"]
        BY <2>0, <4>4 DEF Readers
      <4> QED
        BY <3>8, <4>1, <4>2, <4>3, <4>4 DEF Enqueue
    <3>9. CASE QueueGraceExpires(q)
      BY <2>0, <3>9 DEF QueueGraceExpires, Abandon, Readers
    <3> QED
      BY <2>3, <3>1, <3>2, <3>3, <3>4, <3>5, <3>6, <3>7, <3>8, <3>9 DEF ReaderStep
  <2>4. ASSUME NEW s \in MuxStreams, Consume(s) \/ DropStream(s) PROVE Kept(r)
    BY <2>4 DEF Consume, DropStream
  <2>5. ASSUME NEW a \in Actors, WalkStep(a) PROVE Kept(r)
    <3>1. CASE RefundOne(a)
      BY <3>1 DEF RefundOne
    <3>2. CASE FinishWalk(a)
      BY <2>0, <3>2 DEF FinishWalk, Readers
    <3> QED
      BY <2>5, <3>1, <3>2 DEF WalkStep
  <2> QED
    BY <1>1, <2>1, <2>2, <2>3, <2>4, <2>5 DEF BudgetNext
<1>2. BudgetIInv /\ [BudgetNext]_budgetVars => [\A r \in MuxSessions : Kept(r)]_budgetVars
  BY <1>1
<1> QED
  BY <1>2, BudgetInitial, BudgetInductive, PTL DEF BudgetSafetySpec, NoPayloadLost

-----------------------------------------------------------------------------
(* SmuxSession. *)

Command == [kind : {"data", "barrier", "fin"}, id : StreamIds]

(* Whether a command is a frame of the stream, and whether it is its FIN. *)
FrameOf(c, i) == c.id = i /\ c.kind # "barrier"

(* A FIN of the stream is the last of its frames in a queue. *)
FinLast(q, i) ==
    \A j, k \in DOMAIN q : q[j] = Cmd("fin", i) /\ FrameOf(q[k], i) => k <= j

(* What a batch carries of a stream, after each of its commands. *)
CarriedUpTo(cmds, i) ==
    LET carried[n \in 0..Len(cmds)] ==
            IF n = 0 THEN <<>>
            ELSE IF cmds[n].id = i /\ cmds[n].kind # "barrier"
                 THEN Append(carried[n - 1], cmds[n].kind)
                 ELSE carried[n - 1]
    IN  carried

LEMMA CarriedUpToDef ==
    ASSUME NEW q, NEW i, Len(q) \in Nat
    PROVE  CarriedUpTo(q, i) =
             [n \in 0..Len(q) |->
                IF n = 0 THEN <<>>
                ELSE IF q[n].id = i /\ q[n].kind # "barrier"
                     THEN Append(CarriedUpTo(q, i)[n - 1], q[n].kind)
                     ELSE CarriedUpTo(q, i)[n - 1]]
<1> DEFINE Step(c, n) == IF q[n].id = i /\ q[n].kind # "barrier" THEN Append(c, q[n].kind) ELSE c
           Eqn(g, k) == g = [n \in 0..k |-> IF n = 0 THEN <<>> ELSE Step(g[n - 1], n)]
           P == {k \in Nat : \E g : Eqn(g, k)}
<1> HIDE DEF Step
<1>1. 0 \in P
  <2>1. Eqn([n \in 0..0 |-> <<>>], 0)
    OBVIOUS
  <2> QED
    BY <2>1
<1>2. ASSUME NEW k \in P PROVE k + 1 \in P
  <2>1. PICK g : Eqn(g, k)
    OBVIOUS
  <2> DEFINE h == [n \in 0..(k + 1) |-> IF n = k + 1 THEN Step(g[k], k + 1) ELSE g[n]]
  <2>2. Eqn(h, k + 1)
    <3> DEFINE r == [n \in 0..(k + 1) |-> IF n = 0 THEN <<>> ELSE Step(h[n - 1], n)]
    <3>1. ASSUME NEW n \in 0..(k + 1) PROVE h[n] = r[n]
      <4>1. CASE n = k + 1
        BY <4>1
      <4>2. CASE n = 0
        BY <4>2, <2>1
      <4>3. CASE n \in 1..k
        <5>1. h[n] = g[n] /\ h[n - 1] = g[n - 1]
          BY <4>3
        <5>2. g[n] = Step(g[n - 1], n)
          BY <2>1, <4>3
        <5> QED
          BY <5>1, <5>2, <4>3
      <4> QED
        BY <4>1, <4>2, <4>3
    <3> QED
      BY <3>1
  <2>3. k + 1 \in Nat
    OBVIOUS
  <2> HIDE DEF h, Eqn
  <2> QED
    BY <2>2, <2>3
<1>3. P = Nat
  <2> HIDE DEF P
  <2> QED
    BY <1>1, <1>2, SetInduction DEF P
<1>4. \E g : Eqn(g, Len(q))
  BY <1>3
<1> QED
  BY <1>4 DEF CarriedUpTo, Step

(* The frames a batch carries of a stream: kinds of its frames, none if it has
   none, and a FIN only as the last if it is the last in the batch. *)
LEMMA CarriedFrames ==
    ASSUME NEW q \in Seq(Command), NEW i \in StreamIds
    PROVE  /\ Carried(q, i) \in Seq({"data", "fin"})
           /\ (\A k \in DOMAIN q : ~FrameOf(q[k], i)) => Carried(q, i) = <<>>
           /\ \A m \in DOMAIN Carried(q, i) :
                 Carried(q, i)[m] = "fin" => \E k \in DOMAIN q : q[k] = Cmd("fin", i)
           /\ FinLast(q, i) => \A m \in DOMAIN Carried(q, i) :
                                  Carried(q, i)[m] = "fin" => m = Len(Carried(q, i))
<1> DEFINE f == CarriedUpTo(q, i)
           N == Len(q)
           Good(n) == /\ f[n] \in Seq({"data", "fin"})
                      /\ (\A k \in 1..n : ~FrameOf(q[k], i)) => f[n] = <<>>
                      /\ \A m \in 1..Len(f[n]) :
                            f[n][m] = "fin" => \E k \in 1..n : q[k] = Cmd("fin", i)
                      /\ FinLast(q, i) => \A m \in 1..Len(f[n]) : f[n][m] = "fin" => m = Len(f[n])
           P == {n \in Nat : n <= N => Good(n)}
<1>1. N \in Nat /\ DOMAIN q = 1..N /\ \A k \in 1..N : q[k] \in Command
  BY LenProperties, ElementOfSeq
<1>2. \A n \in 0..N : f[n] = IF n = 0 THEN <<>>
                             ELSE IF FrameOf(q[n], i) THEN Append(f[n - 1], q[n].kind)
                             ELSE f[n - 1]
  <2>1. f = [n \in 0..N |-> IF n = 0 THEN <<>>
                             ELSE IF q[n].id = i /\ q[n].kind # "barrier"
                                  THEN Append(f[n - 1], q[n].kind)
                             ELSE f[n - 1]]
    BY <1>1, CarriedUpToDef
  <2> HIDE DEF f, N
  <2> QED
    BY <2>1 DEF FrameOf
<1>3. Carried(q, i) = f[N]
  BY DEF Carried, CarriedUpTo
<1> HIDE DEF f, N
<1>4. 0 \in P
  <2>1. f[0] = <<>>
    BY <1>2, <1>1
  <2>2. <<>> \in Seq({"data", "fin"}) /\ Len(<<>>) = 0
    BY EmptySeq
  <2>3. Good(0)
    BY <2>1, <2>2
  <2> QED
    BY <2>3
<1>5. ASSUME NEW n \in P PROVE n + 1 \in P
  <2> SUFFICES ASSUME n + 1 <= N PROVE Good(n + 1)
    OBVIOUS
  <2>1. n \in Nat /\ n <= N /\ Good(n)
    BY <1>1
  <2>2. n + 1 \in 1..N /\ n + 1 \in 0..N /\ (n + 1) - 1 = n /\ n + 1 # 0
    BY <2>1, <1>1
  <2>3. CASE ~FrameOf(q[n + 1], i)
    <3>1. f[n + 1] = f[n]
      BY <2>2, <2>3, <1>2
    <3> QED
      BY <2>1, <2>2, <3>1
  <2>4. CASE FrameOf(q[n + 1], i)
    <3>1. f[n + 1] = Append(f[n], q[n + 1].kind)
      BY <2>2, <2>4, <1>2
    <3>2. q[n + 1].kind \in {"data", "fin"} /\ (q[n + 1].kind = "fin" => q[n + 1] = Cmd("fin", i))
      BY <2>2, <2>4, <1>1 DEF Command, FrameOf, Cmd
    <3>3. f[n] \in Seq({"data", "fin"}) /\ Len(f[n]) \in Nat
      BY <2>1, LenProperties
    <3>4. /\ f[n + 1] \in Seq({"data", "fin"}) /\ Len(f[n + 1]) = Len(f[n]) + 1
          /\ \A m \in 1..Len(f[n]) : f[n + 1][m] = f[n][m]
          /\ f[n + 1][Len(f[n]) + 1] = q[n + 1].kind
      BY <3>1, <3>2, <3>3, AppendProperties
    <3>5. ASSUME NEW m \in 1..Len(f[n + 1]), f[n + 1][m] = "fin"
          PROVE  \E k \in 1..(n + 1) : q[k] = Cmd("fin", i)
      <4>1. CASE m \in 1..Len(f[n])
        <5>1. PICK k \in 1..n : q[k] = Cmd("fin", i)
          BY <4>1, <3>5, <3>4, <2>1
        <5> QED
          BY <5>1, <2>1
      <4>2. CASE m = Len(f[n]) + 1
        BY <4>2, <3>5, <3>4, <3>2, <2>1
      <4> QED
        BY <4>1, <4>2, <3>3, <3>4
    <3>6. ASSUME FinLast(q, i), NEW m \in 1..Len(f[n + 1]), f[n + 1][m] = "fin"
          PROVE  m = Len(f[n + 1])
      <4>1. CASE m \in 1..Len(f[n])
        <5>1. PICK k \in 1..n : q[k] = Cmd("fin", i)
          BY <4>1, <3>6, <3>4, <2>1
        <5>2. k \in DOMAIN q /\ n + 1 \in DOMAIN q
          BY <5>1, <1>1, <2>1, <2>2
        <5>3. n + 1 <= k
          BY <5>1, <5>2, <3>6, <2>4 DEF FinLast
        <5> QED
          BY <5>3, <2>1
      <4> QED
        BY <4>1, <3>3, <3>4
    <3>7. ~(\A k \in 1..(n + 1) : ~FrameOf(q[k], i))
      BY <2>1, <2>4
    <3> QED
      BY <3>4, <3>5, <3>6, <3>7
  <2> QED
    BY <2>3, <2>4
<1>6. P = Nat
  <2> HIDE DEF P
  <2> QED
    BY <1>4, <1>5, SetInduction DEF P
<1>7. Good(N)
  BY <1>6, <1>1
<1>8. DOMAIN f[N] = 1..Len(f[N])
  BY <1>7, LenProperties
<1> QED
  BY <1>1, <1>3, <1>7, <1>8

-----------------------------------------------------------------------------
SessTypes ==
    /\ phase \in {"reading", "ended", "joined", "draining", "over"}
    /\ map \subseteq StreamIds
    /\ task \in [StreamIds -> {"none", "running", "ended"}]
    /\ inbound \in [StreamIds -> Nat] /\ sent \in [StreamIds -> Nat]
    /\ terminal \in [StreamIds -> {"none", "finished", "failed"}]
    /\ rd \in [StreamIds -> {"ready", "empty", "finished", "failed"}]
    /\ barrier \in [StreamIds -> {"idle", "waiting"}]
    /\ wire \in [StreamIds -> Seq({"data", "fin"})]
    /\ wfin \subseteq StreamIds /\ dirty \subseteq StreamIds /\ closing \subseteq StreamIds
    /\ late \subseteq StreamIds /\ behind \subseteq StreamIds
    /\ outq \in Seq(Command) /\ Len(outq) <= OutCapacity

(* The read side: a stream that is told its end is out of the map, so nothing is
   queued for it any more, and a read that is past its queue has emptied it unless
   something came since. *)
ReadSide(i) ==
    /\ inbound[i] <= sent[i] /\ sent[i] <= MaxPayloads[i]
    /\ task[i] # "running" => terminal[i] = "none" /\ rd[i] = "ready"
    /\ terminal[i] # "none" \/ rd[i] \in {"finished", "failed"} => phase # "reading" \/ i \notin map
    /\ rd[i] # "ready" /\ i \notin late => inbound[i] = 0

(* Nothing that is on its way is the FIN of the stream. *)
NoFin(i) ==
    /\ \A k \in DOMAIN outq : outq[k] # Cmd("fin", i)
    /\ \A m \in DOMAIN wire[i] : wire[i][m] # "fin"

NoFrames(i) == \A k \in DOMAIN outq : ~FrameOf(outq[k], i)

(* The close of a stream is in one place: still with the stream, with the
   forwarder, in the queue, where it is the last frame, or out, and then the queue
   has no frame of the stream. *)
CloseSide(i) ==
    /\ i \in wfin => task[i] = "running"
    /\ task[i] = "none" => wire[i] = <<>> /\ \A k \in DOMAIN outq : outq[k].id # i
    /\ i \in closing => task[i] = "ended"
    /\ (task[i] = "running" /\ i \notin wfin) \/ i \in closing => NoFin(i)
    /\ FinLast(outq, i)
    /\ \A m \in DOMAIN wire[i] : wire[i][m] = "fin" => m = Len(wire[i]) /\ NoFrames(i)

(* A live stream has at most one barrier in the queue, which it waits for, behind
   all its frames; with nothing to flush it has no frame there.  Both except a
   stream that queued a frame behind its barrier. *)
FlushSide(i) ==
    /\ i \in dirty \cup behind => task[i] = "running"
    /\ task[i] = "running" =>
          \A k \in DOMAIN outq : outq[k] = Cmd("barrier", i) =>
             /\ barrier[i] = "waiting"
             /\ \A l \in DOMAIN outq : outq[l] = Cmd("barrier", i) => l = k
             /\ i \notin behind => \A j \in DOMAIN outq : FrameOf(outq[j], i) => j < k
    /\ task[i] = "running" /\ i \notin dirty /\ i \notin behind => NoFrames(i)

SessIInv ==
    SessTypes /\ \A i \in StreamIds : ReadSide(i) /\ CloseSide(i) /\ FlushSide(i)

LEMMA SessInitial == SessInit => SessIInv
<1> SUFFICES ASSUME SessInit PROVE SessIInv
  OBVIOUS
<1>0. <<>> \in Seq(Command) /\ <<>> \in Seq({"data", "fin"}) /\ Len(<<>>) = 0 /\ DOMAIN <<>> = {}
  BY EmptySeq
<1>1. SessTypes
  BY <1>0, SessConstants DEF SessInit, SessTypes
<1>2. ASSUME NEW i \in StreamIds PROVE ReadSide(i) /\ CloseSide(i) /\ FlushSide(i)
  <2>1. ReadSide(i)
    BY SessConstants DEF SessInit, ReadSide
  <2>2. outq = <<>> /\ wire[i] = <<>> /\ DOMAIN outq = {} /\ DOMAIN wire[i] = {}
    BY <1>0 DEF SessInit
  <2>3. CloseSide(i) /\ FlushSide(i)
    BY <2>2 DEF SessInit, CloseSide, FlushSide, NoFin, NoFrames, FinLast
  <2> QED
    BY <2>1, <2>3
<1> QED
  BY <1>1, <1>2 DEF SessIInv

(* The reader's steps do not touch the write side, but that a task starts. *)
LEMMA SynKeeps ==
    ASSUME SessIInv, NEW i \in StreamIds, Syn(i) PROVE SessIInv'
<1>1. UNCHANGED <<inbound, rd, sent, late, wfin, dirty, barrier, behind, closing, outq,
                  writer, forwarder, wire>>
  BY DEF Syn, ioVars
<1>2. task[i] = "none" /\ phase = "reading"
  BY DEF Syn
<1>3. /\ map' \subseteq StreamIds /\ \A k \in StreamIds : k \in map' => k \in map \/ k = i
      /\ \/ /\ phase' = "ended" /\ task' = task
            /\ terminal' = [k \in StreamIds |-> IF k \in map' \cap Running
                                                THEN "failed" ELSE terminal[k]]
         \/ /\ UNCHANGED <<phase, terminal>>
            /\ task' = [task EXCEPT ![i] = "running"]
  BY DEF Syn, EndReading, Reclaimed, Running
<1>4. SessTypes'
  BY <1>1, <1>3 DEF SessIInv, SessTypes, Running
<1>5. ASSUME NEW k \in StreamIds PROVE ReadSide(k)'
  BY <1>1, <1>2, <1>3 DEF SessIInv, SessTypes, ReadSide, Running
<1>6. ASSUME NEW k \in StreamIds PROVE CloseSide(k)' /\ FlushSide(k)'
  <2>1. CASE task'[k] = task[k]
    BY <2>1, <1>1 DEF SessIInv, CloseSide, FlushSide, NoFin, NoFrames, FinLast
  <2>2. CASE task'[k] # task[k]
    <3>1. k = i /\ task'[i] = "running" /\ task[i] = "none"
      BY <2>2, <1>2, <1>3 DEF SessIInv, SessTypes
    <3>2. CloseSide(i) /\ FlushSide(i)
      BY DEF SessIInv
    <3>3. wire[i] = <<>> /\ DOMAIN wire[i] = {} /\ \A j \in DOMAIN outq : outq[j].id # i
      BY <3>1, <3>2, EmptySeq DEF CloseSide
    <3>4. \A j \in DOMAIN outq : /\ outq[j] # Cmd("fin", i) /\ outq[j] # Cmd("barrier", i)
                                 /\ ~FrameOf(outq[j], i)
      BY <3>3 DEF Cmd, FrameOf
    <3> QED
      BY <3>1, <3>2, <3>3, <3>4, <1>1 DEF CloseSide, FlushSide, NoFin, NoFrames, FinLast
  <2> QED
    BY <2>1, <2>2
<1> QED
  BY <1>4, <1>5, <1>6 DEF SessIInv

LEMMA ReaderKeeps ==
    ASSUME SessIInv, NEW i \in StreamIds,
           Psh(i) \/ Fin(i) \/ Evict(i) \/ PollRecv(i) \/ PollTerminal(i)
    PROVE  SessIInv'
<1>1. UNCHANGED <<task, wfin, dirty, barrier, behind, closing, outq, writer, forwarder, wire>>
  BY DEF Psh, Fin, Evict, PollRecv, PollTerminal, ioVars
<1>2. SessTypes'
  <2>0. SessTypes
    BY DEF SessIInv
  <2>1. CASE Psh(i)
    BY <2>0, <2>1, <1>1 DEF SessTypes, Psh
  <2>2. CASE Fin(i) \/ Evict(i)
    BY <2>0, <2>2, <1>1 DEF SessTypes, Fin, Evict
  <2>3. CASE PollRecv(i)
    <3>1. /\ inbound' \in [StreamIds -> Nat]
          /\ rd' \in [StreamIds -> {"ready", "empty", "finished", "failed"}]
      <4>1. CASE inbound[i] > 0
        BY <2>0, <2>3, <4>1 DEF SessTypes, PollRecv
      <4>2. CASE ~(inbound[i] > 0)
        BY <2>0, <2>3, <4>2 DEF SessTypes, PollRecv
      <4> QED
        BY <4>1, <4>2
    <3> QED
      BY <2>0, <2>3, <3>1, <1>1 DEF SessTypes, PollRecv
  <2>4. CASE PollTerminal(i)
    BY <2>0, <2>4, <1>1 DEF SessTypes, PollTerminal
  <2> QED
    BY <2>1, <2>2, <2>3, <2>4
<1>3. ASSUME NEW k \in StreamIds PROVE ReadSide(k)'
  <2>0. /\ ReadSide(k) /\ ReadSide(i) /\ MaxPayloads[k] \in Nat
        /\ SessTypes
    BY SessConstants DEF SessIInv
  <2>1. CASE Psh(i)
    BY <2>0, <2>1 DEF SessTypes, ReadSide, Psh, Running
  <2>2. CASE Fin(i) \/ Evict(i)
    BY <2>0, <2>2 DEF SessTypes, ReadSide, Fin, Evict, Running
  <2>3. CASE PollRecv(i) \/ PollTerminal(i)
    BY <2>0, <2>3 DEF SessTypes, ReadSide, PollRecv, PollTerminal, Running
  <2> QED
    BY <2>1, <2>2, <2>3
<1>4. ASSUME NEW k \in StreamIds PROVE CloseSide(k)' /\ FlushSide(k)'
  BY <1>1 DEF SessIInv, CloseSide, FlushSide, NoFin, NoFrames, FinLast
<1> QED
  BY <1>2, <1>3, <1>4 DEF SessIInv

LEMMA ReadingEndsKeeps ==
    ASSUME SessIInv, ReadEnds \/ Joined PROVE SessIInv'
<1>1. /\ UNCHANGED <<task, wfin, dirty, barrier, behind, closing, outq, writer, forwarder, wire>>
      /\ UNCHANGED <<map, inbound, rd, sent, late>>
      /\ phase' \in {"ended", "joined"}
      /\ \/ terminal' = terminal
         \/ terminal' = [i \in StreamIds |-> IF i \in map \cap Running
                                             THEN "failed" ELSE terminal[i]]
  BY DEF ReadEnds, EndReading, Joined, ioVars, readVars
<1>2. SessTypes'
  BY <1>1 DEF SessIInv, SessTypes
<1>3. ASSUME NEW k \in StreamIds PROVE ReadSide(k)'
  BY <1>1 DEF SessIInv, ReadSide, Running
<1>4. ASSUME NEW k \in StreamIds PROVE CloseSide(k)' /\ FlushSide(k)'
  BY <1>1 DEF SessIInv, CloseSide, FlushSide, NoFin, NoFrames, FinLast
<1> QED
  BY <1>2, <1>3, <1>4 DEF SessIInv

(* One more command in the queue. *)
LEMMA Queued ==
    ASSUME outq \in Seq(Command), NEW c \in Command, outq' = Append(outq, c)
    PROVE  /\ outq' \in Seq(Command) /\ Len(outq') = Len(outq) + 1 /\ Len(outq) \in Nat
           /\ DOMAIN outq = 1..Len(outq) /\ DOMAIN outq' = 1..(Len(outq) + 1)
           /\ \A k \in DOMAIN outq : k \in DOMAIN outq' /\ outq'[k] = outq[k]
           /\ outq'[Len(outq) + 1] = c
           /\ \A k \in DOMAIN outq' : \/ k \in DOMAIN outq /\ outq'[k] = outq[k]
                                      \/ k = Len(outq) + 1 /\ outq'[k] = c
<1>1. /\ outq' \in Seq(Command) /\ Len(outq') = Len(outq) + 1 /\ Len(outq) \in Nat
      /\ DOMAIN outq = 1..Len(outq) /\ DOMAIN outq' = 1..Len(outq')
      /\ \A k \in 1..Len(outq) : outq'[k] = outq[k]
      /\ outq'[Len(outq) + 1] = c
  BY AppendProperties, LenProperties
<1> QED
  BY <1>1

(* The steps that only write leave the read side alone. *)
LEMMA ReadSideKept ==
    ASSUME NEW k \in StreamIds, ReadSide(k), UNCHANGED <<phase, readVars>> PROVE ReadSide(k)'
  BY DEF ReadSide, readVars

(* A frame is queued by the stream itself. *)
LEMMA FrameQueuedKeeps ==
    ASSUME SessIInv, NEW i \in StreamIds, Write(i) \/ Shutdown(i) PROVE SessIInv'
<1>1. PICK c \in Command :
        /\ FrameOf(c, i) /\ c = Cmd(c.kind, i) /\ outq' = Append(outq, c)
        /\ wfin' = IF c.kind = "fin" THEN wfin \cup {i} ELSE wfin
  <2>1. CASE Write(i)
    <3>1. Cmd("data", i) \in Command /\ FrameOf(Cmd("data", i), i)
      BY DEF Command, FrameOf, Cmd
    <3> QED
      BY <2>1, <3>1 DEF Write, Cmd
  <2>2. CASE Shutdown(i)
    <3>1. Cmd("fin", i) \in Command /\ FrameOf(Cmd("fin", i), i)
      BY DEF Command, FrameOf, Cmd
    <3> QED
      BY <2>2, <3>1 DEF Shutdown, Cmd
  <2> QED
    BY <2>1, <2>2
<1>2. /\ task[i] = "running" /\ i \notin wfin /\ Len(outq) < OutCapacity
      /\ dirty' = dirty \cup {i} /\ behind' = Behind(i)
      /\ UNCHANGED <<phase, readVars, barrier, closing, writer, forwarder, wire>>
  BY DEF Write, Shutdown, Running, Room
<1>3. UNCHANGED <<map, task, inbound, terminal, rd, sent, late>>
  BY <1>2 DEF readVars
<1>4. SessTypes
  BY DEF SessIInv
<1>5. /\ outq' \in Seq(Command) /\ Len(outq') = Len(outq) + 1 /\ Len(outq) \in Nat
      /\ DOMAIN outq = 1..Len(outq) /\ DOMAIN outq' = 1..(Len(outq) + 1)
      /\ \A k \in DOMAIN outq : k \in DOMAIN outq' /\ outq'[k] = outq[k]
      /\ outq'[Len(outq) + 1] = c
      /\ \A k \in DOMAIN outq' : \/ k \in DOMAIN outq /\ outq'[k] = outq[k]
                                 \/ k = Len(outq) + 1 /\ outq'[k] = c
  BY <1>1, <1>4, Queued DEF SessTypes
<1>6. SessTypes'
  <2>1. behind' \subseteq StreamIds /\ wfin' \subseteq StreamIds /\ dirty' \subseteq StreamIds
    BY <1>1, <1>2, <1>4 DEF SessTypes, Behind
  <2>2. Len(outq') <= OutCapacity
    BY <1>2, <1>5, SessConstants
  <2> QED
    BY <1>2, <1>3, <1>4, <1>5, <2>1, <2>2 DEF SessTypes
<1>7. ASSUME NEW k \in StreamIds PROVE ReadSide(k)' /\ CloseSide(k)' /\ FlushSide(k)'
  <2>0. ReadSide(k) /\ CloseSide(k) /\ FlushSide(k)
    BY DEF SessIInv
  <2>1. ReadSide(k)'
    BY <2>0, <1>2, ReadSideKept
  <2>2. c.id = i /\ c.kind \in {"data", "fin"}
    BY <1>1 DEF FrameOf, Command
  <2>3. CASE k # i
    <3>1. /\ c # Cmd("fin", k) /\ c # Cmd("barrier", k) /\ ~FrameOf(c, k) /\ c.id # k
          /\ (k \in wfin' <=> k \in wfin) /\ (k \in dirty' <=> k \in dirty)
          /\ (k \in behind' <=> k \in behind)
      BY <2>2, <2>3, <1>1, <1>2 DEF Cmd, FrameOf, Behind
    <3>2. CloseSide(k)'
      BY <2>0, <3>1, <1>2, <1>3, <1>5 DEF CloseSide, NoFin, NoFrames, FinLast
    <3>3. FlushSide(k)'
      BY <2>0, <3>1, <1>2, <1>3, <1>5 DEF FlushSide, NoFrames
    <3> QED
      BY <2>1, <3>2, <3>3
  <2>4. CASE k = i
    <3>1. NoFin(i) /\ i \notin closing
      BY <2>0, <2>4, <1>2 DEF CloseSide
    <3>2. c # Cmd("barrier", i) /\ (c = Cmd("fin", i) <=> c.kind = "fin")
      BY <2>2, <1>1 DEF Cmd
    <3>3. CloseSide(i)'
      <4>1. FinLast(outq, i)'
        BY <3>1, <1>5 DEF FinLast, NoFin
      <4>2. i \notin wfin' => NoFin(i)'
        BY <3>1, <3>2, <1>1, <1>2, <1>5 DEF NoFin
      <4>3. \A m \in DOMAIN wire'[i] : wire'[i][m] # "fin"
        BY <3>1, <1>2 DEF NoFin
      <4> QED
        BY <4>1, <4>2, <4>3, <3>1, <1>2, <1>3 DEF CloseSide
    <3>4. FlushSide(i)'
      <4>1. i \in dirty' /\ task'[i] = "running"
        BY <1>2, <1>3
      <4>2. ASSUME NEW l \in DOMAIN outq', outq'[l] = Cmd("barrier", i)
            PROVE  /\ barrier'[i] = "waiting" /\ i \in behind'
                   /\ \A n \in DOMAIN outq' : outq'[n] = Cmd("barrier", i) => n = l
        <5>1. l \in DOMAIN outq /\ outq[l] = Cmd("barrier", i)
          BY <4>2, <3>2, <1>5
        <5>2. /\ barrier[i] = "waiting"
              /\ \A n \in DOMAIN outq : outq[n] = Cmd("barrier", i) => n = l
          BY <5>1, <2>0, <2>4, <1>2 DEF FlushSide
        <5> QED
          BY <5>1, <5>2, <3>2, <1>2, <1>5 DEF Behind
      <4> QED
        BY <4>1, <4>2 DEF FlushSide
    <3> QED
      BY <2>1, <2>4, <3>3, <3>4
  <2> QED
    BY <2>3, <2>4
<1> QED
  BY <1>6, <1>7 DEF SessIInv

(* A barrier is queued behind all frames of the stream. *)
LEMMA FlushKeeps ==
    ASSUME SessIInv, NEW i \in StreamIds, Flush(i) PROVE SessIInv'
<1> DEFINE c == Cmd("barrier", i)
<1>1. c \in Command /\ c.id = i /\ \A k : ~FrameOf(c, k) /\ c # Cmd("fin", k)
  BY DEF Command, Cmd, FrameOf
<1>2. /\ task[i] = "running" /\ barrier[i] = "idle" /\ Len(outq) < OutCapacity /\ i \in dirty
      /\ outq' = Append(outq, c) /\ barrier' = [barrier EXCEPT ![i] = "waiting"]
      /\ UNCHANGED <<phase, readVars, wfin, dirty, behind, closing, writer, forwarder, wire>>
  BY DEF Flush, Running, Room
<1>3. UNCHANGED <<map, task, inbound, terminal, rd, sent, late>>
  BY <1>2 DEF readVars
<1>4. SessTypes
  BY DEF SessIInv
<1>5. /\ outq' \in Seq(Command) /\ Len(outq') = Len(outq) + 1 /\ Len(outq) \in Nat
      /\ DOMAIN outq = 1..Len(outq) /\ DOMAIN outq' = 1..(Len(outq) + 1)
      /\ \A k \in DOMAIN outq : k \in DOMAIN outq' /\ outq'[k] = outq[k]
      /\ outq'[Len(outq) + 1] = c
      /\ \A k \in DOMAIN outq' : \/ k \in DOMAIN outq /\ outq'[k] = outq[k]
                                 \/ k = Len(outq) + 1 /\ outq'[k] = c
  BY <1>1, <1>2, <1>4, Queued DEF SessTypes
<1>6. SessTypes'
  <2>1. Len(outq') <= OutCapacity
    BY <1>2, <1>5, SessConstants
  <2> QED
    BY <1>2, <1>3, <1>4, <1>5, <2>1 DEF SessTypes
<1>7. ASSUME NEW k \in StreamIds PROVE ReadSide(k)' /\ CloseSide(k)' /\ FlushSide(k)'
  <2>0. ReadSide(k) /\ CloseSide(k) /\ FlushSide(k)
    BY DEF SessIInv
  <2>1. ReadSide(k)'
    BY <2>0, <1>2, ReadSideKept
  <2>2. c = Cmd("barrier", k) => k = i
    BY <1>1 DEF Cmd
  <2> HIDE DEF c
  <2>3. CloseSide(k)'
    BY <2>0, <1>1, <1>2, <1>3, <1>5 DEF CloseSide, NoFin, NoFrames, FinLast
  <2>4. FlushSide(k)'
    <3>1. NoFrames(k) => NoFrames(k)'
      BY <1>1, <1>5 DEF NoFrames
    <3>2. CASE k # i
      BY <2>0, <2>2, <3>1, <3>2, <1>1, <1>2, <1>3, <1>4, <1>5 DEF FlushSide, SessTypes
    <3>3. CASE k = i
      <4>1. \A l \in DOMAIN outq : outq[l] # c
        BY <2>0, <3>3, <1>2 DEF FlushSide, c
      <4>2. barrier'[i] = "waiting"
        BY <1>2, <1>4 DEF SessTypes
      <4>3. ASSUME NEW l \in DOMAIN outq', outq'[l] = c
            PROVE  /\ \A n \in DOMAIN outq' : outq'[n] = c => n = l
                   /\ \A j \in DOMAIN outq' : FrameOf(outq'[j], i) => j < l
        BY <4>1, <4>3, <1>1, <1>5
      <4> QED
        BY <2>0, <3>1, <3>3, <4>2, <4>3, <1>2, <1>3 DEF FlushSide, c
    <3> QED
      BY <3>2, <3>3
  <2> QED
    BY <2>1, <2>3, <2>4
<1> QED
  BY <1>6, <1>7 DEF SessIInv

(* The drop of a stream: its close goes to the forwarder, or is out already. *)
LEMMA EndTaskKeeps ==
    ASSUME SessIInv, NEW i \in StreamIds, EndTask(i) PROVE SessIInv'
<1>1. /\ task[i] = "running" /\ task' = [task EXCEPT ![i] = "ended"]
      /\ \/ closing' = closing
         \/ i \notin wfin /\ closing' = closing \cup {i}
      /\ inbound' = [inbound EXCEPT ![i] = 0] /\ rd' = [rd EXCEPT ![i] = "ready"]
      /\ barrier' = [barrier EXCEPT ![i] = "idle"] /\ terminal' = [terminal EXCEPT ![i] = "none"]
      /\ wfin' = wfin \ {i} /\ dirty' = dirty \ {i} /\ late' = late \ {i}
      /\ behind' = behind \ {i}
      /\ UNCHANGED <<phase, map, sent, outq, wire>>
  BY DEF EndTask, Running
<1>2. SessTypes
  BY DEF SessIInv
<1>3. SessTypes'
  BY <1>1, <1>2 DEF SessTypes
<1>4. ASSUME NEW k \in StreamIds PROVE ReadSide(k)' /\ CloseSide(k)' /\ FlushSide(k)'
  <2>0. ReadSide(k) /\ CloseSide(k) /\ FlushSide(k)
    BY DEF SessIInv
  <2>1. ReadSide(k)'
    BY <2>0, <1>1, <1>2 DEF SessTypes, ReadSide
  <2>2. (NoFin(k)' <=> NoFin(k)) /\ (NoFrames(k)' <=> NoFrames(k)) /\ (FinLast(outq, k)' <=> FinLast(outq, k))
    BY <1>1 DEF NoFin, NoFrames, FinLast
  <2>3. CloseSide(k)'
    BY <2>0, <2>2, <1>1, <1>2 DEF SessTypes, CloseSide
  <2>4. FlushSide(k)'
    BY <2>0, <2>2, <1>1, <1>2 DEF SessTypes, FlushSide
  <2> QED
    BY <2>1, <2>3, <2>4
<1> QED
  BY <1>3, <1>4 DEF SessIInv

(* The forwarder queues the close of a stream that has ended. *)
LEMMA ForwardCloseKeeps ==
    ASSUME SessIInv, NEW i \in StreamIds, ForwardClose(i) PROVE SessIInv'
<1> DEFINE c == Cmd("fin", i)
<1>1. c \in Command /\ c.id = i /\ \A k : c # Cmd("barrier", k) /\ (FrameOf(c, k) <=> k = i)
                                       /\ (c = Cmd("fin", k) => k = i)
  BY DEF Command, Cmd, FrameOf
<1>2. /\ i \in closing
      /\ UNCHANGED <<phase, readVars, wfin, dirty, barrier, behind, writer, wire>>
      /\ \/ /\ Len(outq) < OutCapacity /\ outq' = Append(outq, c) /\ closing' = closing \ {i}
         \/ closing' = {} /\ outq' = outq
  BY DEF ForwardClose, Room
<1>3. UNCHANGED <<map, task, inbound, terminal, rd, sent, late>>
  BY <1>2 DEF readVars
<1>4. SessTypes
  BY DEF SessIInv
<1> HIDE DEF c
<1>5. CASE outq' = outq
  <2>1. closing' \subseteq closing
    BY <1>2
  <2>2. SessTypes'
    BY <1>2, <1>3, <1>4, <1>5, <2>1 DEF SessTypes
  <2>3. ASSUME NEW k \in StreamIds PROVE ReadSide(k)' /\ CloseSide(k)' /\ FlushSide(k)'
    <3>0. ReadSide(k) /\ CloseSide(k) /\ FlushSide(k)
      BY DEF SessIInv
    <3>1. ReadSide(k)'
      BY <3>0, <1>2, ReadSideKept
    <3> QED
      BY <3>0, <3>1, <2>1, <1>2, <1>3, <1>5 DEF CloseSide, FlushSide, NoFin, NoFrames, FinLast
  <2> QED
    BY <2>2, <2>3 DEF SessIInv
<1>6. CASE Len(outq) < OutCapacity /\ outq' = Append(outq, c) /\ closing' = closing \ {i}
  <2>1. /\ outq' \in Seq(Command) /\ Len(outq') = Len(outq) + 1 /\ Len(outq) \in Nat
        /\ DOMAIN outq = 1..Len(outq) /\ DOMAIN outq' = 1..(Len(outq) + 1)
        /\ \A k \in DOMAIN outq : k \in DOMAIN outq' /\ outq'[k] = outq[k]
        /\ outq'[Len(outq) + 1] = c
        /\ \A k \in DOMAIN outq' : \/ k \in DOMAIN outq /\ outq'[k] = outq[k]
                                   \/ k = Len(outq) + 1 /\ outq'[k] = c
    BY <1>1, <1>4, <1>6, Queued DEF SessTypes
  <2>2. SessTypes'
    <3>1. Len(outq') <= OutCapacity
      BY <1>6, <2>1, SessConstants
    <3> QED
      BY <1>2, <1>3, <1>4, <1>6, <2>1, <3>1 DEF SessTypes
  <2>3. ASSUME NEW k \in StreamIds PROVE ReadSide(k)' /\ CloseSide(k)' /\ FlushSide(k)'
    <3>0. ReadSide(k) /\ CloseSide(k) /\ FlushSide(k) /\ CloseSide(i)
      BY DEF SessIInv
    <3>1. ReadSide(k)'
      BY <3>0, <1>2, ReadSideKept
    <3>2. CASE k # i
      <4>1. ~FrameOf(c, k) /\ c # Cmd("fin", k) /\ c # Cmd("barrier", k) /\ c.id # k
        BY <1>1, <3>2
      <4>2. CloseSide(k)'
        BY <3>0, <3>2, <4>1, <1>2, <1>3, <1>6, <2>1 DEF CloseSide, NoFin, NoFrames, FinLast
      <4>3. FlushSide(k)'
        BY <3>0, <4>1, <1>2, <1>3, <2>1 DEF FlushSide, NoFrames
      <4> QED
        BY <3>1, <4>2, <4>3
    <3>3. CASE k = i
      <4>1. task[i] = "ended" /\ NoFin(i) /\ i \notin closing' /\ i \notin wfin
        BY <3>0, <1>2, <1>6 DEF CloseSide
      <4>2. FinLast(outq, i)'
        BY <4>1, <2>1 DEF FinLast, NoFin
      <4>3. CloseSide(i)'
        BY <4>1, <4>2, <1>2, <1>3 DEF CloseSide, NoFin
      <4>4. FlushSide(i)'
        BY <3>0, <3>3, <4>1, <1>2, <1>3 DEF FlushSide
      <4> QED
        BY <3>1, <3>3, <4>3, <4>4
    <3> QED
      BY <3>2, <3>3
  <2> QED
    BY <2>2, <2>3 DEF SessIInv
<1> QED
  BY <1>2, <1>5, <1>6

(* The queue is closed, or the forwarder. *)
LEMMA EndsClear ==
    ASSUME SessIInv, WriterFails \/ StartDrain \/ Drained PROVE SessIInv'
<1>1. /\ UNCHANGED <<readVars, wfin, dirty, behind, wire>>
      /\ \/ outq' = <<>>
         \/ outq' = outq /\ barrier' = barrier
      /\ closing' \subseteq closing
      /\ phase' = phase \/ phase' \in {"draining", "over"}
  BY DEF WriterFails, StartDrain, Drained
<1>2. barrier' \in [StreamIds -> {"idle", "waiting"}]
  BY DEF SessIInv, SessTypes, WriterFails, StartDrain, Drained
<1>3. UNCHANGED <<map, task, inbound, terminal, rd, sent, late>>
  BY <1>1 DEF readVars
<1>4. <<>> \in Seq(Command) /\ Len(<<>>) = 0 /\ DOMAIN <<>> = {}
  BY EmptySeq
<1>5. SessTypes'
  <2>0. SessTypes
    BY DEF SessIInv
  <2>1. outq' \in Seq(Command) /\ Len(outq') <= OutCapacity
    <3>1. CASE outq' = <<>>
      BY <3>1, <1>4, SessConstants
    <3>2. CASE outq' = outq
      BY <3>2, <2>0 DEF SessTypes
    <3> QED
      BY <3>1, <3>2, <1>1
  <2>2. closing' \subseteq StreamIds
    BY <2>0, <1>1 DEF SessTypes
  <2> QED
    BY <2>0, <2>1, <2>2, <1>1, <1>2, <1>3 DEF SessTypes
<1>6. ASSUME NEW k \in StreamIds PROVE ReadSide(k)' /\ CloseSide(k)' /\ FlushSide(k)'
  <2>0. ReadSide(k) /\ CloseSide(k) /\ FlushSide(k)
    BY DEF SessIInv
  <2>1. ReadSide(k)'
    BY <2>0, <1>1, <1>3 DEF ReadSide
  <2>2. CASE outq' = <<>>
    <3>1. DOMAIN outq' = {}
      BY <2>2, <1>4
    <3> QED
      BY <2>0, <2>1, <3>1, <1>1, <1>3 DEF CloseSide, FlushSide, NoFin, NoFrames, FinLast
  <2>3. CASE outq' = outq /\ barrier' = barrier
    BY <2>0, <2>1, <2>3, <1>1, <1>3 DEF CloseSide, FlushSide, NoFin, NoFrames, FinLast
  <2> QED
    BY <2>2, <2>3, <1>1
<1> QED
  BY <1>5, <1>6 DEF SessIInv

(* A batch goes out: the frames of each stream join what the peer has, and the
   barrier at its end is answered. *)
LEMMA WriteBatchKeeps ==
    ASSUME SessIInv, WriteBatch PROVE SessIInv'
<1>1. PICK k \in DOMAIN outq :
         LET batch == SubSeq(outq, 1, k)
         IN  /\ \A m \in 1..(k - 1) : outq[m].kind # "barrier"
             /\ outq' = SubSeq(outq, k + 1, Len(outq))
             /\ wire' = [i \in StreamIds |-> wire[i] \o Carried(batch, i)]
             /\ barrier' = [i \in StreamIds |-> IF i \in Answered(batch) THEN "idle" ELSE barrier[i]]
             /\ dirty' = dirty \ Answered(batch)
  BY DEF WriteBatch
<1> DEFINE batch == SubSeq(outq, 1, k)
<1>2. UNCHANGED <<phase, readVars, wfin, behind, closing>>
  BY DEF WriteBatch
<1>3. UNCHANGED <<map, task, inbound, terminal, rd, sent, late>>
  BY <1>2 DEF readVars
<1>4. SessTypes
  BY DEF SessIInv
<1>5. Len(outq) \in Nat /\ DOMAIN outq = 1..Len(outq) /\ k \in 1..Len(outq)
      /\ \A m \in DOMAIN outq : outq[m] \in Command
  BY <1>4, LenProperties, ElementOfSeq DEF SessTypes
<1>6. /\ batch \in Seq(Command) /\ Len(batch) = k /\ DOMAIN batch = 1..k
      /\ \A m \in 1..k : batch[m] = outq[m]
  <2>1. batch \in Seq(Command) /\ Len(batch) = k /\ \A m \in 1..k : batch[m] = outq[m]
    BY <1>4, <1>5, SubSeqProperties DEF SessTypes
  <2> QED
    BY <2>1, LenProperties
<1>7. /\ outq' \in Seq(Command) /\ Len(outq') = Len(outq) - k
      /\ DOMAIN outq' = 1..(Len(outq) - k)
      /\ \A m \in DOMAIN outq' : m + k \in DOMAIN outq /\ outq'[m] = outq[m + k]
  <2>1. /\ outq' \in Seq(Command) /\ Len(outq') = Len(outq) - k
        /\ \A m \in 1..(Len(outq) - k) : outq'[m] = outq[m + k]
    BY <1>1, <1>4, <1>5, SubSeqProperties DEF SessTypes
  <2>2. DOMAIN outq' = 1..(Len(outq) - k)
    BY <2>1, LenProperties
  <2> QED
    BY <2>1, <2>2, <1>5
<1> HIDE DEF batch
<1>8. \A i \in StreamIds : i \in Answered(batch) <=> outq[k] = Cmd("barrier", i)
  <2> SUFFICES ASSUME NEW i \in StreamIds
               PROVE  i \in Answered(batch) <=> outq[k] = Cmd("barrier", i)
    OBVIOUS
  <2>1. i \in Answered(batch) <=> \E m \in 1..k : batch[m].kind = "barrier" /\ batch[m].id = i
    BY <1>6 DEF Answered
  <2>2. ASSUME NEW m \in 1..k, batch[m].kind = "barrier" PROVE m = k
    BY <2>2, <1>1, <1>5, <1>6
  <2>3. outq[k] = Cmd("barrier", i) <=> outq[k].kind = "barrier" /\ outq[k].id = i
    BY <1>5 DEF Cmd, Command
  <2> QED
    BY <2>1, <2>2, <2>3, <1>5, <1>6
<1>9. ASSUME NEW i \in StreamIds
      PROVE  /\ Carried(batch, i) \in Seq({"data", "fin"})
             /\ wire'[i] = wire[i] \o Carried(batch, i)
             /\ wire[i] \in Seq({"data", "fin"})
  BY <1>1, <1>4, <1>6, CarriedFrames DEF batch, SessTypes
<1>10. SessTypes'
  <2>1. wire' \in [StreamIds -> Seq({"data", "fin"})]
    <3>1. ASSUME NEW i \in StreamIds PROVE wire'[i] \in Seq({"data", "fin"})
      BY <1>9, ConcatProperties
    <3> QED
      BY <3>1, <1>1
  <2>2. barrier' \in [StreamIds -> {"idle", "waiting"}] /\ dirty' \subseteq StreamIds
    BY <1>1, <1>4 DEF SessTypes
  <2>3. Len(outq') <= OutCapacity
    BY <1>4, <1>5, <1>7, SessConstants DEF SessTypes
  <2> QED
    BY <1>2, <1>3, <1>4, <1>7, <2>1, <2>2, <2>3 DEF SessTypes
<1>11. ASSUME NEW i \in StreamIds PROVE ReadSide(i)' /\ CloseSide(i)' /\ FlushSide(i)'
  <2>0. ReadSide(i) /\ CloseSide(i) /\ FlushSide(i)
    BY DEF SessIInv
  <2>1. ReadSide(i)'
    BY <2>0, <1>2, ReadSideKept
  <2> DEFINE w == wire[i]
             c == Carried(batch, i)
  <2>2. /\ Len(w) \in Nat /\ Len(c) \in Nat /\ Len(wire'[i]) = Len(w) + Len(c)
        /\ DOMAIN w = 1..Len(w) /\ DOMAIN c = 1..Len(c)
        /\ DOMAIN wire'[i] = 1..(Len(w) + Len(c))
        /\ \A m \in 1..Len(w) : wire'[i][m] = w[m]
        /\ \A m \in (Len(w) + 1)..(Len(w) + Len(c)) : wire'[i][m] = c[m - Len(w)]
    <3>1. w \in Seq({"data", "fin"}) /\ c \in Seq({"data", "fin"}) /\ wire'[i] = w \o c
      BY <1>9
    <3> HIDE DEF w, c
    <3>2. /\ Len(w) \in Nat /\ Len(c) \in Nat /\ DOMAIN w = 1..Len(w) /\ DOMAIN c = 1..Len(c)
      BY <3>1, LenProperties
    <3>3. /\ wire'[i] \in Seq({"data", "fin"}) /\ Len(wire'[i]) = Len(w) + Len(c)
          /\ \A m \in 1..Len(w) : wire'[i][m] = w[m]
          /\ \A m \in (Len(w) + 1)..(Len(w) + Len(c)) : wire'[i][m] = c[m - Len(w)]
      BY <3>1, <3>2, ConcatProperties
    <3> QED
      BY <3>2, <3>3, LenProperties
  <2>3. /\ (\A m \in 1..k : ~FrameOf(outq[m], i)) => c = <<>>
        /\ \A m \in DOMAIN c : c[m] = "fin" => \E j \in 1..k : outq[j] = Cmd("fin", i)
        /\ \A m \in DOMAIN c : c[m] = "fin" => m = Len(c)
    <3>1. FinLast(batch, i)
      <4>1. FinLast(outq, i)
        BY <2>0 DEF CloseSide
      <4> QED
        BY <4>1, <1>5, <1>6 DEF FinLast
    <3> QED
      BY <3>1, <1>6, CarriedFrames
  <2> HIDE DEF w, c
  <2>4. NoFrames(i) => NoFrames(i)' /\ c = <<>>
    BY <2>3, <1>5, <1>7 DEF NoFrames
  <2>5. NoFin(i) => NoFin(i)'
    <3> SUFFICES ASSUME NoFin(i) PROVE NoFin(i)'
      OBVIOUS
    <3>1. \A m \in DOMAIN outq' : outq'[m] # Cmd("fin", i)
      BY <1>7 DEF NoFin
    <3>2. \A m \in DOMAIN c : c[m] # "fin"
      BY <2>3, <1>5 DEF NoFin
    <3>3. \A m \in DOMAIN w : w[m] # "fin"
      BY DEF NoFin, w
    <3>4. ASSUME NEW m \in DOMAIN wire'[i] PROVE wire'[i][m] # "fin"
      <4>1. CASE m \in 1..Len(w)
        BY <4>1, <2>2, <3>3
      <4>2. CASE m \in (Len(w) + 1)..(Len(w) + Len(c))
        <5>1. m - Len(w) \in 1..Len(c)
          BY <4>2, <2>2
        <5> QED
          BY <4>2, <5>1, <2>2, <3>2
      <4> QED
        BY <4>1, <4>2, <2>2
    <3> QED
      BY <3>1, <3>4 DEF NoFin
  <2>6. FinLast(outq, i)'
    <3>1. FinLast(outq, i)
      BY <2>0 DEF CloseSide
    <3> SUFFICES ASSUME NEW j \in DOMAIN outq', NEW l \in DOMAIN outq',
                        outq'[j] = Cmd("fin", i), FrameOf(outq'[l], i)
                 PROVE  l <= j
      BY DEF FinLast
    <3>2. l + k <= j + k
      BY <3>1, <1>7 DEF FinLast
    <3> QED
      BY <3>2, <1>5, <1>7
  <2>7. ASSUME NEW m \in DOMAIN wire'[i], wire'[i][m] = "fin"
        PROVE  m = Len(wire'[i]) /\ NoFrames(i)'
    <3>1. CASE m \in 1..Len(w)
      <4>1. w[m] = "fin" /\ m \in DOMAIN w
        BY <3>1, <2>2, <2>7
      <4>2. m = Len(w) /\ NoFrames(i)
        BY <4>1, <2>0 DEF CloseSide, w
      <4>3. c = <<>> /\ NoFrames(i)'
        BY <4>2, <2>4
      <4>4. Len(c) = 0
        BY <4>3, EmptySeq
      <4> QED
        BY <4>2, <4>3, <4>4, <2>2
    <3>2. CASE m \in (Len(w) + 1)..(Len(w) + Len(c))
      <4>1. m - Len(w) \in DOMAIN c /\ c[m - Len(w)] = "fin"
        BY <3>2, <2>2, <2>7
      <4>2. m - Len(w) = Len(c)
        BY <4>1, <2>3
      <4>3. PICK j \in 1..k : outq[j] = Cmd("fin", i)
        BY <4>1, <2>3
      <4>4. ASSUME NEW l \in DOMAIN outq', FrameOf(outq'[l], i) PROVE FALSE
        <5>1. l + k \in DOMAIN outq /\ FrameOf(outq[l + k], i) /\ j \in DOMAIN outq
          BY <4>4, <1>5, <1>7
        <5>2. l + k <= j
          BY <5>1, <4>3, <2>0 DEF CloseSide, FinLast
        <5> QED
          BY <5>2, <4>4, <1>5, <1>7
      <4> QED
        BY <3>2, <4>2, <4>4, <2>2 DEF NoFrames
    <3> QED
      BY <3>1, <3>2, <2>2
  <2>8. CloseSide(i)'
    <3>1. task[i] = "none" => wire'[i] = <<>> /\ \A m \in DOMAIN outq' : outq'[m].id # i
      <4> SUFFICES ASSUME task[i] = "none"
                   PROVE  wire'[i] = <<>> /\ \A m \in DOMAIN outq' : outq'[m].id # i
        OBVIOUS
      <4>1. w = <<>> /\ \A m \in DOMAIN outq : outq[m].id # i
        BY <2>0 DEF CloseSide, w
      <4>2. c = <<>>
        BY <4>1, <2>3, <1>5 DEF FrameOf
      <4>3. Len(wire'[i]) = 0
        BY <4>1, <4>2, <2>2, EmptySeq
      <4>4. wire'[i] \in Seq({"data", "fin"})
        BY <1>10 DEF SessTypes
      <4>5. wire'[i] = <<>>
        BY <4>3, <4>4, EmptySeq
      <4> QED
        BY <4>1, <4>5, <1>7
    <3> QED
      BY <3>1, <2>0, <2>5, <2>6, <2>7, <1>2, <1>3 DEF CloseSide
  <2>9. FlushSide(i)'
    <3> SUFFICES ASSUME task[i] = "running"
                 PROVE  /\ \A l \in DOMAIN outq' : outq'[l] = Cmd("barrier", i) =>
                             /\ barrier'[i] = "waiting"
                             /\ \A n \in DOMAIN outq' : outq'[n] = Cmd("barrier", i) => n = l
                             /\ i \notin behind =>
                                   \A j \in DOMAIN outq' : FrameOf(outq'[j], i) => j < l
                        /\ i \notin dirty' /\ i \notin behind => NoFrames(i)'
      BY <2>0, <1>1, <1>2, <1>3 DEF FlushSide
    <3>1. ASSUME NEW l \in DOMAIN outq', outq'[l] = Cmd("barrier", i)
          PROVE  /\ barrier'[i] = "waiting"
                 /\ \A n \in DOMAIN outq' : outq'[n] = Cmd("barrier", i) => n = l
                 /\ i \notin behind => \A j \in DOMAIN outq' : FrameOf(outq'[j], i) => j < l
      <4>1. l + k \in DOMAIN outq /\ outq[l + k] = Cmd("barrier", i)
        BY <3>1, <1>7
      <4>2. /\ barrier[i] = "waiting"
            /\ \A n \in DOMAIN outq : outq[n] = Cmd("barrier", i) => n = l + k
            /\ i \notin behind => \A j \in DOMAIN outq : FrameOf(outq[j], i) => j < l + k
        BY <4>1, <2>0 DEF FlushSide
      <4>3. outq[k] # Cmd("barrier", i)
        BY <4>2, <3>1, <1>5, <1>7
      <4>4. barrier'[i] = "waiting"
        BY <4>2, <4>3, <1>1, <1>8 DEF batch
      <4>5. ASSUME NEW n \in DOMAIN outq', outq'[n] = Cmd("barrier", i) PROVE n = l
        <5>1. n + k = l + k
          BY <4>2, <4>5, <1>7
        <5> QED
          BY <5>1, <1>5, <1>7
      <4>6. ASSUME i \notin behind, NEW j \in DOMAIN outq', FrameOf(outq'[j], i) PROVE j < l
        <5>1. j + k < l + k
          BY <4>2, <4>6, <1>7
        <5> QED
          BY <5>1, <1>5, <1>7
      <4> QED
        BY <4>4, <4>5, <4>6
    <3>2. ASSUME i \notin dirty', i \notin behind PROVE NoFrames(i)'
      <4>1. CASE i \notin dirty
        BY <4>1, <3>2, <2>0, <2>4 DEF FlushSide
      <4>2. CASE i \in dirty
        <5>1. outq[k] = Cmd("barrier", i)
          BY <4>2, <3>2, <1>1, <1>8 DEF batch
        <5>2. \A j \in DOMAIN outq : FrameOf(outq[j], i) => j < k
          BY <5>1, <3>2, <2>0 DEF FlushSide
        <5>3. ASSUME NEW j \in DOMAIN outq', FrameOf(outq'[j], i) PROVE FALSE
          <6>1. j + k < k
            BY <5>2, <5>3, <1>7
          <6> QED
            BY <6>1, <1>5, <1>7
        <5> QED
          BY <5>3 DEF NoFrames
      <4> QED
        BY <4>1, <4>2
    <3> QED
      BY <3>1, <3>2
  <2> QED
    BY <2>1, <2>8, <2>9
<1> QED
  BY <1>10, <1>11 DEF SessIInv

SessSafetySpec == SessInit /\ [][SessNext]_sessVars

(* StreamPromise for any streams, limits, queue lengths and numbers of payloads:
   nothing of a stream follows its FIN on the wire, whether the stream or its drop
   sent it; a flush that completed, and one that was skipped, means that the frames
   are out; and a read that reports the end has returned every payload, with the
   two exceptions the property names. *)
THEOREM StreamPromiseKept == SessSafetySpec => []StreamPromise
<1>1. SessIInv /\ [SessNext]_sessVars => SessIInv'
  <2> SUFFICES ASSUME SessIInv, [SessNext]_sessVars PROVE SessIInv'
    OBVIOUS
  <2>1. CASE UNCHANGED sessVars
    <3>1. SessTypes'
      BY <2>1 DEF SessIInv, SessTypes, sessVars
    <3>2. ASSUME NEW k \in StreamIds PROVE ReadSide(k)' /\ CloseSide(k)' /\ FlushSide(k)'
      BY <2>1 DEF SessIInv, ReadSide, CloseSide, FlushSide, NoFin, NoFrames, FinLast, sessVars
    <3> QED
      BY <3>1, <3>2 DEF SessIInv
  <2>2. ASSUME NEW i \in StreamIds,
               Syn(i) \/ Psh(i) \/ Fin(i) \/ Evict(i) \/ TaskStep(i) \/ EndTask(i) \/ ForwardClose(i)
        PROVE  SessIInv'
    BY <2>2, SynKeeps, ReaderKeeps, FrameQueuedKeeps, FlushKeeps, EndTaskKeeps, ForwardCloseKeeps
       DEF TaskStep
  <2>3. CASE ReadEnds \/ Joined
    BY <2>3, ReadingEndsKeeps
  <2> QED
    BY <2>1, <2>2, <2>3, WriteBatchKeeps, EndsClear DEF SessNext
<1>2. SessIInv => StreamPromise
  <2> SUFFICES ASSUME SessIInv PROVE StreamPromise
    OBVIOUS
  <2>1. SessTypeOK
    <3>1. ASSUME NEW i \in StreamIds
          PROVE  inbound[i] \in 0..MaxPayloads[i] /\ sent[i] \in 0..MaxPayloads[i]
      <4>1. /\ inbound[i] \in Nat /\ sent[i] \in Nat /\ MaxPayloads[i] \in Nat
            /\ inbound[i] <= sent[i] /\ sent[i] <= MaxPayloads[i]
        BY SessConstants DEF SessIInv, SessTypes, ReadSide
      <4> QED
        BY <4>1
    <3> QED
      BY <3>1 DEF SessIInv, SessTypes, SessTypeOK
  <2>2. NothingAfterFin
    BY DEF SessIInv, CloseSide, NothingAfterFin
  <2>3. FlushMeansWritten
    BY DEF SessIInv, FlushSide, NoFrames, FrameOf, FlushMeansWritten, Running
  <2>4. DataBeforeEndUnlessLate
    BY DEF SessIInv, ReadSide, DataBeforeEndUnlessLate, Running
  <2> QED
    BY <2>1, <2>2, <2>3, <2>4 DEF StreamPromise
<1> QED
  BY <1>1, <1>2, SessInitial, PTL DEF SessSafetySpec

-----------------------------------------------------------------------------
(* AnyTLS.  The invariant says where the end of each stream is: on the way in
   once and behind everything else, on the way out in the channel or on the wire;
   that the maps file a stream under its own id, and that an id is used again
   only for streams whose peer has finished; and which handles close() finds. *)

(* A frame for the peer, and the states of a handler. *)
OutItem == Opens \X {"data", "fin"}
HandlerStates == {"none", "running", "finished", "cleaned", "ended"}

AnyTypes ==
    /\ settings \in BOOLEAN /\ anyClosed \in BOOLEAN /\ pushed \in Nat
    /\ opened \in 0..MaxOpens /\ owner \in [Opens -> AnyIds]
    /\ streams \in [AnyIds -> 0..opened] /\ tasks \in [AnyIds -> 0..opened]
    /\ handler \in [Opens -> HandlerStates]
    /\ \A o \in Opens : handler[o] = "none" <=> o > opened
    /\ aborted \subseteq 1..opened /\ readEof \subseteq 1..opened /\ shut \subseteq 1..opened
    /\ peerFin \subseteq 1..opened /\ afterClose \subseteq 1..opened
    /\ recv \in {"frames", "sending", "ended", "over"}
    /\ outTask \in {"idle", "forgetting", "stopped"}

(* The maps hold a stream under the id the peer gave it. *)
FiledById ==
    \A i \in AnyIds : /\ streams[i] # NoOpen => owner[streams[i]] = i
                      /\ tasks[i] # NoOpen => owner[tasks[i]] = i

(* A finished stream is not in the map any more, and an id is used again only
   when the streams that had it are finished. *)
PeerOrder ==
    /\ \A o \in peerFin : streams[owner[o]] # o
    /\ \A o, p \in 1..opened : o < p /\ owner[o] = owner[p] => o \in peerFin

(* The end of input is on its way once, behind everything else. *)
InputOrder ==
    /\ chan \in [Opens -> Seq({"data", "eof"})]
    /\ \A o \in Opens : Len(chan[o]) <= InCapacity
    /\ recv = "sending" => /\ sending \in (1..opened) \X {"data", "eof"}
                           /\ sending[2] = "data" <=> sending[1] \notin peerFin
    /\ \A o \in Opens : \A k \in DOMAIN chan[o] :
          chan[o][k] = "eof" =>
             k = Len(chan[o]) /\ o \in peerFin /\ (recv = "sending" => sending[1] # o)
    /\ \A o \in readEof : chan[o] = <<>> /\ o \in peerFin /\ (recv = "sending" => sending[1] # o)

(* The FIN of a stream is the last of it in a sequence. *)
FinsLast(q) == \A j, k \in DOMAIN q : q[j][2] = "fin" /\ q[k][1] = q[j][1] => k <= j

(* A FIN in the channel or on the wire is that of a stream that is shut; what is
   on the wire came before what is in the channel. *)
OutputOrder ==
    /\ outgoing \in Seq(OutItem) /\ anyWire \in Seq(OutItem) /\ Len(outgoing) <= AnyOutCap
    /\ FinsLast(outgoing) /\ FinsLast(anyWire)
    /\ \A k \in DOMAIN outgoing : outgoing[k][2] = "fin" => outgoing[k][1] \in shut
    /\ \A j \in DOMAIN anyWire : anyWire[j][2] = "fin" =>
          anyWire[j][1] \in shut /\ \A k \in DOMAIN outgoing : outgoing[k][1] # anyWire[j][1]
    /\ outTask = "forgetting" => finOut \in shut

(* The handles of the tasks. *)
OnlyOne(o) == \A p \in Opens \ {o} : p <= opened => owner[p] # owner[o]
HandlesKept ==
    /\ ~anyClosed => aborted = {}
    /\ recv = "over" => anyClosed
    /\ ~anyClosed => \A o \in Opens : handler[o] \in {"cleaned", "ended"} =>
                        \A i \in AnyIds : tasks[i] # o
    /\ ~anyClosed => \A o \in Alive : OnlyOne(o) => tasks[owner[o]] = o
    /\ anyClosed => \A o \in Alive : o \in aborted \/ o \in afterClose \/ ~OnlyOne(o)

AnyIInv ==
    /\ AnyTypes /\ FiledById /\ PeerOrder /\ InputOrder /\ OutputOrder /\ HandlesKept
    /\ NothingLeftBehind /\ ReachableUntilFin
(* What Append and Tail do to a sequence. *)
LEMMA AppendTells ==
  ASSUME NEW S, NEW q \in Seq(S), NEW x \in S
  PROVE  /\ Append(q, x) \in Seq(S) /\ Len(Append(q, x)) = Len(q) + 1 /\ Len(q) \in Nat
         /\ DOMAIN q = 1..Len(q) /\ DOMAIN Append(q, x) = 1..(Len(q) + 1)
         /\ \A k \in 1..Len(q) : Append(q, x)[k] = q[k] /\ q[k] \in S
         /\ Append(q, x)[Len(q) + 1] = x
  BY AppendProperties, LenProperties, ElementOfSeq

LEMMA TailShifts ==
  ASSUME NEW S, NEW q \in Seq(S), q # <<>>
  PROVE  /\ Tail(q) \in Seq(S) /\ Len(Tail(q)) = Len(q) - 1 /\ Len(q) \in Nat \ {0}
         /\ DOMAIN q = 1..Len(q) /\ DOMAIN Tail(q) = 1..(Len(q) - 1)
         /\ \A k \in 1..(Len(q) - 1) : Tail(q)[k] = q[k + 1]
         /\ Head(q) = q[1] /\ Head(q) \in S
  BY HeadTailProperties, LenProperties, ElementOfSeq, EmptySeq

LEMMA AnyInitial == AnyInit => AnyIInv
<1> SUFFICES ASSUME AnyInit PROVE AnyIInv
  OBVIOUS
<1>1. AnyTypes
  <2>1. owner \in [Opens -> AnyIds] /\ 0 \in 0..MaxOpens /\ 0..0 = {0} /\ 0 \in Nat
    BY AnyConstants DEF AnyInit
  <2>2. \A o \in Opens : handler[o] = "none" /\ o > 0
    BY AnyConstants DEF AnyInit, Opens
  <2>3. /\ streams \in [AnyIds -> 0..opened] /\ tasks \in [AnyIds -> 0..opened]
        /\ handler \in [Opens -> HandlerStates]
    BY <2>1 DEF AnyInit, HandlerStates, NoOpen
  <2> QED
    BY <2>1, <2>2, <2>3 DEF AnyInit, AnyTypes
<1>2. FiledById /\ PeerOrder
  BY AnyConstants DEF AnyInit, FiledById, PeerOrder
<1>3. InputOrder
  BY AnyConstants, EmptySeq DEF AnyInit, InputOrder
<1>4. OutputOrder
  BY AnyConstants, EmptySeq DEF AnyInit, OutputOrder, FinsLast
<1>5. HandlesKept /\ NothingLeftBehind /\ ReachableUntilFin
  BY AnyConstants DEF AnyInit, HandlesKept, NothingLeftBehind, ReachableUntilFin, Alive, NoOpen
<1> QED
  BY <1>1, <1>2, <1>3, <1>4, <1>5 DEF AnyIInv

(* The types. *)
LEMMA AnyTypesKeep == ASSUME AnyIInv, AnyNext PROVE AnyTypes'
<1>0. AnyTypes /\ MaxOpens \in Nat
  BY AnyConstants DEF AnyIInv
<1>1. ASSUME AnySettings PROVE AnyTypes'
  BY <1>0, <1>1 DEF AnySettings, AnyTypes, HandlerStates, Opens, NoOpen, Alive
<1>2. ASSUME AnyDeliver PROVE AnyTypes'
  BY <1>0, <1>2 DEF AnyDeliver, rest, AnyTypes, HandlerStates, Opens, NoOpen, Alive
<1>3. ASSUME AnyRecvEnds PROVE AnyTypes'
  BY <1>0, <1>3 DEF AnyRecvEnds, rest, AnyTypes, HandlerStates, Opens, NoOpen, Alive
<1>4. ASSUME AnySend PROVE AnyTypes'
  BY <1>0, <1>4 DEF AnySend, wireRest, AnyTypes, HandlerStates, Opens, NoOpen, Alive
<1>5. ASSUME AnyForget PROVE AnyTypes'
  <2>0. /\ 0 \in 0..opened /\ streams \in [AnyIds -> 0..opened] /\ opened' = opened
        /\ streams' = [streams EXCEPT ![owner[finOut]] = 0]
    BY <1>0, <1>5 DEF AnyForget, wireRest, AnyTypes, NoOpen
  <2>1. streams' \in [AnyIds -> 0..opened']
    BY <2>0
  <2> QED
    BY <1>0, <1>5, <2>1 DEF AnyForget, wireRest, AnyTypes, NoOpen
<1>6. ASSUME AnyRunEnds PROVE AnyTypes'
  <2>1. {tasks[i] : i \in AnyIds} \ {NoOpen} \subseteq 1..opened
    BY <1>0 DEF AnyTypes, NoOpen
  <2>2. 0 \in 0..opened
    BY <1>0 DEF AnyTypes
  <2>3. \/ UNCHANGED <<anyClosed, aborted, tasks, streams>>
        \/ /\ anyClosed' = TRUE
           /\ aborted' = aborted \cup ({tasks[i] : i \in AnyIds} \ {NoOpen})
           /\ tasks' = [i \in AnyIds |-> 0] /\ streams' = [i \in AnyIds |-> 0]
    BY <1>6 DEF AnyRunEnds, CloseNow, NoOpen
  <2>4. aborted \subseteq 1..opened
    BY <1>0 DEF AnyTypes
  <2>5. aborted' \subseteq 1..opened
    BY <2>1, <2>3, <2>4
  <2>6. /\ streams' \in [AnyIds -> 0..opened] /\ tasks' \in [AnyIds -> 0..opened]
        /\ anyClosed' \in BOOLEAN
    BY <1>0, <2>2, <2>3 DEF AnyTypes
  <2> QED
    BY <1>0, <1>6, <2>5, <2>6 DEF AnyRunEnds, CloseNow, AnyTypes
<1>7. ASSUME NEW i \in AnyIds, AnySyn(i) PROVE AnyTypes'
  <2>1. CASE ~settings
    BY <1>0, <1>7, <2>1 DEF AnySyn, AnyTypes
  <2>2. CASE settings
    <3> DEFINE n == opened + 1
    <3>1. /\ n \in Opens /\ n \in 0..n /\ 0..opened \subseteq 0..n /\ 1..opened \subseteq 1..n
          /\ n \in 0..MaxOpens /\ n \in 1..n
      BY <1>0, <1>7 DEF AnySyn, AnyTypes, Opens
    <3>2. /\ opened' = n /\ streams' = [streams EXCEPT ![i] = n] /\ tasks' = [tasks EXCEPT ![i] = n]
          /\ handler' = [handler EXCEPT ![n] = "running"]
          /\ afterClose' = IF anyClosed THEN afterClose \cup {n} ELSE afterClose
          /\ UNCHANGED <<recv, settings, owner, aborted, readEof, shut, outTask, anyClosed,
                         peerFin, pushed>>
      BY <1>7, <2>2 DEF AnySyn
    <3> HIDE DEF n
    <3>3. streams' \in [AnyIds -> 0..n] /\ tasks' \in [AnyIds -> 0..n]
      BY <1>0, <3>1, <3>2 DEF AnyTypes
    <3>4. /\ handler' \in [Opens -> HandlerStates]
          /\ \A o \in Opens : handler'[o] = "none" <=> o > n
      BY <1>0, <3>1, <3>2 DEF AnyTypes, HandlerStates, Opens, n
    <3>5. /\ afterClose' \subseteq 1..n /\ aborted' \subseteq 1..n /\ readEof' \subseteq 1..n
          /\ shut' \subseteq 1..n /\ peerFin' \subseteq 1..n
      BY <1>0, <3>1, <3>2 DEF AnyTypes
    <3> QED
      BY <1>0, <3>1, <3>2, <3>3, <3>4, <3>5 DEF AnyTypes
  <2> QED
    BY <2>1, <2>2
<1>8. ASSUME NEW i \in AnyIds, AnyPsh(i) PROVE AnyTypes'
  <2>0. /\ streams[i] \in 1..opened /\ pushed' \in Nat /\ 0 \in 0..opened
        /\ streams' = streams \/ streams' = [streams EXCEPT ![i] = 0]
        /\ peerFin' = peerFin \/ peerFin' = peerFin \cup {streams[i]}
    BY <1>0, <1>8 DEF AnyPsh, rest, AnyTypes, NoOpen
  <2>0a. streams \in [AnyIds -> 0..opened] /\ peerFin \subseteq 1..opened
    BY <1>0 DEF AnyTypes
  <2>0b. streams' \in [AnyIds -> 0..opened]
    BY <2>0, <2>0a
  <2>1. streams' \in [AnyIds -> 0..opened] /\ peerFin' \subseteq 1..opened /\ pushed' \in Nat
    BY <2>0, <2>0a, <2>0b
  <2> QED
    BY <1>0, <1>8, <2>1 DEF AnyPsh, rest, AnyTypes
<1>9. ASSUME NEW i \in AnyIds, AnyFin(i) PROVE AnyTypes'
  <2>0. /\ streams[i] \in 1..opened /\ pushed' \in Nat /\ 0 \in 0..opened
        /\ streams' = streams \/ streams' = [streams EXCEPT ![i] = 0]
        /\ peerFin' = peerFin \/ peerFin' = peerFin \cup {streams[i]}
    BY <1>0, <1>9 DEF AnyFin, rest, AnyTypes, NoOpen
  <2>0a. streams \in [AnyIds -> 0..opened] /\ peerFin \subseteq 1..opened
    BY <1>0 DEF AnyTypes
  <2>0b. streams' \in [AnyIds -> 0..opened]
    BY <2>0, <2>0a
  <2>1. streams' \in [AnyIds -> 0..opened] /\ peerFin' \subseteq 1..opened /\ pushed' \in Nat
    BY <2>0, <2>0a, <2>0b
  <2> QED
    BY <1>0, <1>9, <2>1 DEF AnyFin, rest, AnyTypes
<1>10. ASSUME NEW i \in AnyIds, AnyFinUnknown(i) PROVE AnyTypes'
  BY <1>0, <1>10 DEF AnyFinUnknown, rest, AnyTypes, HandlerStates, Opens, NoOpen, Alive
<1>11. ASSUME NEW o \in Opens, AnyRead(o) PROVE AnyTypes'
  BY <1>0, <1>11 DEF AnyRead, AnyTypes, HandlerStates, Opens, NoOpen, Alive
<1>12. ASSUME NEW o \in Opens, AnyWrite(o) PROVE AnyTypes'
  BY <1>0, <1>12 DEF AnyWrite, outRest, AnyTypes, HandlerStates, Opens, NoOpen, Alive
<1>13. ASSUME NEW o \in Opens, AnyShutdown(o) PROVE AnyTypes'
  <2>1. o \in 1..opened /\ shut' = shut \cup {o}
    BY <1>0, <1>13 DEF AnyShutdown, outRest, AnyTypes, Opens, Alive
  <2> QED
    BY <1>0, <1>13, <2>1 DEF AnyShutdown, outRest, AnyTypes
<1>14. ASSUME NEW o \in Opens, AnyFinish(o) PROVE AnyTypes'
  <2>1. handler' = [handler EXCEPT ![o] = "finished"] /\ handler[o] # "none"
    BY <1>14 DEF AnyFinish, outRest, Drop, Alive
  <2>2. o \in 1..opened /\ handler' \in [Opens -> HandlerStates]
    BY <1>0, <2>1 DEF AnyTypes, HandlerStates, Opens
  <2>3. \A p \in Opens : handler'[p] = "none" <=> p > opened
    BY <1>0, <2>1 DEF AnyTypes
  <2>4. /\ shut' \in {shut, shut \cup {o}} /\ opened' = opened
        /\ \A j \in AnyIds : streams'[j] \in {streams[j], 0} /\ tasks'[j] \in {tasks[j], 0}
        /\ streams' \in [AnyIds -> 0..opened] /\ tasks' \in [AnyIds -> 0..opened]
    BY <1>0, <1>14 DEF AnyFinish, outRest, Drop, AnyTypes, NoOpen
  <2> QED
    BY <1>0, <1>14, <2>1, <2>2, <2>3, <2>4 DEF AnyFinish, outRest, Drop, AnyTypes
<1>15. ASSUME NEW o \in Opens, AnyAborts(o) PROVE AnyTypes'
  <2>1. handler' = [handler EXCEPT ![o] = "ended"] /\ shut' \subseteq 1..opened
    BY <1>0, <1>15 DEF AnyAborts, outRest, Drop, AnyTypes, Opens, Alive
  <2>2. handler[o] # "none" /\ handler' \in [Opens -> HandlerStates]
    BY <1>0, <1>15, <2>1 DEF AnyAborts, AnyTypes, HandlerStates
  <2>3. \A p \in Opens : handler'[p] = "none" <=> p > opened
    BY <1>0, <2>1, <2>2 DEF AnyTypes
  <2> QED
    BY <1>0, <1>15, <2>1, <2>2, <2>3 DEF AnyAborts, outRest, Drop, AnyTypes
<1>16. ASSUME NEW o \in Opens, AnyCleanTask(o) PROVE AnyTypes'
  <2>1. handler' = [handler EXCEPT ![o] = "cleaned"] /\ handler[o] # "none"
    BY <1>16 DEF AnyCleanTask, cleanRest, Alive
  <2>2. o \in 1..opened /\ handler' \in [Opens -> HandlerStates]
    BY <1>0, <2>1 DEF AnyTypes, HandlerStates, Opens
  <2>3. \A p \in Opens : handler'[p] = "none" <=> p > opened
    BY <1>0, <2>1 DEF AnyTypes
  <2>4. /\ shut' \in {shut, shut \cup {o}} /\ opened' = opened
        /\ \A j \in AnyIds : streams'[j] \in {streams[j], 0} /\ tasks'[j] \in {tasks[j], 0}
        /\ streams' \in [AnyIds -> 0..opened] /\ tasks' \in [AnyIds -> 0..opened]
    BY <1>0, <1>16 DEF AnyCleanTask, cleanRest, AnyTypes, NoOpen
  <2> QED
    BY <1>0, <1>16, <2>1, <2>2, <2>3, <2>4 DEF AnyCleanTask, cleanRest, AnyTypes
<1>17. ASSUME NEW o \in Opens, AnyCleanStream(o) PROVE AnyTypes'
  <2>1. handler' = [handler EXCEPT ![o] = "ended"] /\ handler[o] # "none"
    BY <1>17 DEF AnyCleanStream, cleanRest, Alive
  <2>2. o \in 1..opened /\ handler' \in [Opens -> HandlerStates]
    BY <1>0, <2>1 DEF AnyTypes, HandlerStates, Opens
  <2>3. \A p \in Opens : handler'[p] = "none" <=> p > opened
    BY <1>0, <2>1 DEF AnyTypes
  <2>4. /\ shut' \in {shut, shut \cup {o}} /\ opened' = opened
        /\ \A j \in AnyIds : streams'[j] \in {streams[j], 0} /\ tasks'[j] \in {tasks[j], 0}
        /\ streams' \in [AnyIds -> 0..opened] /\ tasks' \in [AnyIds -> 0..opened]
    BY <1>0, <1>17 DEF AnyCleanStream, cleanRest, AnyTypes, NoOpen
  <2> QED
    BY <1>0, <1>17, <2>1, <2>2, <2>3, <2>4 DEF AnyCleanStream, cleanRest, AnyTypes
<1>18. ASSUME NEW o \in Opens, AnyHandlerCloses(o) PROVE AnyTypes'
  <2>1. {tasks[i] : i \in AnyIds} \ {NoOpen} \subseteq 1..opened
    BY <1>0 DEF AnyTypes, NoOpen
  <2>2. 0 \in 0..opened
    BY <1>0 DEF AnyTypes
  <2>3. \/ UNCHANGED <<anyClosed, aborted, tasks, streams>>
        \/ /\ anyClosed' = TRUE
           /\ aborted' = aborted \cup ({tasks[i] : i \in AnyIds} \ {NoOpen})
           /\ tasks' = [i \in AnyIds |-> 0] /\ streams' = [i \in AnyIds |-> 0]
    BY <1>18 DEF AnyHandlerCloses, CloseNow, NoOpen
  <2>4. aborted \subseteq 1..opened
    BY <1>0 DEF AnyTypes
  <2>5. aborted' \subseteq 1..opened
    BY <2>1, <2>3, <2>4
  <2>6. /\ streams' \in [AnyIds -> 0..opened] /\ tasks' \in [AnyIds -> 0..opened]
        /\ anyClosed' \in BOOLEAN
    BY <1>0, <2>2, <2>3 DEF AnyTypes
  <2> QED
    BY <1>0, <1>18, <2>5, <2>6 DEF AnyHandlerCloses, CloseNow, AnyTypes
<1> QED
  BY <1>1, <1>2, <1>3, <1>4, <1>5, <1>6, <1>7, <1>8, <1>9,
     <1>10, <1>11, <1>12, <1>13, <1>14, <1>15, <1>16, <1>17, <1>18 DEF AnyNext

(* The keys of the maps. *)
LEMMA FiledKeeps == ASSUME AnyIInv, AnyNext PROVE FiledById'
<1>0. AnyTypes /\ FiledById /\ MaxOpens \in Nat
  BY AnyConstants DEF AnyIInv
<1>1. ASSUME AnySettings PROVE FiledById'
  BY <1>0, <1>1 DEF AnySettings, FiledById
<1>2. ASSUME AnyDeliver PROVE FiledById'
  BY <1>0, <1>2 DEF AnyDeliver, rest, FiledById
<1>3. ASSUME AnyRecvEnds PROVE FiledById'
  BY <1>0, <1>3 DEF AnyRecvEnds, rest, FiledById
<1>4. ASSUME AnySend PROVE FiledById'
  BY <1>0, <1>4 DEF AnySend, wireRest, FiledById
<1>5. ASSUME AnyForget PROVE FiledById'
  <2>1. \A j \in AnyIds : streams'[j] \in {streams[j], NoOpen} /\ tasks'[j] \in {tasks[j], NoOpen}
    BY <1>0, <1>5 DEF AnyForget, wireRest, AnyTypes
  <2> QED
    BY <1>0, <1>5, <2>1 DEF AnyForget, wireRest, FiledById
<1>6. ASSUME AnyRunEnds PROVE FiledById'
  <2>1. \/ UNCHANGED <<tasks, streams>>
        \/ tasks' = [j \in AnyIds |-> NoOpen] /\ streams' = [j \in AnyIds |-> NoOpen]
    BY <1>6 DEF AnyRunEnds, CloseNow
  <2> QED
    BY <1>0, <1>6, <2>1 DEF AnyRunEnds, CloseNow, FiledById
<1>7. ASSUME NEW i \in AnyIds, AnySyn(i) PROVE FiledById'
  <2>1. CASE ~settings
    BY <1>0, <1>7, <2>1 DEF AnySyn, FiledById
  <2>2. CASE settings
    <3>1. /\ streams' = [streams EXCEPT ![i] = opened + 1] /\ tasks' = [tasks EXCEPT ![i] = opened + 1]
          /\ owner' = owner /\ owner[opened + 1] = i
      BY <1>7, <2>2 DEF AnySyn
    <3> QED
      BY <1>0, <3>1 DEF AnyTypes, FiledById
  <2> QED
    BY <2>1, <2>2
<1>8. ASSUME NEW i \in AnyIds, AnyPsh(i) PROVE FiledById'
  BY <1>0, <1>8 DEF AnyPsh, rest, FiledById
<1>9. ASSUME NEW i \in AnyIds, AnyFin(i) PROVE FiledById'
  <2>1. \A j \in AnyIds : streams'[j] \in {streams[j], NoOpen} /\ tasks'[j] \in {tasks[j], NoOpen}
    BY <1>0, <1>9 DEF AnyFin, rest, AnyTypes
  <2> QED
    BY <1>0, <1>9, <2>1 DEF AnyFin, rest, FiledById
<1>10. ASSUME NEW i \in AnyIds, AnyFinUnknown(i) PROVE FiledById'
  BY <1>0, <1>10 DEF AnyFinUnknown, rest, FiledById
<1>11. ASSUME NEW o \in Opens, AnyRead(o) PROVE FiledById'
  BY <1>0, <1>11 DEF AnyRead, FiledById
<1>12. ASSUME NEW o \in Opens, AnyWrite(o) PROVE FiledById'
  BY <1>0, <1>12 DEF AnyWrite, outRest, FiledById
<1>13. ASSUME NEW o \in Opens, AnyShutdown(o) PROVE FiledById'
  BY <1>0, <1>13 DEF AnyShutdown, outRest, FiledById
<1>14. ASSUME NEW o \in Opens, AnyFinish(o) PROVE FiledById'
  BY <1>0, <1>14 DEF AnyFinish, outRest, Drop, FiledById
<1>15. ASSUME NEW o \in Opens, AnyAborts(o) PROVE FiledById'
  BY <1>0, <1>15 DEF AnyAborts, outRest, Drop, FiledById
<1>16. ASSUME NEW o \in Opens, AnyCleanTask(o) PROVE FiledById'
  <2>1. \A j \in AnyIds : streams'[j] \in {streams[j], NoOpen} /\ tasks'[j] \in {tasks[j], NoOpen}
    BY <1>0, <1>16 DEF AnyCleanTask, cleanRest, AnyTypes
  <2> QED
    BY <1>0, <1>16, <2>1 DEF AnyCleanTask, cleanRest, FiledById
<1>17. ASSUME NEW o \in Opens, AnyCleanStream(o) PROVE FiledById'
  <2>1. \A j \in AnyIds : streams'[j] \in {streams[j], NoOpen} /\ tasks'[j] \in {tasks[j], NoOpen}
    BY <1>0, <1>17 DEF AnyCleanStream, cleanRest, AnyTypes
  <2> QED
    BY <1>0, <1>17, <2>1 DEF AnyCleanStream, cleanRest, FiledById
<1>18. ASSUME NEW o \in Opens, AnyHandlerCloses(o) PROVE FiledById'
  <2>1. \/ UNCHANGED <<tasks, streams>>
        \/ tasks' = [j \in AnyIds |-> NoOpen] /\ streams' = [j \in AnyIds |-> NoOpen]
    BY <1>18 DEF AnyHandlerCloses, CloseNow
  <2> QED
    BY <1>0, <1>18, <2>1 DEF AnyHandlerCloses, CloseNow, FiledById
<1> QED
  BY <1>1, <1>2, <1>3, <1>4, <1>5, <1>6, <1>7, <1>8, <1>9,
     <1>10, <1>11, <1>12, <1>13, <1>14, <1>15, <1>16, <1>17, <1>18 DEF AnyNext

(* The order of the peer's frames for one id. *)
LEMMA PeerOrderKeeps == ASSUME AnyIInv, AnyNext PROVE PeerOrder'
<1>0. AnyTypes /\ FiledById /\ PeerOrder /\ MaxOpens \in Nat
  BY AnyConstants DEF AnyIInv
<1>1. ASSUME AnySettings PROVE PeerOrder'
  BY <1>0, <1>1 DEF AnySettings, PeerOrder
<1>2. ASSUME AnyDeliver PROVE PeerOrder'
  BY <1>0, <1>2 DEF AnyDeliver, rest, PeerOrder
<1>3. ASSUME AnyRecvEnds PROVE PeerOrder'
  BY <1>0, <1>3 DEF AnyRecvEnds, rest, PeerOrder
<1>4. ASSUME AnySend PROVE PeerOrder'
  BY <1>0, <1>4 DEF AnySend, wireRest, PeerOrder
<1>5. ASSUME AnyForget PROVE PeerOrder'
  <2>1. /\ \A j \in AnyIds : streams'[j] \in {streams[j], 0}
        /\ peerFin' = peerFin /\ opened' = opened /\ owner' = owner
    BY <1>0, <1>5 DEF AnyForget, wireRest, AnyTypes, NoOpen
  <2>2. \A p \in peerFin : p # 0 /\ owner[p] \in AnyIds
    BY <1>0 DEF AnyTypes, Opens
  <2> QED
    BY <1>0, <2>1, <2>2 DEF PeerOrder
<1>6. ASSUME AnyRunEnds PROVE PeerOrder'
  <2>1. /\ \A j \in AnyIds : streams'[j] \in {streams[j], 0}
        /\ peerFin' = peerFin /\ opened' = opened /\ owner' = owner
    BY <1>0, <1>6 DEF AnyRunEnds, CloseNow, AnyTypes, NoOpen
  <2>2. \A p \in peerFin : p # 0 /\ owner[p] \in AnyIds
    BY <1>0 DEF AnyTypes, Opens
  <2> QED
    BY <1>0, <2>1, <2>2 DEF PeerOrder
<1>7. ASSUME NEW i \in AnyIds, AnySyn(i) PROVE PeerOrder'
  <2>1. CASE ~settings
    BY <1>0, <1>7, <2>1 DEF AnySyn, PeerOrder
  <2>2. CASE settings
    <3> DEFINE n == opened + 1
    <3>1. /\ streams' = [streams EXCEPT ![i] = n] /\ opened' = n /\ peerFin' = peerFin
          /\ owner' = owner /\ owner[n] = i
          /\ \A o \in 1..opened : owner[o] = i => o \in peerFin
      BY <1>7, <2>2 DEF AnySyn, FreeSlot
    <3>2. opened \in Nat /\ peerFin \subseteq 1..opened /\ streams \in [AnyIds -> 0..opened]
          /\ \A o \in 1..opened : owner[o] \in AnyIds
      BY <1>0 DEF AnyTypes, Opens
    <3>3. \A o \in peerFin : streams'[owner[o]] # o
      BY <1>0, <3>1, <3>2 DEF PeerOrder
    <3>4. \A o, p \in 1..n : o < p /\ owner[o] = owner[p] => o \in peerFin
      <4> SUFFICES ASSUME NEW o \in 1..n, NEW p \in 1..n, o < p, owner[o] = owner[p]
                   PROVE  o \in peerFin
        OBVIOUS
      <4>1. o \in 1..opened /\ (p = n \/ p \in 1..opened)
        BY <3>2
      <4> QED
        BY <1>0, <3>1, <4>1 DEF PeerOrder
    <3> QED
      BY <3>1, <3>3, <3>4 DEF PeerOrder
  <2> QED
    BY <2>1, <2>2
<1>8. ASSUME NEW i \in AnyIds, AnyPsh(i) PROVE PeerOrder'
  BY <1>0, <1>8 DEF AnyPsh, rest, PeerOrder
<1>9. ASSUME NEW i \in AnyIds, AnyFin(i) PROVE PeerOrder'
  <2>1. /\ streams' = [streams EXCEPT ![i] = 0] /\ peerFin' = peerFin \cup {streams[i]}
        /\ opened' = opened /\ owner' = owner /\ streams[i] # 0
    BY <1>9 DEF AnyFin, rest, NoOpen
  <2>2. \A o \in 1..opened : o # 0 /\ owner[o] \in AnyIds
    BY <1>0 DEF AnyTypes, Opens
  <2>3. /\ peerFin \subseteq 1..opened /\ streams \in [AnyIds -> 0..opened]
        /\ streams[i] \in 1..opened /\ owner[streams[i]] = i
    BY <1>0, <2>1 DEF AnyTypes, FiledById, NoOpen
  <2> QED
    BY <1>0, <2>1, <2>2, <2>3 DEF PeerOrder
<1>10. ASSUME NEW i \in AnyIds, AnyFinUnknown(i) PROVE PeerOrder'
  <2>1. PICK o \in 1..opened : owner[o] = i /\ peerFin' = peerFin \cup {o}
    BY <1>10 DEF AnyFinUnknown, rest
  <2>2. streams[i] = 0 /\ streams' = streams /\ opened' = opened /\ owner' = owner /\ o # 0
    BY <1>10 DEF AnyFinUnknown, rest, NoOpen
  <2> QED
    BY <1>0, <2>1, <2>2 DEF PeerOrder
<1>11. ASSUME NEW o \in Opens, AnyRead(o) PROVE PeerOrder'
  BY <1>0, <1>11 DEF AnyRead, PeerOrder
<1>12. ASSUME NEW o \in Opens, AnyWrite(o) PROVE PeerOrder'
  BY <1>0, <1>12 DEF AnyWrite, outRest, PeerOrder
<1>13. ASSUME NEW o \in Opens, AnyShutdown(o) PROVE PeerOrder'
  BY <1>0, <1>13 DEF AnyShutdown, outRest, PeerOrder
<1>14. ASSUME NEW o \in Opens, AnyFinish(o) PROVE PeerOrder'
  BY <1>0, <1>14 DEF AnyFinish, outRest, Drop, PeerOrder
<1>15. ASSUME NEW o \in Opens, AnyAborts(o) PROVE PeerOrder'
  BY <1>0, <1>15 DEF AnyAborts, outRest, Drop, PeerOrder
<1>16. ASSUME NEW o \in Opens, AnyCleanTask(o) PROVE PeerOrder'
  BY <1>0, <1>16 DEF AnyCleanTask, cleanRest, PeerOrder
<1>17. ASSUME NEW o \in Opens, AnyCleanStream(o) PROVE PeerOrder'
  <2>1. /\ \A j \in AnyIds : streams'[j] \in {streams[j], 0}
        /\ peerFin' = peerFin /\ opened' = opened /\ owner' = owner
    BY <1>0, <1>17 DEF AnyCleanStream, cleanRest, AnyTypes, NoOpen
  <2>2. \A p \in peerFin : p # 0 /\ owner[p] \in AnyIds
    BY <1>0 DEF AnyTypes, Opens
  <2> QED
    BY <1>0, <2>1, <2>2 DEF PeerOrder
<1>18. ASSUME NEW o \in Opens, AnyHandlerCloses(o) PROVE PeerOrder'
  <2>1. /\ \A j \in AnyIds : streams'[j] \in {streams[j], 0}
        /\ peerFin' = peerFin /\ opened' = opened /\ owner' = owner
    BY <1>0, <1>18 DEF AnyHandlerCloses, CloseNow, AnyTypes, NoOpen
  <2>2. \A p \in peerFin : p # 0 /\ owner[p] \in AnyIds
    BY <1>0 DEF AnyTypes, Opens
  <2> QED
    BY <1>0, <2>1, <2>2 DEF PeerOrder
<1> QED
  BY <1>1, <1>2, <1>3, <1>4, <1>5, <1>6, <1>7, <1>8, <1>9,
     <1>10, <1>11, <1>12, <1>13, <1>14, <1>15, <1>16, <1>17, <1>18 DEF AnyNext

(* What an ended stream leaves. *)
LEMMA NothingLeftKeeps == ASSUME AnyIInv, AnyNext PROVE NothingLeftBehind'
<1>0. AnyTypes /\ FiledById /\ HandlesKept /\ NothingLeftBehind /\ MaxOpens \in Nat
  BY AnyConstants DEF AnyIInv
<1>1. ASSUME AnySettings PROVE NothingLeftBehind'
  BY <1>0, <1>1 DEF AnySettings, NothingLeftBehind
<1>2. ASSUME AnyDeliver PROVE NothingLeftBehind'
  BY <1>0, <1>2 DEF AnyDeliver, rest, NothingLeftBehind
<1>3. ASSUME AnyRecvEnds PROVE NothingLeftBehind'
  BY <1>0, <1>3 DEF AnyRecvEnds, rest, NothingLeftBehind
<1>4. ASSUME AnySend PROVE NothingLeftBehind'
  BY <1>0, <1>4 DEF AnySend, wireRest, NothingLeftBehind
<1>5. ASSUME AnyForget PROVE NothingLeftBehind'
  <2>1. /\ anyClosed' = anyClosed /\ handler' = handler
        /\ \A j \in AnyIds : streams'[j] \in {streams[j], 0} /\ tasks' = tasks
    BY <1>0, <1>5 DEF AnyForget, wireRest, AnyTypes, NoOpen
  <2>2. \A o \in Opens : o # 0
    BY DEF Opens
  <2> QED
    BY <1>0, <2>1, <2>2 DEF NothingLeftBehind
<1>6. ASSUME AnyRunEnds PROVE NothingLeftBehind'
  <2>1. anyClosed'
    BY <1>0, <1>6 DEF AnyRunEnds, CloseNow
  <2> QED
    BY <2>1 DEF NothingLeftBehind
<1>7. ASSUME NEW i \in AnyIds, AnySyn(i) PROVE NothingLeftBehind'
  <2>1. CASE ~settings
    BY <1>0, <1>7, <2>1 DEF AnySyn, NothingLeftBehind
  <2>2. CASE settings
    <3> DEFINE n == opened + 1
    <3>1. /\ streams' = [streams EXCEPT ![i] = n] /\ tasks' = [tasks EXCEPT ![i] = n]
          /\ handler' = [handler EXCEPT ![n] = "running"] /\ anyClosed' = anyClosed
      BY <1>7, <2>2 DEF AnySyn
    <3>2. /\ streams \in [AnyIds -> 0..opened] /\ tasks \in [AnyIds -> 0..opened]
          /\ handler \in [Opens -> HandlerStates] /\ n \in Opens /\ n \notin 0..opened
      BY <1>0, <1>7 DEF AnySyn, AnyTypes, Opens
    <3> HIDE DEF n
    <3>3. \A o \in Opens : handler'[o] = "ended" => handler[o] = "ended" /\ o # n
      BY <3>1, <3>2
    <3>4. \A j \in AnyIds : streams'[j] \in {streams[j], n} /\ tasks'[j] \in {tasks[j], n}
      BY <3>1, <3>2
    <3> QED
      BY <1>0, <3>1, <3>3, <3>4 DEF NothingLeftBehind
  <2> QED
    BY <2>1, <2>2
<1>8. ASSUME NEW i \in AnyIds, AnyPsh(i) PROVE NothingLeftBehind'
  BY <1>0, <1>8 DEF AnyPsh, rest, NothingLeftBehind
<1>9. ASSUME NEW i \in AnyIds, AnyFin(i) PROVE NothingLeftBehind'
  <2>1. /\ anyClosed' = anyClosed /\ handler' = handler
        /\ \A j \in AnyIds : streams'[j] \in {streams[j], 0} /\ tasks' = tasks
    BY <1>0, <1>9 DEF AnyFin, rest, AnyTypes, NoOpen
  <2>2. \A o \in Opens : o # 0
    BY DEF Opens
  <2> QED
    BY <1>0, <2>1, <2>2 DEF NothingLeftBehind
<1>10. ASSUME NEW i \in AnyIds, AnyFinUnknown(i) PROVE NothingLeftBehind'
  BY <1>0, <1>10 DEF AnyFinUnknown, rest, NothingLeftBehind
<1>11. ASSUME NEW o \in Opens, AnyRead(o) PROVE NothingLeftBehind'
  BY <1>0, <1>11 DEF AnyRead, NothingLeftBehind
<1>12. ASSUME NEW o \in Opens, AnyWrite(o) PROVE NothingLeftBehind'
  BY <1>0, <1>12 DEF AnyWrite, outRest, NothingLeftBehind
<1>13. ASSUME NEW o \in Opens, AnyShutdown(o) PROVE NothingLeftBehind'
  BY <1>0, <1>13 DEF AnyShutdown, outRest, NothingLeftBehind
<1>14. ASSUME NEW o \in Opens, AnyFinish(o) PROVE NothingLeftBehind'
  <2>1. /\ handler' = [handler EXCEPT ![o] = "finished"] /\ anyClosed' = anyClosed /\ streams' = streams
        /\ \A j \in AnyIds : tasks'[j] \in {tasks[j], 0}
    BY <1>0, <1>14 DEF AnyFinish, outRest, Drop, AnyTypes, NoOpen
  <2>2. \A p \in Opens : p # 0 /\ (handler'[p] = "ended" => handler[p] = "ended")
    BY <1>0, <2>1 DEF AnyTypes, Opens
  <2> QED
    BY <1>0, <2>1, <2>2 DEF NothingLeftBehind
<1>15. ASSUME NEW o \in Opens, AnyAborts(o) PROVE NothingLeftBehind'
  <2>1. anyClosed'
    BY <1>0, <1>15 DEF AnyAborts, outRest, Drop, HandlesKept
  <2> QED
    BY <2>1 DEF NothingLeftBehind
<1>16. ASSUME NEW o \in Opens, AnyCleanTask(o) PROVE NothingLeftBehind'
  <2>1. /\ handler' = [handler EXCEPT ![o] = "cleaned"] /\ anyClosed' = anyClosed /\ streams' = streams
        /\ \A j \in AnyIds : tasks'[j] \in {tasks[j], 0}
    BY <1>0, <1>16 DEF AnyCleanTask, cleanRest, AnyTypes, NoOpen
  <2>2. \A p \in Opens : p # 0 /\ (handler'[p] = "ended" => handler[p] = "ended")
    BY <1>0, <2>1 DEF AnyTypes, Opens
  <2> QED
    BY <1>0, <2>1, <2>2 DEF NothingLeftBehind
<1>17. ASSUME NEW o \in Opens, AnyCleanStream(o) PROVE NothingLeftBehind'
  <2>1. /\ handler' = [handler EXCEPT ![o] = "ended"] /\ anyClosed' = anyClosed /\ tasks' = tasks
        /\ streams' = [streams EXCEPT ![owner[o]] = IF @ = o THEN 0 ELSE @] /\ handler[o] = "cleaned"
    BY <1>17 DEF AnyCleanStream, cleanRest, NoOpen
  <2>2. \A p \in Opens : p # 0 /\ (handler'[p] = "ended" => p = o \/ handler[p] = "ended")
    BY <1>0, <2>1 DEF AnyTypes, Opens
  <2>3. \A j \in AnyIds : streams'[j] # o
    BY <1>0, <2>1, <2>2 DEF AnyTypes, FiledById, NoOpen
  <2>4. \A j \in AnyIds : streams'[j] \in {streams[j], 0}
    BY <1>0, <2>1 DEF AnyTypes
  <2>5. ~anyClosed => \A j \in AnyIds : tasks[j] # o
    BY <1>0, <2>1 DEF HandlesKept
  <2> QED
    BY <1>0, <2>1, <2>2, <2>3, <2>4, <2>5 DEF NothingLeftBehind
<1>18. ASSUME NEW o \in Opens, AnyHandlerCloses(o) PROVE NothingLeftBehind'
  <2>1. anyClosed'
    BY <1>0, <1>18 DEF AnyHandlerCloses, CloseNow
  <2> QED
    BY <2>1 DEF NothingLeftBehind
<1> QED
  BY <1>1, <1>2, <1>3, <1>4, <1>5, <1>6, <1>7, <1>8, <1>9,
     <1>10, <1>11, <1>12, <1>13, <1>14, <1>15, <1>16, <1>17, <1>18 DEF AnyNext

(* The handles of the tasks: close() finds the one of every stream that runs, but
   for streams with one id. *)
LEMMA HandlesKeep == ASSUME AnyIInv, AnyNext PROVE HandlesKept'
<1>0. AnyTypes /\ FiledById /\ HandlesKept /\ MaxOpens \in Nat
  BY AnyConstants DEF AnyIInv
<1>1. ASSUME AnySettings PROVE HandlesKept'
  BY <1>0, <1>1 DEF AnySettings, HandlesKept, OnlyOne, Alive
<1>2. ASSUME AnyDeliver PROVE HandlesKept'
  BY <1>0, <1>2 DEF AnyDeliver, rest, HandlesKept, OnlyOne, Alive
<1>3. ASSUME AnyRecvEnds PROVE HandlesKept'
  BY <1>0, <1>3 DEF AnyRecvEnds, rest, HandlesKept, OnlyOne, Alive
<1>4. ASSUME AnySend PROVE HandlesKept'
  BY <1>0, <1>4 DEF AnySend, wireRest, HandlesKept, OnlyOne, Alive
<1>5. ASSUME AnyForget PROVE HandlesKept'
  BY <1>0, <1>5 DEF AnyForget, wireRest, HandlesKept, OnlyOne, Alive
<1>6. ASSUME AnyRunEnds PROVE HandlesKept'
  <2>1. CASE anyClosed
    BY <1>0, <1>6, <2>1 DEF AnyRunEnds, CloseNow, HandlesKept, OnlyOne, Alive
  <2>2. CASE ~anyClosed
    <3>1. /\ anyClosed' /\ aborted' = aborted \cup ({tasks[j] : j \in AnyIds} \ {NoOpen})
          /\ handler' = handler /\ owner' = owner /\ opened' = opened /\ afterClose' = afterClose
      BY <1>6, <2>2 DEF AnyRunEnds, CloseNow
    <3>2. \A p \in Alive : p \in Opens /\ p # NoOpen /\ owner[p] \in AnyIds
      BY <1>0 DEF AnyTypes, Alive, Opens, NoOpen
    <3>3. \A p \in Alive : OnlyOne(p) => p \in aborted'
      BY <1>0, <2>2, <3>1, <3>2 DEF HandlesKept
    <3>4. Alive' = Alive /\ \A p : OnlyOne(p)' <=> OnlyOne(p)
      BY <3>1 DEF Alive, OnlyOne
    <3> QED
      BY <3>1, <3>3, <3>4 DEF HandlesKept
  <2> QED
    BY <2>1, <2>2
<1>7. ASSUME NEW i \in AnyIds, AnySyn(i) PROVE HandlesKept'
  <2>1. CASE ~settings
    BY <1>0, <1>7, <2>1 DEF AnySyn, HandlesKept, OnlyOne, Alive
  <2>2. CASE settings
    <3> DEFINE n == opened + 1
    <3>1. /\ tasks' = [tasks EXCEPT ![i] = n] /\ opened' = n /\ owner' = owner /\ owner[n] = i
          /\ handler' = [handler EXCEPT ![n] = "running"] /\ anyClosed' = anyClosed
          /\ afterClose' = IF anyClosed THEN afterClose \cup {n} ELSE afterClose
          /\ aborted' = aborted /\ recv' = recv
      BY <1>7, <2>2 DEF AnySyn
    <3>2. /\ opened \in Nat /\ tasks \in [AnyIds -> 0..opened]
          /\ handler \in [Opens -> HandlerStates] /\ n \in Opens /\ n \notin 0..opened
          /\ \A p \in Opens : p <= opened => p <= n
      BY <1>0, <1>7 DEF AnySyn, AnyTypes, Opens
    <3>3. \A p \in Opens : owner[p] \in AnyIds
      BY <1>0 DEF AnyTypes
    <3>4. n <= n
      BY <3>2
    <3> HIDE DEF n
    <3>5. \A p \in Opens : handler'[p] \in {"cleaned", "ended"} => handler[p] \in {"cleaned", "ended"} /\ p # n
      BY <3>1, <3>2
    <3>6. \A p \in Alive' : p \in Opens /\ (p = n \/ p \in Alive)
      BY <3>1, <3>2 DEF Alive
    <3>7. \A p \in Opens : OnlyOne(p)' => OnlyOne(p) /\ (p # n => owner[p] # i)
      BY <3>1, <3>2, <3>4 DEF OnlyOne
    <3>8. \A j \in AnyIds : tasks'[j] = IF j = i THEN n ELSE tasks[j]
      BY <3>1, <3>2
    <3>9. ~anyClosed' => \A p \in Opens : handler'[p] \in {"cleaned", "ended"} =>
                            \A j \in AnyIds : tasks'[j] # p
      BY <1>0, <3>1, <3>5, <3>8 DEF HandlesKept
    <3>10. ~anyClosed' => \A p \in Alive' : OnlyOne(p)' => tasks'[owner'[p]] = p
      BY <1>0, <3>1, <3>3, <3>6, <3>7, <3>8 DEF HandlesKept
    <3>11. anyClosed' => \A p \in Alive' : p \in aborted' \/ p \in afterClose' \/ ~OnlyOne(p)'
      BY <1>0, <3>1, <3>6, <3>7 DEF HandlesKept
    <3> QED
      BY <1>0, <3>1, <3>9, <3>10, <3>11 DEF HandlesKept
  <2> QED
    BY <2>1, <2>2
<1>8. ASSUME NEW i \in AnyIds, AnyPsh(i) PROVE HandlesKept'
  BY <1>0, <1>8 DEF AnyPsh, rest, HandlesKept, OnlyOne, Alive
<1>9. ASSUME NEW i \in AnyIds, AnyFin(i) PROVE HandlesKept'
  BY <1>0, <1>9 DEF AnyFin, rest, HandlesKept, OnlyOne, Alive
<1>10. ASSUME NEW i \in AnyIds, AnyFinUnknown(i) PROVE HandlesKept'
  BY <1>0, <1>10 DEF AnyFinUnknown, rest, HandlesKept, OnlyOne, Alive
<1>11. ASSUME NEW o \in Opens, AnyRead(o) PROVE HandlesKept'
  BY <1>0, <1>11 DEF AnyRead, HandlesKept, OnlyOne, Alive
<1>12. ASSUME NEW o \in Opens, AnyWrite(o) PROVE HandlesKept'
  BY <1>0, <1>12 DEF AnyWrite, outRest, HandlesKept, OnlyOne, Alive
<1>13. ASSUME NEW o \in Opens, AnyShutdown(o) PROVE HandlesKept'
  BY <1>0, <1>13 DEF AnyShutdown, outRest, HandlesKept, OnlyOne, Alive
<1>14. ASSUME NEW o \in Opens, AnyFinish(o) PROVE HandlesKept'
  <2>1. /\ handler' = [handler EXCEPT ![o] = "finished"] /\ aborted' = aborted /\ tasks' = tasks
        /\ anyClosed' = anyClosed /\ owner' = owner /\ opened' = opened /\ afterClose' = afterClose
        /\ recv' = recv
    BY <1>14 DEF AnyFinish, outRest, Drop
  <2>2. Alive' \subseteq Alive /\ \A p : OnlyOne(p)' <=> OnlyOne(p)
    BY <1>0, <2>1 DEF Alive, OnlyOne, AnyTypes
  <2>3. ~anyClosed => \A p \in Opens : handler'[p] \in {"cleaned", "ended"} =>
                         handler[p] \in {"cleaned", "ended"}
    BY <1>0, <1>14, <2>1 DEF AnyTypes, HandlesKept
  <2> QED
    BY <1>0, <2>1, <2>2, <2>3 DEF HandlesKept
<1>15. ASSUME NEW o \in Opens, AnyAborts(o) PROVE HandlesKept'
  <2>1. /\ handler' = [handler EXCEPT ![o] = "ended"] /\ aborted' = aborted /\ tasks' = tasks
        /\ anyClosed' = anyClosed /\ owner' = owner /\ opened' = opened /\ afterClose' = afterClose
        /\ recv' = recv
    BY <1>15 DEF AnyAborts, outRest, Drop
  <2>2. Alive' \subseteq Alive /\ \A p : OnlyOne(p)' <=> OnlyOne(p)
    BY <1>0, <2>1 DEF Alive, OnlyOne, AnyTypes
  <2>3. ~anyClosed => \A p \in Opens : handler'[p] \in {"cleaned", "ended"} =>
                         handler[p] \in {"cleaned", "ended"}
    BY <1>0, <1>15, <2>1 DEF AnyAborts, outRest, Drop, AnyTypes, HandlesKept
  <2> QED
    BY <1>0, <2>1, <2>2, <2>3 DEF HandlesKept
<1>16. ASSUME NEW o \in Opens, AnyCleanTask(o) PROVE HandlesKept'
  <2>1. /\ handler' = [handler EXCEPT ![o] = "cleaned"] /\ aborted' = aborted
        /\ tasks' = [tasks EXCEPT ![owner[o]] = 0] /\ handler[o] = "finished"
        /\ anyClosed' = anyClosed /\ owner' = owner /\ opened' = opened /\ afterClose' = afterClose
        /\ recv' = recv
    BY <1>16 DEF AnyCleanTask, cleanRest, NoOpen
  <2>2. Alive' \subseteq Alive /\ o \notin Alive /\ \A p : OnlyOne(p)' <=> OnlyOne(p)
    BY <1>0, <2>1 DEF Alive, OnlyOne, AnyTypes
  <2>3. /\ \A p \in Opens : p # 0 /\ owner[p] \in AnyIds
        /\ \A j \in AnyIds : tasks'[j] = IF j = owner[o] THEN 0 ELSE tasks[j]
        /\ o <= opened
    BY <1>0, <2>1 DEF AnyTypes, Opens
  <2>4. \A p \in Opens : handler'[p] \in {"cleaned", "ended"} => p = o \/ handler[p] \in {"cleaned", "ended"}
    BY <1>0, <2>1 DEF AnyTypes
  <2>5. \A j \in AnyIds : tasks'[j] # o
    BY <1>0, <2>3 DEF FiledById, NoOpen
  <2>6. ~anyClosed' => \A p \in Opens : handler'[p] \in {"cleaned", "ended"} =>
                          \A j \in AnyIds : tasks'[j] # p
    BY <1>0, <2>1, <2>3, <2>4, <2>5 DEF HandlesKept
  <2>7. \A p \in Alive' : p \in Opens /\ p # o /\ (OnlyOne(p) => owner[p] # owner[o])
    BY <2>2, <2>3 DEF Alive, OnlyOne
  <2>8. ~anyClosed' => \A p \in Alive' : OnlyOne(p)' => tasks'[owner'[p]] = p
    BY <1>0, <2>1, <2>2, <2>3, <2>7 DEF HandlesKept
  <2> QED
    BY <1>0, <2>1, <2>2, <2>6, <2>8 DEF HandlesKept
<1>17. ASSUME NEW o \in Opens, AnyCleanStream(o) PROVE HandlesKept'
  <2>1. /\ handler' = [handler EXCEPT ![o] = "ended"] /\ aborted' = aborted /\ tasks' = tasks
        /\ anyClosed' = anyClosed /\ owner' = owner /\ opened' = opened /\ afterClose' = afterClose
        /\ recv' = recv
    BY <1>17 DEF AnyCleanStream, cleanRest
  <2>2. Alive' \subseteq Alive /\ \A p : OnlyOne(p)' <=> OnlyOne(p)
    BY <1>0, <2>1 DEF Alive, OnlyOne, AnyTypes
  <2>3. ~anyClosed => \A p \in Opens : handler'[p] \in {"cleaned", "ended"} =>
                         handler[p] \in {"cleaned", "ended"}
    BY <1>0, <1>17, <2>1 DEF AnyCleanStream, cleanRest, AnyTypes, HandlesKept
  <2> QED
    BY <1>0, <2>1, <2>2, <2>3 DEF HandlesKept
<1>18. ASSUME NEW o \in Opens, AnyHandlerCloses(o) PROVE HandlesKept'
  <2>1. CASE anyClosed
    BY <1>0, <1>18, <2>1 DEF AnyHandlerCloses, CloseNow, HandlesKept, OnlyOne, Alive
  <2>2. CASE ~anyClosed
    <3>1. /\ anyClosed' /\ aborted' = aborted \cup ({tasks[j] : j \in AnyIds} \ {NoOpen})
          /\ handler' = handler /\ owner' = owner /\ opened' = opened /\ afterClose' = afterClose
      BY <1>18, <2>2 DEF AnyHandlerCloses, CloseNow
    <3>2. \A p \in Alive : p \in Opens /\ p # NoOpen /\ owner[p] \in AnyIds
      BY <1>0 DEF AnyTypes, Alive, Opens, NoOpen
    <3>3. \A p \in Alive : OnlyOne(p) => p \in aborted'
      BY <1>0, <2>2, <3>1, <3>2 DEF HandlesKept
    <3>4. Alive' = Alive /\ \A p : OnlyOne(p)' <=> OnlyOne(p)
      BY <3>1 DEF Alive, OnlyOne
    <3> QED
      BY <3>1, <3>3, <3>4 DEF HandlesKept
  <2> QED
    BY <2>1, <2>2
<1> QED
  BY <1>1, <1>2, <1>3, <1>4, <1>5, <1>6, <1>7, <1>8, <1>9,
     <1>10, <1>11, <1>12, <1>13, <1>14, <1>15, <1>16, <1>17, <1>18 DEF AnyNext

(* An entry is removed by id only for a stream that is shut, and an older stream
   with the id is finished by then. *)
LEMMA ReachableKeeps == ASSUME AnyIInv, AnyNext PROVE ReachableUntilFin'
<1>0. /\ AnyTypes /\ FiledById /\ PeerOrder /\ OutputOrder /\ HandlesKept /\ ReachableUntilFin
      /\ MaxOpens \in Nat
  BY AnyConstants DEF AnyIInv
<1>1. ASSUME AnySettings PROVE ReachableUntilFin'
  BY <1>0, <1>1 DEF AnySettings, ReachableUntilFin, Reused, Alive
<1>2. ASSUME AnyDeliver PROVE ReachableUntilFin'
  BY <1>0, <1>2 DEF AnyDeliver, rest, ReachableUntilFin, Reused, Alive
<1>3. ASSUME AnyRecvEnds PROVE ReachableUntilFin'
  BY <1>0, <1>3 DEF AnyRecvEnds, rest, ReachableUntilFin, Reused, Alive
<1>4. ASSUME AnySend PROVE ReachableUntilFin'
  BY <1>0, <1>4 DEF AnySend, wireRest, ReachableUntilFin, Reused, Alive
<1>5. ASSUME AnyForget PROVE ReachableUntilFin'
  <2>1. /\ streams' = [streams EXCEPT ![owner[finOut]] = 0] /\ finOut \in shut
        /\ UNCHANGED <<handler, peerFin, shut, anyClosed, opened, owner>>
    BY <1>0, <1>5 DEF AnyForget, wireRest, NoOpen, OutputOrder
  <2>2. /\ finOut \in 1..opened /\ streams \in [AnyIds -> 0..opened] /\ opened \in Nat
        /\ \A p \in 1..opened : owner[p] \in AnyIds
    BY <1>0, <2>1 DEF AnyTypes, Opens
  <2>3. ASSUME NEW p \in 1..opened, p \in Alive \ (peerFin \cup shut), ~Reused(p)
        PROVE  owner[finOut] # owner[p]
    <3> SUFFICES ASSUME owner[finOut] = owner[p] PROVE FALSE
      OBVIOUS
    <3>1. p # finOut
      BY <2>1, <2>3
    <3>2. CASE p < finOut
      BY <1>0, <2>2, <2>3, <3>2 DEF PeerOrder
    <3>3. CASE finOut < p
      BY <2>2, <2>3, <3>3 DEF Reused
    <3> QED
      BY <2>2, <3>1, <3>2, <3>3
  <2>4. \A p \in 1..opened : owner[p] # owner[finOut] => streams'[owner[p]] = streams[owner[p]]
    BY <2>1, <2>2
  <2> QED
    BY <1>0, <2>1, <2>2, <2>3, <2>4 DEF ReachableUntilFin, Reused, Alive
<1>6. ASSUME AnyRunEnds PROVE ReachableUntilFin'
  BY <1>0, <1>6 DEF AnyRunEnds, CloseNow, ReachableUntilFin
<1>7. ASSUME NEW i \in AnyIds, AnySyn(i) PROVE ReachableUntilFin'
  <2>1. CASE ~settings
    BY <1>0, <1>7, <2>1 DEF AnySyn, ReachableUntilFin, Alive, Reused
  <2>2. CASE settings
    <3> DEFINE n == opened + 1
    <3>1. /\ streams' = [streams EXCEPT ![i] = n] /\ opened' = n /\ owner' = owner /\ owner[n] = i
          /\ handler' = [handler EXCEPT ![n] = "running"] /\ anyClosed' = anyClosed
          /\ peerFin' = peerFin /\ shut' = shut
          /\ \A p \in 1..opened : owner[p] = i => p \in peerFin
      BY <1>7, <2>2 DEF AnySyn, FreeSlot
    <3>2. /\ streams \in [AnyIds -> 0..opened] /\ handler \in [Opens -> HandlerStates]
          /\ \A p \in 1..n : owner[p] \in AnyIds /\ (p = n \/ p \in 1..opened)
      BY <1>0, <1>7 DEF AnySyn, AnyTypes, Opens
    <3>3. \A p \in Alive' : p = n \/ p \in Alive
      BY <3>1, <3>2 DEF Alive
    <3>4. \A j \in AnyIds : streams'[j] = IF j = i THEN n ELSE streams[j]
      BY <3>1, <3>2
    <3> SUFFICES ASSUME ~anyClosed, NEW p \in 1..n, p \in Alive' \ (peerFin \cup shut), ~Reused(p)
                 PROVE  streams'[owner[p]] = p
      BY <3>1 DEF ReachableUntilFin, Reused
    <3> HIDE DEF n
    <3>5. CASE p = n
      BY <3>1, <3>2, <3>4, <3>5
    <3>6. CASE p # n
      <4>1. p \in 1..opened /\ owner[p] # i /\ p \in Alive
        BY <3>1, <3>2, <3>3, <3>6
      <4> QED
        BY <1>0, <3>2, <3>4, <4>1 DEF ReachableUntilFin
    <3> QED
      BY <3>5, <3>6
  <2> QED
    BY <2>1, <2>2
<1>8. ASSUME NEW i \in AnyIds, AnyPsh(i) PROVE ReachableUntilFin'
  BY <1>0, <1>8 DEF AnyPsh, rest, ReachableUntilFin, Reused, Alive
<1>9. ASSUME NEW i \in AnyIds, AnyFin(i) PROVE ReachableUntilFin'
  <2>1. /\ streams' = [streams EXCEPT ![i] = 0] /\ peerFin' = peerFin \cup {streams[i]} /\ streams[i] # 0
        /\ UNCHANGED <<handler, shut, anyClosed, opened, owner>>
    BY <1>9 DEF AnyFin, rest, NoOpen
  <2>2. \A p \in 1..opened : owner[p] \in AnyIds
    BY <1>0 DEF AnyTypes, Opens
  <2>3. \A j \in AnyIds : streams'[j] = IF j = i THEN 0 ELSE streams[j]
    BY <1>0, <2>1 DEF AnyTypes
  <2> QED
    BY <1>0, <2>1, <2>2, <2>3 DEF ReachableUntilFin, Reused, Alive
<1>10. ASSUME NEW i \in AnyIds, AnyFinUnknown(i) PROVE ReachableUntilFin'
  <2>1. /\ Alive' \subseteq Alive /\ peerFin \subseteq peerFin' /\ shut \subseteq shut'
        /\ anyClosed' = anyClosed /\ opened' = opened /\ owner' = owner
        /\ \A o2 \in 1..opened : o2 \in Alive \ (peerFin' \cup shut') =>
               streams'[owner[o2]] = streams[owner[o2]]
    BY <1>0, <1>10 DEF AnyFinUnknown, rest, Alive, AnyTypes, FiledById, Opens, NoOpen
  <2> QED
    BY <1>0, <2>1 DEF ReachableUntilFin, Reused
<1>11. ASSUME NEW o \in Opens, AnyRead(o) PROVE ReachableUntilFin'
  BY <1>0, <1>11 DEF AnyRead, ReachableUntilFin, Reused, Alive
<1>12. ASSUME NEW o \in Opens, AnyWrite(o) PROVE ReachableUntilFin'
  BY <1>0, <1>12 DEF AnyWrite, outRest, ReachableUntilFin, Reused, Alive
<1>13. ASSUME NEW o \in Opens, AnyShutdown(o) PROVE ReachableUntilFin'
  <2>1. /\ Alive' \subseteq Alive /\ peerFin \subseteq peerFin' /\ shut \subseteq shut'
        /\ anyClosed' = anyClosed /\ opened' = opened /\ owner' = owner
        /\ \A o2 \in 1..opened : o2 \in Alive \ (peerFin' \cup shut') =>
               streams'[owner[o2]] = streams[owner[o2]]
    BY <1>0, <1>13 DEF AnyShutdown, outRest, Alive, AnyTypes, FiledById, Opens, NoOpen
  <2> QED
    BY <1>0, <2>1 DEF ReachableUntilFin, Reused
<1>14. ASSUME NEW o \in Opens, AnyFinish(o) PROVE ReachableUntilFin'
  <2>1. /\ Alive' \subseteq Alive /\ peerFin \subseteq peerFin' /\ shut \subseteq shut'
        /\ anyClosed' = anyClosed /\ opened' = opened /\ owner' = owner
        /\ \A o2 \in 1..opened : o2 \in Alive \ (peerFin' \cup shut') =>
               streams'[owner[o2]] = streams[owner[o2]]
    BY <1>0, <1>14 DEF AnyFinish, outRest, Drop, Alive, AnyTypes, FiledById, Opens, NoOpen
  <2> QED
    BY <1>0, <2>1 DEF ReachableUntilFin, Reused
<1>15. ASSUME NEW o \in Opens, AnyAborts(o) PROVE ReachableUntilFin'
  <2>1. /\ Alive' \subseteq Alive /\ peerFin \subseteq peerFin' /\ shut \subseteq shut'
        /\ anyClosed' = anyClosed /\ opened' = opened /\ owner' = owner
        /\ \A o2 \in 1..opened : o2 \in Alive \ (peerFin' \cup shut') =>
               streams'[owner[o2]] = streams[owner[o2]]
    BY <1>0, <1>15 DEF AnyAborts, outRest, Drop, Alive, AnyTypes, FiledById, Opens, NoOpen
  <2> QED
    BY <1>0, <2>1 DEF ReachableUntilFin, Reused
<1>16. ASSUME NEW o \in Opens, AnyCleanTask(o) PROVE ReachableUntilFin'
  <2>1. /\ Alive' \subseteq Alive /\ peerFin \subseteq peerFin' /\ shut \subseteq shut'
        /\ anyClosed' = anyClosed /\ opened' = opened /\ owner' = owner
        /\ \A o2 \in 1..opened : o2 \in Alive \ (peerFin' \cup shut') =>
               streams'[owner[o2]] = streams[owner[o2]]
    BY <1>0, <1>16 DEF AnyCleanTask, cleanRest, Alive, AnyTypes, FiledById, Opens, NoOpen
  <2> QED
    BY <1>0, <2>1 DEF ReachableUntilFin, Reused
<1>17. ASSUME NEW o \in Opens, AnyCleanStream(o) PROVE ReachableUntilFin'
  <2>1. /\ handler' = [handler EXCEPT ![o] = "ended"] /\ handler[o] = "cleaned"
        /\ streams' = [streams EXCEPT ![owner[o]] = IF @ = o THEN 0 ELSE @]
        /\ UNCHANGED <<peerFin, shut, anyClosed, opened, owner>>
    BY <1>17 DEF AnyCleanStream, cleanRest, NoOpen
  <2>2. Alive' \subseteq Alive /\ o \notin Alive
    BY <1>0, <2>1 DEF Alive, AnyTypes
  <2>3. \A j \in AnyIds : streams[j] # o => streams'[j] = streams[j]
    BY <1>0, <2>1 DEF AnyTypes
  <2>4. \A p \in 1..opened : owner[p] \in AnyIds
    BY <1>0 DEF AnyTypes, Opens
  <2> QED
    BY <1>0, <2>1, <2>2, <2>3, <2>4 DEF ReachableUntilFin, Reused
<1>18. ASSUME NEW o \in Opens, AnyHandlerCloses(o) PROVE ReachableUntilFin'
  BY <1>0, <1>18 DEF AnyHandlerCloses, CloseNow, ReachableUntilFin
<1> QED
  BY <1>1, <1>2, <1>3, <1>4, <1>5, <1>6, <1>7, <1>8, <1>9,
     <1>10, <1>11, <1>12, <1>13, <1>14, <1>15, <1>16, <1>17, <1>18 DEF AnyNext

(* The end of a stream's input. *)
LEMMA InputKeeps == ASSUME AnyIInv, AnyNext PROVE InputOrder'
<1>0. AnyTypes /\ FiledById /\ PeerOrder /\ InputOrder /\ MaxOpens \in Nat /\ InCapacity \in Nat
  BY AnyConstants DEF AnyIInv
<1>1. ASSUME AnySettings PROVE InputOrder'
  <2>1. UNCHANGED <<chan, sending, recv, opened, peerFin, readEof>>
    BY <1>1 DEF AnySettings
  <2> QED
    BY <1>0, <2>1 DEF InputOrder
<1>2. ASSUME AnyDeliver PROVE InputOrder'
  <2> DEFINE s == sending[1]
             x == sending[2]
  <2>1. /\ recv = "sending" /\ recv' = "frames" /\ UNCHANGED <<opened, peerFin, readEof>>
        /\ \/ chan' = [chan EXCEPT ![s] = Append(@, x)] /\ Len(chan[s]) < InCapacity
           \/ chan' = chan
    BY <1>2 DEF AnyDeliver, rest
  <2>1a. sending \in (1..opened) \X {"data", "eof"} /\ 1..opened \subseteq Opens
    BY <1>0, <2>1 DEF InputOrder, AnyTypes, Opens
  <2>2. /\ s \in Opens /\ x \in {"data", "eof"} /\ (x = "data" <=> s \notin peerFin)
        /\ chan[s] \in Seq({"data", "eof"}) /\ s \notin readEof
        /\ \A k \in DOMAIN chan[s] : chan[s][k] # "eof"
    BY <1>0, <2>1, <2>1a DEF InputOrder
  <2> HIDE DEF s, x
  <2>3. CASE chan' = chan
    BY <1>0, <2>1, <2>3 DEF InputOrder
  <2>4. CASE chan' = [chan EXCEPT ![s] = Append(@, x)] /\ Len(chan[s]) < InCapacity
    <3>1. /\ chan' \in [Opens -> Seq({"data", "eof"})] /\ chan'[s] = Append(chan[s], x)
          /\ \A o \in Opens : o # s => chan'[o] = chan[o]
      BY <1>0, <2>2, <2>4, AppendTells DEF InputOrder
    <3>2. /\ Len(chan'[s]) = Len(chan[s]) + 1 /\ Len(chan'[s]) <= InCapacity
          /\ DOMAIN chan'[s] = 1..(Len(chan[s]) + 1) /\ DOMAIN chan[s] = 1..Len(chan[s])
          /\ \A k \in 1..Len(chan[s]) : chan'[s][k] = chan[s][k]
          /\ chan'[s][Len(chan[s]) + 1] = x /\ Len(chan[s]) \in Nat
      BY <1>0, <2>2, <2>4, <3>1, AppendTells
    <3>3. \A k \in DOMAIN chan'[s] : chan'[s][k] = "eof" => k = Len(chan'[s]) /\ s \in peerFin
      BY <2>2, <3>2
    <3>4. ASSUME NEW o \in Opens
          PROVE  /\ Len(chan'[o]) <= InCapacity
                 /\ \A k \in DOMAIN chan'[o] : chan'[o][k] = "eof" =>
                       k = Len(chan'[o]) /\ o \in peerFin
      <4>1. CASE o = s
        BY <3>2, <3>3, <4>1
      <4>2. CASE o # s
        <5>1. chan'[o] = chan[o]
          BY <3>1, <4>2
        <5> QED
          BY <1>0, <5>1 DEF InputOrder
      <4> QED
        BY <4>1, <4>2
    <3>5. \A o \in readEof : o \in Opens /\ o # s /\ chan[o] = <<>> /\ o \in peerFin
      BY <1>0, <2>2 DEF InputOrder, AnyTypes, Opens
    <3>6. \A o \in readEof : chan'[o] = <<>> /\ o \in peerFin
      BY <3>1, <3>5
    <3> QED
      BY <2>1, <3>1, <3>4, <3>6 DEF InputOrder
  <2> QED
    BY <2>1, <2>3, <2>4
<1>3. ASSUME AnyRecvEnds PROVE InputOrder'
  <2>1. UNCHANGED <<chan, opened, peerFin, readEof>> /\ recv' # "sending"
    BY <1>3 DEF AnyRecvEnds, rest
  <2> QED
    BY <1>0, <2>1 DEF InputOrder
<1>4. ASSUME AnySend PROVE InputOrder'
  <2>1. UNCHANGED <<chan, sending, recv, opened, peerFin, readEof>>
    BY <1>4 DEF AnySend, wireRest
  <2> QED
    BY <1>0, <2>1 DEF InputOrder
<1>5. ASSUME AnyForget PROVE InputOrder'
  <2>1. UNCHANGED <<chan, sending, recv, opened, peerFin, readEof>>
    BY <1>5 DEF AnyForget, wireRest
  <2> QED
    BY <1>0, <2>1 DEF InputOrder
<1>6. ASSUME AnyRunEnds PROVE InputOrder'
  <2>1. UNCHANGED <<chan, opened, peerFin, readEof>> /\ recv' # "sending"
    BY <1>6 DEF AnyRunEnds, CloseNow
  <2> QED
    BY <1>0, <2>1 DEF InputOrder
<1>7. ASSUME NEW i \in AnyIds, AnySyn(i) PROVE InputOrder'
  <2>1. UNCHANGED <<chan, sending, peerFin, readEof>> /\ recv = "frames" /\ recv' \in {"frames", "ended"}
    BY <1>7 DEF AnySyn
  <2> QED
    BY <1>0, <2>1 DEF InputOrder
<1>8. ASSUME NEW i \in AnyIds, AnyPsh(i) PROVE InputOrder'
  <2>1. /\ UNCHANGED <<chan, opened, peerFin, readEof>> /\ recv = "frames" /\ streams[i] # 0
        /\ sending' = <<streams[i], "data">>
    BY <1>8 DEF AnyPsh, rest, NoOpen
  <2>2. streams[i] \in 1..opened /\ streams[i] \notin peerFin
    BY <1>0, <2>1 DEF AnyTypes, PeerOrder, FiledById, NoOpen
  <2>3. /\ sending' \in (1..opened) \X {"data", "eof"} /\ sending'[1] = streams[i]
        /\ sending'[2] = "data"
    BY <2>1, <2>2
  <2> QED
    BY <1>0, <2>1, <2>2, <2>3 DEF InputOrder
<1>9. ASSUME NEW i \in AnyIds, AnyFin(i) PROVE InputOrder'
  <2>1. /\ UNCHANGED <<chan, opened, readEof>> /\ recv = "frames" /\ streams[i] # 0
        /\ sending' = <<streams[i], "eof">> /\ peerFin' = peerFin \cup {streams[i]}
    BY <1>9 DEF AnyFin, rest, NoOpen
  <2>2. streams[i] \in 1..opened /\ streams[i] \notin peerFin
    BY <1>0, <2>1 DEF AnyTypes, PeerOrder, FiledById, NoOpen
  <2>3. /\ sending' \in (1..opened) \X {"data", "eof"} /\ sending'[1] = streams[i]
        /\ sending'[2] = "eof"
    BY <2>1, <2>2
  <2> QED
    BY <1>0, <2>1, <2>2, <2>3 DEF InputOrder
<1>10. ASSUME NEW i \in AnyIds, AnyFinUnknown(i) PROVE InputOrder'
  <2>1. UNCHANGED <<chan, opened, readEof, recv>> /\ recv = "frames" /\ peerFin \subseteq peerFin'
    BY <1>10 DEF AnyFinUnknown, rest
  <2> QED
    BY <1>0, <2>1 DEF InputOrder
<1>11. ASSUME NEW o \in Opens, AnyRead(o) PROVE InputOrder'
  <2>1. /\ chan[o] # <<>> /\ chan' = [chan EXCEPT ![o] = Tail(@)] /\ o \notin readEof
        /\ readEof' = IF Head(chan[o]) = "eof" THEN readEof \cup {o} ELSE readEof
        /\ UNCHANGED <<recv, sending, opened, peerFin>>
    BY <1>11 DEF AnyRead
  <2>2. chan[o] \in Seq({"data", "eof"}) /\ Len(chan[o]) <= InCapacity
    BY <1>0 DEF InputOrder
  <2>3. /\ Tail(chan[o]) \in Seq({"data", "eof"}) /\ Len(Tail(chan[o])) = Len(chan[o]) - 1
        /\ Len(chan[o]) \in Nat \ {0} /\ DOMAIN chan[o] = 1..Len(chan[o])
        /\ DOMAIN Tail(chan[o]) = 1..(Len(chan[o]) - 1) /\ Head(chan[o]) = chan[o][1]
        /\ \A k \in 1..(Len(chan[o]) - 1) : Tail(chan[o])[k] = chan[o][k + 1]
    BY <2>1, <2>2, TailShifts
  <2>4. /\ chan' \in [Opens -> Seq({"data", "eof"})] /\ chan'[o] = Tail(chan[o])
        /\ \A p \in Opens : p # o => chan'[p] = chan[p]
    BY <1>0, <2>1, <2>3 DEF InputOrder
  <2>5. Len(chan'[o]) <= InCapacity
    BY <1>0, <2>2, <2>3, <2>4
  <2>6. \A k \in DOMAIN chan'[o] : chan'[o][k] = "eof" =>
           k = Len(chan'[o]) /\ o \in peerFin /\ (recv = "sending" => sending[1] # o)
    <3> SUFFICES ASSUME NEW k \in 1..(Len(chan[o]) - 1), chan[o][k + 1] = "eof"
                 PROVE  k = Len(chan[o]) - 1 /\ o \in peerFin /\ (recv = "sending" => sending[1] # o)
      BY <2>3, <2>4
    <3>1. k + 1 \in DOMAIN chan[o] /\ k \in Nat
      BY <2>3
    <3>2. k + 1 = Len(chan[o]) /\ o \in peerFin /\ (recv = "sending" => sending[1] # o)
      BY <1>0, <3>1 DEF InputOrder
    <3> QED
      BY <2>3, <3>1, <3>2
  <2>7. CASE Head(chan[o]) = "eof"
    <3>1. 1 \in DOMAIN chan[o]
      BY <2>3
    <3>2. Len(chan[o]) = 1 /\ o \in peerFin /\ (recv = "sending" => sending[1] # o)
      BY <1>0, <2>3, <2>7, <3>1 DEF InputOrder
    <3>3. chan'[o] = <<>>
      BY <2>3, <2>4, <3>2, EmptySeq
    <3> QED
      BY <1>0, <2>1, <2>4, <2>5, <2>6, <2>7, <3>2, <3>3 DEF InputOrder
  <2>8. CASE Head(chan[o]) # "eof"
    BY <1>0, <2>1, <2>4, <2>5, <2>6, <2>8 DEF InputOrder
  <2> QED
    BY <2>7, <2>8
<1>12. ASSUME NEW o \in Opens, AnyWrite(o) PROVE InputOrder'
  <2>1. UNCHANGED <<chan, sending, recv, opened, peerFin, readEof>>
    BY <1>12 DEF AnyWrite, outRest
  <2> QED
    BY <1>0, <2>1 DEF InputOrder
<1>13. ASSUME NEW o \in Opens, AnyShutdown(o) PROVE InputOrder'
  <2>1. UNCHANGED <<chan, sending, recv, opened, peerFin, readEof>>
    BY <1>13 DEF AnyShutdown, outRest
  <2> QED
    BY <1>0, <2>1 DEF InputOrder
<1>14. ASSUME NEW o \in Opens, AnyFinish(o) PROVE InputOrder'
  <2>1. /\ \A p \in Opens : chan'[p] \in {chan[p], <<>>}
        /\ chan' = chan \/ chan' = [chan EXCEPT ![o] = <<>>]
        /\ UNCHANGED <<recv, sending, opened, peerFin, readEof>>
    BY <1>0, <1>14 DEF AnyFinish, outRest, Drop, InputOrder
  <2>1a. <<>> \in Seq({"data", "eof"}) /\ chan \in [Opens -> Seq({"data", "eof"})]
    BY <1>0, EmptySeq DEF InputOrder
  <2>2. chan' \in [Opens -> Seq({"data", "eof"})]
    BY <2>1, <2>1a
  <2>2a. \A p \in readEof : p \in Opens /\ chan[p] = <<>>
    BY <1>0 DEF InputOrder, AnyTypes, Opens
  <2>3. Len(<<>>) = 0 /\ DOMAIN <<>> = {}
    BY EmptySeq
  <2>4. \A p \in readEof : chan'[p] = <<>>
    BY <2>1, <2>2a
  <2> QED
    BY <1>0, <2>1, <2>2, <2>3, <2>4 DEF InputOrder
<1>15. ASSUME NEW o \in Opens, AnyAborts(o) PROVE InputOrder'
  <2>1. /\ \A p \in Opens : chan'[p] \in {chan[p], <<>>}
        /\ chan' = chan \/ chan' = [chan EXCEPT ![o] = <<>>]
        /\ UNCHANGED <<recv, sending, opened, peerFin, readEof>>
    BY <1>0, <1>15 DEF AnyAborts, outRest, Drop, InputOrder
  <2>1a. <<>> \in Seq({"data", "eof"}) /\ chan \in [Opens -> Seq({"data", "eof"})]
    BY <1>0, EmptySeq DEF InputOrder
  <2>2. chan' \in [Opens -> Seq({"data", "eof"})]
    BY <2>1, <2>1a
  <2>2a. \A p \in readEof : p \in Opens /\ chan[p] = <<>>
    BY <1>0 DEF InputOrder, AnyTypes, Opens
  <2>3. Len(<<>>) = 0 /\ DOMAIN <<>> = {}
    BY EmptySeq
  <2>4. \A p \in readEof : chan'[p] = <<>>
    BY <2>1, <2>2a
  <2> QED
    BY <1>0, <2>1, <2>2, <2>3, <2>4 DEF InputOrder
<1>16. ASSUME NEW o \in Opens, AnyCleanTask(o) PROVE InputOrder'
  <2>1. UNCHANGED <<chan, sending, recv, opened, peerFin, readEof>>
    BY <1>16 DEF AnyCleanTask, cleanRest
  <2> QED
    BY <1>0, <2>1 DEF InputOrder
<1>17. ASSUME NEW o \in Opens, AnyCleanStream(o) PROVE InputOrder'
  <2>1. UNCHANGED <<chan, sending, recv, opened, peerFin, readEof>>
    BY <1>17 DEF AnyCleanStream, cleanRest
  <2> QED
    BY <1>0, <2>1 DEF InputOrder
<1>18. ASSUME NEW o \in Opens, AnyHandlerCloses(o) PROVE InputOrder'
  <2>1. UNCHANGED <<chan, sending, recv, opened, peerFin, readEof>>
    BY <1>18 DEF AnyHandlerCloses, CloseNow
  <2> QED
    BY <1>0, <2>1 DEF InputOrder
<1> QED
  BY <1>1, <1>2, <1>3, <1>4, <1>5, <1>6, <1>7, <1>8, <1>9,
     <1>10, <1>11, <1>12, <1>13, <1>14, <1>15, <1>16, <1>17, <1>18 DEF AnyNext

(* A stream that is not shut has no FIN under way, so that one more frame of it
   leaves the FINs last; and so does taking the head. *)
LEMMA FinsLastAppend ==
  ASSUME NEW q \in Seq(OutItem), NEW x \in OutItem, FinsLast(q),
         \A k \in DOMAIN q : q[k][2] = "fin" => q[k][1] # x[1]
  PROVE  FinsLast(Append(q, x))
<1>1. /\ Len(q) \in Nat /\ DOMAIN q = 1..Len(q) /\ DOMAIN Append(q, x) = 1..(Len(q) + 1)
      /\ \A k \in 1..Len(q) : Append(q, x)[k] = q[k]
      /\ Append(q, x)[Len(q) + 1] = x
  BY AppendTells
<1> SUFFICES ASSUME NEW j \in 1..(Len(q) + 1), NEW k \in 1..(Len(q) + 1),
                    Append(q, x)[j][2] = "fin", Append(q, x)[k][1] = Append(q, x)[j][1]
             PROVE  k <= j
  BY <1>1 DEF FinsLast
<1>2. CASE j = Len(q) + 1
  BY <1>1, <1>2
<1>3. CASE j # Len(q) + 1
  <2>1. j \in 1..Len(q)
    BY <1>1, <1>3
  <2>2. k # Len(q) + 1
    BY <1>1, <2>1
  <2>3. k \in 1..Len(q)
    BY <1>1, <2>2
  <2> QED
    BY <1>1, <2>1, <2>3 DEF FinsLast
<1> QED
  BY <1>2, <1>3

LEMMA FinsLastTail ==
  ASSUME NEW q \in Seq(OutItem), q # <<>>, FinsLast(q)
  PROVE  /\ FinsLast(Tail(q))
         /\ Head(q)[2] = "fin" => \A k \in DOMAIN Tail(q) : Tail(q)[k][1] # Head(q)[1]
<1>1. /\ Len(q) \in Nat \ {0} /\ DOMAIN q = 1..Len(q) /\ DOMAIN Tail(q) = 1..(Len(q) - 1)
      /\ \A k \in 1..(Len(q) - 1) : Tail(q)[k] = q[k + 1] /\ k + 1 \in 1..Len(q) /\ k \in Nat
      /\ Head(q) = q[1] /\ 1 \in 1..Len(q)
  BY TailShifts
<1>2. FinsLast(Tail(q))
  <2> SUFFICES ASSUME NEW j \in 1..(Len(q) - 1), NEW k \in 1..(Len(q) - 1),
                      q[j + 1][2] = "fin", q[k + 1][1] = q[j + 1][1]
               PROVE  k <= j
    BY <1>1 DEF FinsLast
  <2>1. k + 1 <= j + 1
    BY <1>1 DEF FinsLast
  <2> QED
    BY <1>1, <2>1
<1>3. ASSUME Head(q)[2] = "fin", NEW k \in 1..(Len(q) - 1), Tail(q)[k][1] = Head(q)[1]
      PROVE  FALSE
  <2>1. q[1][2] = "fin" /\ q[k + 1][1] = q[1][1]
    BY <1>1, <1>3
  <2>2. k + 1 <= 1
    BY <1>1, <2>1 DEF FinsLast
  <2> QED
    BY <1>1, <2>2
<1> QED
  BY <1>1, <1>2, <1>3

(* One frame more of a stream that is not shut, or none; a FIN shuts it. *)
LEMMA FrameQueued ==
  ASSUME AnyTypes, OutputOrder, NEW o \in Opens, o \notin shut, NEW kind \in {"data", "fin"},
         Len(outgoing) < AnyOutCap, outgoing' = Append(outgoing, <<o, kind>>),
         shut \subseteq shut', kind = "fin" => o \in shut',
         UNCHANGED <<anyWire, outTask, finOut>>
  PROVE  OutputOrder'
<1> DEFINE x == <<o, kind>>
<1>1. /\ x \in OutItem /\ x[1] = o /\ x[2] = kind /\ outgoing \in Seq(OutItem)
      /\ AnyOutCap \in Nat /\ outgoing' = Append(outgoing, x)
  BY AnyConstants DEF OutItem, OutputOrder
<1> HIDE DEF x
<1>2. /\ outgoing' \in Seq(OutItem) /\ Len(outgoing') = Len(outgoing) + 1 /\ Len(outgoing) \in Nat
      /\ DOMAIN outgoing = 1..Len(outgoing) /\ DOMAIN outgoing' = 1..(Len(outgoing) + 1)
      /\ \A k \in 1..Len(outgoing) : outgoing'[k] = outgoing[k]
      /\ outgoing'[Len(outgoing) + 1] = x
  BY <1>1, AppendTells
<1>3. \A k \in DOMAIN outgoing : outgoing[k][2] = "fin" => outgoing[k][1] # o
  BY DEF OutputOrder
<1>4. FinsLast(outgoing')
  BY <1>1, <1>3, FinsLastAppend DEF OutputOrder
<1>5. \A k \in DOMAIN outgoing' : (k \in DOMAIN outgoing /\ outgoing'[k] = outgoing[k]) \/ outgoing'[k] = x
  BY <1>2
<1>6. \A k \in DOMAIN outgoing' : outgoing'[k][2] = "fin" => outgoing'[k][1] \in shut'
  BY <1>1, <1>5 DEF OutputOrder
<1>7. \A j \in DOMAIN anyWire : anyWire[j][2] = "fin" =>
         anyWire[j][1] \in shut' /\ \A k \in DOMAIN outgoing' : outgoing'[k][1] # anyWire[j][1]
  BY <1>1, <1>5 DEF OutputOrder
<1>8. Len(outgoing') <= AnyOutCap
  BY <1>1, <1>2
<1> QED
  BY <1>2, <1>4, <1>6, <1>7, <1>8 DEF OutputOrder

(* The FIN of a stream, in the channel and on the wire. *)
LEMMA OutputKeeps == ASSUME AnyIInv, AnyNext PROVE OutputOrder'
<1>0. AnyTypes /\ OutputOrder /\ MaxOpens \in Nat /\ AnyOutCap \in Nat
  BY AnyConstants DEF AnyIInv
<1>1. ASSUME AnySettings PROVE OutputOrder'
  <2>1. UNCHANGED <<outgoing, anyWire, shut, outTask, finOut>>
    BY <1>1 DEF AnySettings
  <2> QED
    BY <1>0, <2>1 DEF OutputOrder
<1>2. ASSUME AnyDeliver PROVE OutputOrder'
  <2>1. UNCHANGED <<outgoing, anyWire, shut, outTask, finOut>>
    BY <1>2 DEF AnyDeliver, rest
  <2> QED
    BY <1>0, <2>1 DEF OutputOrder
<1>3. ASSUME AnyRecvEnds PROVE OutputOrder'
  <2>1. UNCHANGED <<outgoing, anyWire, shut, outTask, finOut>>
    BY <1>3 DEF AnyRecvEnds, rest
  <2> QED
    BY <1>0, <2>1 DEF OutputOrder
<1>4. ASSUME AnySend PROVE OutputOrder'
  <2> DEFINE m == Head(outgoing)
  <2>1. /\ outgoing # <<>> /\ outgoing' = Tail(outgoing) /\ shut' = shut
        /\ anyWire' \in {anyWire, Append(anyWire, m)}
        /\ outTask' = "forgetting" => m[2] = "fin" /\ finOut' = m[1]
    BY <1>4 DEF AnySend, wireRest
  <2>2. outgoing \in Seq(OutItem) /\ anyWire \in Seq(OutItem) /\ FinsLast(outgoing) /\ FinsLast(anyWire)
    BY <1>0 DEF OutputOrder
  <2>3. /\ outgoing' \in Seq(OutItem) /\ Len(outgoing') = Len(outgoing) - 1 /\ Len(outgoing) \in Nat
        /\ DOMAIN outgoing' = 1..(Len(outgoing) - 1) /\ DOMAIN outgoing = 1..Len(outgoing)
        /\ \A k \in DOMAIN outgoing' : outgoing'[k] = outgoing[k + 1]
        /\ m = outgoing[1] /\ m \in OutItem /\ Len(outgoing) # 0
    BY <2>1, <2>2, TailShifts
  <2>4. /\ FinsLast(outgoing')
        /\ m[2] = "fin" => \A k \in DOMAIN outgoing' : outgoing'[k][1] # m[1]
    BY <2>1, <2>2, FinsLastTail
  <2> HIDE DEF m
  <2>5. /\ 1 \in DOMAIN outgoing
        /\ \A k \in DOMAIN outgoing' : k + 1 \in DOMAIN outgoing /\ outgoing'[k] = outgoing[k + 1]
        /\ Len(outgoing') <= AnyOutCap
    BY <1>0, <2>3 DEF OutputOrder
  <2>6. /\ \A k \in DOMAIN outgoing' : outgoing'[k][2] = "fin" => outgoing'[k][1] \in shut
        /\ m[2] = "fin" => m[1] \in shut
    BY <1>0, <2>3, <2>5 DEF OutputOrder
  <2>7. /\ \A j \in DOMAIN anyWire : anyWire[j][2] = "fin" =>
              anyWire[j][1] \in shut /\ \A k \in DOMAIN outgoing' : outgoing'[k][1] # anyWire[j][1]
        /\ \A j \in DOMAIN anyWire : anyWire[j][2] = "fin" => anyWire[j][1] # m[1]
    BY <1>0, <2>3, <2>5 DEF OutputOrder
  <2>8. CASE anyWire' = anyWire
    BY <2>1, <2>2, <2>3, <2>4, <2>5, <2>6, <2>7, <2>8 DEF OutputOrder
  <2>9. CASE anyWire' = Append(anyWire, m)
    <3>1. anyWire' \in Seq(OutItem) /\ FinsLast(anyWire')
      BY <2>2, <2>3, <2>7, <2>9, AppendTells, FinsLastAppend
    <3>2. \A j \in DOMAIN anyWire' : (j \in DOMAIN anyWire /\ anyWire'[j] = anyWire[j]) \/ anyWire'[j] = m
      BY <2>2, <2>3, <2>9, AppendTells
    <3>3. \A j \in DOMAIN anyWire' : anyWire'[j][2] = "fin" =>
             anyWire'[j][1] \in shut /\ \A k \in DOMAIN outgoing' : outgoing'[k][1] # anyWire'[j][1]
      BY <2>4, <2>6, <2>7, <3>2
    <3> QED
      BY <2>1, <2>3, <2>4, <2>5, <2>6, <3>1, <3>3 DEF OutputOrder
  <2> QED
    BY <2>1, <2>8, <2>9
<1>5. ASSUME AnyForget PROVE OutputOrder'
  <2>1. UNCHANGED <<outgoing, anyWire, shut>> /\ outTask' # "forgetting"
    BY <1>5 DEF AnyForget, wireRest
  <2> QED
    BY <1>0, <2>1 DEF OutputOrder
<1>6. ASSUME AnyRunEnds PROVE OutputOrder'
  <2>1. outgoing' = <<>> /\ anyWire' = <<>> /\ outTask' # "forgetting"
    BY <1>6 DEF AnyRunEnds, CloseNow
  <2>2. <<>> \in Seq(OutItem) /\ Len(<<>>) = 0 /\ DOMAIN <<>> = {}
    BY EmptySeq
  <2> QED
    BY <1>0, <2>1, <2>2 DEF OutputOrder, FinsLast
<1>7. ASSUME NEW i \in AnyIds, AnySyn(i) PROVE OutputOrder'
  <2>1. UNCHANGED <<outgoing, anyWire, shut, outTask, finOut>>
    BY <1>7 DEF AnySyn
  <2> QED
    BY <1>0, <2>1 DEF OutputOrder
<1>8. ASSUME NEW i \in AnyIds, AnyPsh(i) PROVE OutputOrder'
  <2>1. UNCHANGED <<outgoing, anyWire, shut, outTask, finOut>>
    BY <1>8 DEF AnyPsh, rest
  <2> QED
    BY <1>0, <2>1 DEF OutputOrder
<1>9. ASSUME NEW i \in AnyIds, AnyFin(i) PROVE OutputOrder'
  <2>1. UNCHANGED <<outgoing, anyWire, shut, outTask, finOut>>
    BY <1>9 DEF AnyFin, rest
  <2> QED
    BY <1>0, <2>1 DEF OutputOrder
<1>10. ASSUME NEW i \in AnyIds, AnyFinUnknown(i) PROVE OutputOrder'
  <2>1. UNCHANGED <<outgoing, anyWire, shut, outTask, finOut>>
    BY <1>10 DEF AnyFinUnknown, rest
  <2> QED
    BY <1>0, <2>1 DEF OutputOrder
<1>11. ASSUME NEW o \in Opens, AnyRead(o) PROVE OutputOrder'
  <2>1. UNCHANGED <<outgoing, anyWire, shut, outTask, finOut>>
    BY <1>11 DEF AnyRead
  <2> QED
    BY <1>0, <2>1 DEF OutputOrder
<1>12. ASSUME NEW o \in Opens, AnyWrite(o) PROVE OutputOrder'
  <2>1. /\ o \notin shut /\ Len(outgoing) < AnyOutCap /\ outgoing' = Append(outgoing, <<o, "data">>)
        /\ UNCHANGED <<anyWire, shut, outTask, finOut>>
    BY <1>12 DEF AnyWrite, outRest
  <2> QED
    BY <1>0, <2>1, FrameQueued
<1>13. ASSUME NEW o \in Opens, AnyShutdown(o) PROVE OutputOrder'
  <2>0. Len(outgoing) \in Nat /\ AnyOutCap \in Nat
    BY <1>0, LenProperties DEF OutputOrder
  <2>1. /\ \/ outgoing' = outgoing /\ shut' \in {shut, shut \cup {o}}
           \/ /\ o \notin shut /\ Len(outgoing) < AnyOutCap
              /\ outgoing' = Append(outgoing, <<o, "fin">>) /\ shut' = shut \cup {o}
        /\ UNCHANGED <<anyWire, outTask, finOut>>
    BY <2>0, <1>13 DEF AnyShutdown, outRest
  <2>2. CASE outgoing' = outgoing
    BY <1>0, <2>1, <2>2 DEF OutputOrder
  <2>3. CASE outgoing' # outgoing
    BY <1>0, <2>1, <2>3, FrameQueued
  <2> QED
    BY <2>2, <2>3
<1>14. ASSUME NEW o \in Opens, AnyFinish(o) PROVE OutputOrder'
  <2>0. Len(outgoing) \in Nat /\ AnyOutCap \in Nat
    BY <1>0, LenProperties DEF OutputOrder
  <2>1. /\ \/ outgoing' = outgoing /\ shut' \in {shut, shut \cup {o}}
           \/ /\ o \notin shut /\ Len(outgoing) < AnyOutCap
              /\ outgoing' = Append(outgoing, <<o, "fin">>) /\ shut' = shut \cup {o}
        /\ UNCHANGED <<anyWire, outTask, finOut>>
    BY <2>0, <1>14 DEF AnyFinish, outRest, Drop
  <2>2. CASE outgoing' = outgoing
    BY <1>0, <2>1, <2>2 DEF OutputOrder
  <2>3. CASE outgoing' # outgoing
    BY <1>0, <2>1, <2>3, FrameQueued
  <2> QED
    BY <2>2, <2>3
<1>15. ASSUME NEW o \in Opens, AnyAborts(o) PROVE OutputOrder'
  <2>0. Len(outgoing) \in Nat /\ AnyOutCap \in Nat
    BY <1>0, LenProperties DEF OutputOrder
  <2>1. /\ \/ outgoing' = outgoing /\ shut' \in {shut, shut \cup {o}}
           \/ /\ o \notin shut /\ Len(outgoing) < AnyOutCap
              /\ outgoing' = Append(outgoing, <<o, "fin">>) /\ shut' = shut \cup {o}
        /\ UNCHANGED <<anyWire, outTask, finOut>>
    BY <2>0, <1>15 DEF AnyAborts, outRest, Drop
  <2>2. CASE outgoing' = outgoing
    BY <1>0, <2>1, <2>2 DEF OutputOrder
  <2>3. CASE outgoing' # outgoing
    BY <1>0, <2>1, <2>3, FrameQueued
  <2> QED
    BY <2>2, <2>3
<1>16. ASSUME NEW o \in Opens, AnyCleanTask(o) PROVE OutputOrder'
  <2>1. UNCHANGED <<outgoing, anyWire, shut, outTask, finOut>>
    BY <1>16 DEF AnyCleanTask, cleanRest
  <2> QED
    BY <1>0, <2>1 DEF OutputOrder
<1>17. ASSUME NEW o \in Opens, AnyCleanStream(o) PROVE OutputOrder'
  <2>1. UNCHANGED <<outgoing, anyWire, shut, outTask, finOut>>
    BY <1>17 DEF AnyCleanStream, cleanRest
  <2> QED
    BY <1>0, <2>1 DEF OutputOrder
<1>18. ASSUME NEW o \in Opens, AnyHandlerCloses(o) PROVE OutputOrder'
  <2>1. UNCHANGED <<outgoing, anyWire, shut, outTask, finOut>>
    BY <1>18 DEF AnyHandlerCloses, CloseNow
  <2> QED
    BY <1>0, <2>1 DEF OutputOrder
<1> QED
  BY <1>1, <1>2, <1>3, <1>4, <1>5, <1>6, <1>7, <1>8, <1>9,
     <1>10, <1>11, <1>12, <1>13, <1>14, <1>15, <1>16, <1>17, <1>18 DEF AnyNext

(* Whatever order handlers end, FINs arrive and close() runs in, a session of
   AnyTLS keeps the properties of its maps and of its channels. *)
THEOREM AnyAlwaysSafe == AnySafetySpec => []AnySafe
<1>1. AnyIInv /\ [AnyNext]_anyVars => AnyIInv'
  <2> SUFFICES ASSUME AnyIInv, [AnyNext]_anyVars PROVE AnyIInv'
    OBVIOUS
  <2>1. CASE AnyNext
    BY <2>1, AnyTypesKeep, FiledKeeps, PeerOrderKeeps, InputKeeps, OutputKeeps, HandlesKeep,
       NothingLeftKeeps, ReachableKeeps DEF AnyIInv
  <2>2. CASE UNCHANGED anyVars
    <3>1. AnyTypes' /\ FiledById' /\ PeerOrder'
      BY <2>2 DEF anyVars, AnyIInv, AnyTypes, FiledById, PeerOrder
    <3>2. InputOrder' /\ OutputOrder'
      BY <2>2 DEF anyVars, AnyIInv, InputOrder, OutputOrder, FinsLast
    <3>3. HandlesKept' /\ NothingLeftBehind' /\ ReachableUntilFin'
      BY <2>2 DEF anyVars, AnyIInv, HandlesKept, OnlyOne, NothingLeftBehind, ReachableUntilFin,
                  Reused, Alive
    <3> QED
      BY <3>1, <3>2, <3>3 DEF AnyIInv
  <2> QED
    BY <2>1, <2>2
<1>2. AnyIInv => AnySafe
  <2> SUFFICES ASSUME AnyIInv PROVE AnySafe
    OBVIOUS
  <2>1. AnyTypeOK
    BY DEF AnyIInv, AnyTypes, InputOrder, OutputOrder, AnyTypeOK, HandlerStates
  <2>2. EndIsLast
    BY DEF AnyIInv, InputOrder, OutputOrder, FinsLast, EndIsLast
  <2>3. CloseAborts
    BY DEF AnyIInv, HandlesKept, OnlyOne, CloseAborts
  <2> QED
    BY <2>1, <2>2, <2>3 DEF AnyIInv, AnySafe
<1> QED
  BY <1>1, <1>2, AnyInitial, PTL DEF AnySafetySpec
=============================================================================
