----------------------------- MODULE SmuxBudget -----------------------------
(***************************************************************************)
(* The receive budgets of smux: every queued payload is charged to its     *)
(* stream, to the stream's session and to the listener.  A session's       *)
(* reader that finds no room parks until a refund, and after a grace       *)
(* without one evicts the largest holder.                                  *)
(*                                                                         *)
(* The three counters are separate atomics: a charge goes from the         *)
(* listener down, a refund from the stream up, one counter per step.  An   *)
(* evicted leaf is never used again, so its generation is its membership   *)
(* in `evicted'.                                                           *)
(***************************************************************************)
EXTENDS Naturals, Sequences, FiniteSets, FiniteSetsExt, SequencesExt

CONSTANTS
    MuxSessions,   \* physical sessions of the listener
    MuxStreams,    \* their logical streams
    SessionOf,     \* stream -> session
    BudgetMax,     \* budget -> bytes it admits
    FrameLengths,  \* lengths of PSH payloads
    QueueFrames,   \* inbound_frames_per_stream
    MaxFrames      \* bound: payloads the peers send

Listener == "listener"
Budgets == {Listener} \cup MuxSessions \cup MuxStreams
Actors == MuxSessions \cup MuxStreams

ASSUME BudgetConstants ==
    /\ IsFiniteSet(MuxSessions) /\ IsFiniteSet(MuxStreams)
    /\ MuxStreams # {} /\ MuxSessions \cap MuxStreams = {} /\ Listener \notin Actors
    /\ SessionOf \in [MuxStreams -> MuxSessions] /\ BudgetMax \in [Budgets -> Nat]
    /\ FrameLengths \subseteq Nat /\ QueueFrames \in Nat /\ MaxFrames \in Nat

(* ReceiveBudget::chain: from the listener to the stream. *)
Chain(s) == <<Listener, SessionOf[s], s>>

VARIABLES
    used,       \* budget -> charged bytes
    evicted,    \* streams whose budget carries BUDGET_EVICTED
    rxQueue,    \* stream -> lengths of the payloads queued for it
    listed,     \* streams in their session's map
    rxClosed,   \* streams whose VirtualStream is gone
    evictions,  \* session -> stream ids in its eviction channel
    reader,     \* session -> deliver_payload of its reader
    job,        \* actor -> the refund, eviction or roll-back it is in
    rolledBack, \* history: readers whose room came from a roll-back
    frames      \* payloads sent so far

budgetVars == <<used, evicted, rxQueue, listed, rxClosed, evictions, reader,
                job, rolledBack, frames>>

ReaderPc == {"idle", "lookup", "charge", "refused", "register", "parked", "enqueue", "full"}

(* deliver_payload: its place, its frame, the next counter to charge, the
   budget that refused, whether a RefundWait is held and has been notified,
   and whether the payload is charged. *)
Idle == [pc |-> "idle", s |-> CHOOSE s \in MuxStreams : TRUE, n |-> 0, at |-> 1,
         blocked |-> Listener, waiting |-> FALSE, notified |-> FALSE, charged |-> FALSE]

(* A walk over Chain(s) that gives back n bytes; at is the next counter, 0 the
   end of the walk. *)
NoJob == [kind |-> "none", s |-> CHOOSE s \in MuxStreams : TRUE, n |-> 0, at |-> 0]
Job(kind, s, n, at) == [kind |-> kind, s |-> s, n |-> n, at |-> at]

Free(a) == job[a].kind = "none"
Fits(b, n) == b \notin evicted /\ used[b] + n <= BudgetMax[b]

-----------------------------------------------------------------------------
(* The reader has a PSH frame of a stream it lists.  Evictions come first: the
   select is biased.  A frame of an unlisted or closed stream is discarded. *)
ReadFrame(r, s, n) ==
    /\ reader[r].pc = "idle" /\ Free(r)
    /\ evictions[r] = {}
    /\ SessionOf[s] = r /\ s \in listed /\ s \notin rxClosed
    /\ frames < MaxFrames
    /\ frames' = frames + 1
    /\ reader' = [reader EXCEPT ![r] = [Idle EXCEPT !.pc = "charge", !.s = s, !.n = n]]
    /\ UNCHANGED <<used, evicted, rxQueue, listed, rxClosed, evictions, job, rolledBack>>

(* deliver_payload gives up on a frame: a charged payload is dropped, and the
   drop of its permit refunds it. *)
Abandon(r) ==
    /\ reader' = [reader EXCEPT ![r] = Idle]
    /\ job' = IF reader[r].charged
              THEN [job EXCEPT ![r] = Job("refund", reader[r].s, reader[r].n, 3)]
              ELSE job

(* The top of the loop: the stream is looked up afresh every turn. *)
Lookup(r) ==
    LET s == reader[r].s  gone == s \notin listed \/ s \in rxClosed
    IN  /\ reader[r].pc = "lookup" /\ Free(r)
        /\ \/ gone /\ Abandon(r)
           \/ /\ ~gone
              /\ reader' = [reader EXCEPT ![r].pc = IF reader[r].charged THEN "enqueue" ELSE "charge",
                                          ![r].at = 1,
                                          ![r].waiting = FALSE, ![r].notified = FALSE]
              /\ UNCHANGED job
        /\ rolledBack' = rolledBack \ {r}
        /\ UNCHANGED <<used, evicted, rxQueue, listed, rxClosed, evictions, frames>>

(* charge_one on the next counter of the chain; the first that refuses starts
   the roll-back of those already charged. *)
ChargeOne(r) ==
    LET q == reader[r]  b == Chain(q.s)[q.at]
    IN  /\ q.pc = "charge" /\ Free(r)
        /\ IF Fits(b, q.n)
           THEN /\ used' = [used EXCEPT ![b] = @ + q.n]
                /\ reader' = [reader EXCEPT ![r] =
                     IF q.at < 3 THEN [q EXCEPT !.at = @ + 1]
                     ELSE [q EXCEPT !.charged = TRUE, !.waiting = FALSE, !.notified = FALSE,
                                    !.pc = "enqueue"]]
                /\ UNCHANGED job
           ELSE /\ job' = [job EXCEPT ![r] = IF q.at = 1 THEN NoJob
                                             ELSE Job("rollback", q.s, q.n, q.at - 1)]
                /\ reader' = [reader EXCEPT ![r].pc = "refused",
                                ![r].at = q.at,
                                ![r].blocked = IF q.waiting THEN @ ELSE b]
                /\ UNCHANGED used
        /\ UNCHANGED <<evicted, rxQueue, listed, rxClosed, evictions, rolledBack, frames>>

(* What a refusal leads to: nothing more for an evicted stream; registration
   for the refund the first time; then parking, unless another budget is the
   one that is short now. *)
Refused(r) ==
    LET q == reader[r]
    IN  /\ q.pc = "refused" /\ Free(r)
        /\ reader' = [reader EXCEPT ![r] =
              IF q.s \in evicted THEN Idle
              ELSE IF ~q.waiting THEN [q EXCEPT !.pc = "register"]
              ELSE IF Chain(q.s)[q.at] # q.blocked THEN [q EXCEPT !.pc = "lookup"]
              ELSE [q EXCEPT !.pc = "parked"]]
        /\ UNCHANGED <<used, evicted, rxQueue, listed, rxClosed, evictions, job,
                       rolledBack, frames>>

(* refund_wait: counted as a waiter and enabled, then the charge is tried again. *)
Register(r) ==
    /\ reader[r].pc = "register"
    /\ reader' = [reader EXCEPT ![r].pc = "charge", ![r].at = 1,
                                ![r].waiting = TRUE, ![r].notified = FALSE]
    /\ rolledBack' = rolledBack \ {r}
    /\ UNCHANGED <<used, evicted, rxQueue, listed, rxClosed, evictions, job, frames>>

(* evict_stream for a received eviction: the stream leaves the map, its task
   is aborted (it drops the stream) and it is told why. *)
ServiceEviction(r) ==
    /\ reader[r].pc \in {"idle", "parked", "full"} /\ Free(r)
    /\ \E s \in evictions[r] :
          /\ evictions' = [evictions EXCEPT ![r] = @ \ {s}]
          /\ listed' = listed \ {s}
    /\ reader' = [reader EXCEPT ![r].pc = IF @ = "idle" THEN @ ELSE "lookup"]
    /\ UNCHANGED <<used, evicted, rxQueue, rxClosed, job, rolledBack, frames>>

(* A parked reader that was notified, or whose stream went away, looks again. *)
Wake(r) ==
    /\ reader[r].pc = "parked"
    /\ evictions[r] = {}
    /\ reader[r].notified \/ reader[r].s \in rxClosed
    /\ reader' = [reader EXCEPT ![r].pc = "lookup"]
    /\ UNCHANGED <<used, evicted, rxQueue, listed, rxClosed, evictions, job,
                   rolledBack, frames>>

(* largest_leaf below a budget. *)
Leaves(b) == {s \in MuxStreams \ evicted : b \in {Listener, SessionOf[s], s}}
Largest(b) == {s \in Leaves(b) : \A t \in Leaves(b) : used[t] <= used[s]}

(* A bug: only a sibling gives way, never the stream that asks. *)
VictimsSibling(q) ==
    {s \in Largest(q.blocked) : s # q.s /\ used[q.s] + q.n < used[s]}

(* evict_stalled: the largest holder gives way, unless this frame would make
   its own stream the largest. *)
Victims(q) ==
    IF \/ Leaves(q.blocked) = {}
       \/ \E s \in Largest(q.blocked) : s = q.s \/ used[q.s] + q.n >= used[s]
    THEN {q.s}
    ELSE Largest(q.blocked)

(* The grace passed with no refund.  evict marks the leaf and takes its bytes
   in one update; the refunds above it follow, under the eviction lock. *)
GraceExpires(r) ==
    LET q == reader[r]
    IN  /\ q.pc = "parked" /\ Free(r)
        /\ evictions[r] = {} /\ ~q.notified /\ q.s \notin rxClosed
        /\ \A a \in Actors : job[a].kind # "evict"
        /\ \E v \in Victims(q) :
             /\ evicted' = evicted \cup {v}
             /\ used' = [used EXCEPT ![v] = IF v \in evicted THEN @ ELSE 0]
             /\ job' = [job EXCEPT ![r] = IF v \in evicted THEN NoJob
                          ELSE Job("evict", v, used[v], IF used[v] > 0 THEN 2 ELSE 0)]
        /\ reader' = [reader EXCEPT ![r].pc = "lookup"]
        /\ UNCHANGED <<rxQueue, listed, rxClosed, evictions, rolledBack, frames>>

(* The charged payload takes a slot of the stream's frame queue, or is dropped
   because the stream closed, or waits for a slot. *)
Enqueue(r) ==
    LET q == reader[r]  s == q.s
    IN  /\ q.pc \in {"enqueue", "full"} /\ Free(r)
        /\ q.pc = "full" => evictions[r] = {}
        /\ \/ /\ s \in rxClosed /\ Abandon(r)
              /\ UNCHANGED rxQueue
           \/ /\ s \notin rxClosed /\ Len(rxQueue[s]) < QueueFrames
              /\ rxQueue' = [rxQueue EXCEPT ![s] = Append(@, q.n)]
              /\ reader' = [reader EXCEPT ![r] = Idle]
              /\ UNCHANGED job
           \/ /\ q.pc = "enqueue" /\ s \notin rxClosed /\ Len(rxQueue[s]) >= QueueFrames
              /\ reader' = [reader EXCEPT ![r].pc = "full"]
              /\ UNCHANGED <<rxQueue, job>>
        /\ UNCHANGED <<used, evicted, listed, rxClosed, evictions, rolledBack, frames>>

(* A full frame queue for a whole grace: the stream itself is evicted from the
   map; its budget is not marked, the drop of its data refunds it. *)
QueueGraceExpires(r) ==
    LET s == reader[r].s
    IN  /\ reader[r].pc = "full" /\ Free(r)
        /\ evictions[r] = {} /\ s \notin rxClosed /\ Len(rxQueue[s]) >= QueueFrames
        /\ listed' = listed \ {s}
        /\ Abandon(r)
        /\ UNCHANGED <<used, evicted, rxQueue, rxClosed, evictions, rolledBack, frames>>

-----------------------------------------------------------------------------
(* A read of the stream consumes a chunk, and the drop of a closed stream drops
   what is queued: each permit is refunded. *)
Consume(s) ==
    /\ Free(s) /\ rxQueue[s] # <<>>
    /\ rxQueue' = [rxQueue EXCEPT ![s] = Tail(@)]
    /\ job' = [job EXCEPT ![s] = Job("refund", s, Head(rxQueue[s]), 3)]
    /\ UNCHANGED <<used, evicted, listed, rxClosed, evictions, reader, rolledBack, frames>>

(* The logical stream ends, by itself or because its task was aborted. *)
DropStream(s) ==
    /\ s \notin rxClosed
    /\ Free(s)
    /\ rxClosed' = rxClosed \cup {s}
    /\ UNCHANGED <<used, evicted, rxQueue, listed, evictions, reader, job, rolledBack, frames>>

(* Readers that wait on a budget of Chain(s) and are registered. *)
Waiters(s) == {r \in MuxSessions : reader[r].waiting
                                     /\ reader[r].blocked \in Range(Chain(s))}

(* The end of a refund or an eviction: wake_refund_waiters on the whole chain; an
   eviction is then sent to its session. *)
FinishWalk(a) ==
    LET j == job[a]
    IN  /\ ~Free(a) /\ j.at = 0
        /\ job' = [job EXCEPT ![a] = NoJob]
        /\ reader' = [r \in MuxSessions |->
                        IF r \in Waiters(j.s) THEN [reader[r] EXCEPT !.notified = TRUE]
                                              ELSE reader[r]]
        /\ evictions' = IF j.kind = "evict"
                        THEN [evictions EXCEPT ![SessionOf[j.s]] = @ \cup {j.s}]
                        ELSE evictions
        /\ UNCHANGED <<used, evicted, rxQueue, listed, rxClosed, rolledBack, frames>>

(* A bug: the refund of a permit ignores that its stream was evicted. *)
RefundOneStale(a) ==
    LET j == job[a]  b == Chain(j.s)[j.at]
    IN  /\ ~Free(a) /\ j.at > 0
        /\ used' = [used EXCEPT ![b] = IF @ < j.n THEN 0 ELSE @ - j.n]
        /\ job' = [job EXCEPT ![a].at = @ - 1]
        /\ rolledBack' = rolledBack \cup
             IF j.kind = "rollback" THEN {r \in MuxSessions : reader[r].waiting
                                                            /\ reader[r].blocked = b}
             ELSE {}
        /\ UNCHANGED <<evicted, rxQueue, listed, rxClosed, evictions, reader, frames>>

(* refund_permit and refund_one on one counter.  The permit of an evicted
   stream refunds nothing, anywhere; the subtraction saturates; a roll-back ends
   without waking anybody. *)
RefundOne(a) ==
    LET j == job[a]  b == Chain(j.s)[j.at]
        void == j.kind = "refund" /\ j.at = 3 /\ j.s \in evicted
    IN  /\ ~Free(a) /\ j.at > 0
        /\ used' = IF void THEN used ELSE [used EXCEPT ![b] = IF @ < j.n THEN 0 ELSE @ - j.n]
        /\ job' = [job EXCEPT ![a] = IF void \/ (j.kind = "rollback" /\ j.at = 1) THEN NoJob
                                     ELSE [j EXCEPT !.at = @ - 1]]
        /\ rolledBack' = rolledBack \cup
             IF j.kind = "rollback" THEN {r \in MuxSessions : reader[r].waiting
                                                            /\ reader[r].blocked = b}
             ELSE {}
        /\ UNCHANGED <<evicted, rxQueue, listed, rxClosed, evictions, reader, frames>>

-----------------------------------------------------------------------------
BudgetInit ==
    /\ used = [b \in Budgets |-> 0]
    /\ evicted = {} /\ rxClosed = {} /\ rolledBack = {}
    /\ rxQueue = [s \in MuxStreams |-> <<>>]
    /\ listed = MuxStreams
    /\ evictions = [r \in MuxSessions |-> {}]
    /\ reader = [r \in MuxSessions |-> Idle]
    /\ job = [a \in Actors |-> NoJob]
    /\ frames = 0

ReaderStep(r) ==
    \/ Lookup(r) \/ ChargeOne(r) \/ Refused(r) \/ Register(r) \/ ServiceEviction(r)
    \/ Wake(r) \/ GraceExpires(r) \/ Enqueue(r) \/ QueueGraceExpires(r)

WalkStep(a) == RefundOne(a) \/ FinishWalk(a)

BudgetNext ==
    \/ \E r \in MuxSessions, s \in MuxStreams, n \in FrameLengths : ReadFrame(r, s, n)
    \/ \E r \in MuxSessions : ReaderStep(r)
    \/ \E s \in MuxStreams : Consume(s) \/ DropStream(s)
    \/ \E a \in Actors : WalkStep(a)

(* The runtime polls a reader that can go on and lets timers expire; a task
   finishes the refund it is in.  That a stream is ever read is not assumed. *)
BudgetFair ==
    /\ \A r \in MuxSessions : WF_budgetVars(ReaderStep(r))
    /\ \A a \in Actors : WF_budgetVars(WalkStep(a))

BudgetSpec == BudgetInit /\ [][BudgetNext]_budgetVars /\ BudgetFair

-----------------------------------------------------------------------------
(* The variables of SmuxBudget are well formed. *)
BudgetTypeOK ==
    /\ used \in [Budgets -> Nat]
    /\ evicted \subseteq MuxStreams /\ listed \subseteq MuxStreams /\ rxClosed \subseteq MuxStreams
    /\ \A s \in MuxStreams : Len(rxQueue[s]) <= QueueFrames
    /\ \A r \in MuxSessions : /\ evictions[r] \subseteq {s \in MuxStreams : SessionOf[s] = r}
                              /\ reader[r].pc \in ReaderPc
    /\ \A a \in Actors : job[a].kind \in {"none", "refund", "evict", "rollback"}

(* What is charged to a budget beyond the budgets below it: charges on their
   way down and refunds on their way up. *)
ChargeAt(q, s, level) == IF q.pc = "charge" /\ q.s = s /\ q.at = level + 1 THEN q.n ELSE 0
WalkAt(j, s, level) == IF j.kind # "none" /\ j.s = s /\ j.at = level THEN j.n ELSE 0
Passing(s, level) ==
    SumFunction([r \in MuxSessions |-> ChargeAt(reader[r], s, level)])
      + SumFunction([a \in Actors |-> WalkAt(job[a], s, level)])

(* What the payloads of a stream amount to: those queued, the one a reader has
   charged, and those whose permits are being dropped. *)
InHand(q, s) == IF q.charged /\ q.s = s THEN q.n ELSE 0
Returning(j, s) == IF j.kind = "refund" /\ j.s = s /\ j.at = 3 THEN j.n ELSE 0
Held(s) ==
    SumFunction(rxQueue[s])
      + SumFunction([r \in MuxSessions |-> InHand(reader[r], s)])
      + SumFunction([a \in Actors |-> Returning(job[a], s)])

(* What a session has to account for of each stream. *)
OfSession(r) == [s \in MuxStreams |-> IF SessionOf[s] = r THEN used[s] + Passing(s, 2) ELSE 0]

(* Every budget charges exactly the payloads queued below it and what is in
   transit, whatever races with whatever: an eviction takes the bytes once, and
   the permits of the evicted stream refund nothing (ReceiveBudget). *)
ChargesAccounted ==
    /\ \A s \in MuxStreams : used[s] = IF s \in evicted THEN 0 ELSE Held(s)
    /\ \A r \in MuxSessions : used[r] = SumFunction(OfSession(r))
    /\ used[Listener] = SumFunction([r \in MuxSessions |-> used[r]])
                          + SumFunction([s \in MuxStreams |-> Passing(s, 1)])

(* No budget admits more than its limit, though three counters are charged one
   by one and other readers charge them in between. *)
WithinLimits == \A b \in Budgets : used[b] <= BudgetMax[b]

(* A refund or an eviction that will still wake the waiters of b. *)
WakeComing(b) ==
    \E a \in Actors : /\ job[a].kind \in {"refund", "evict"}
                      /\ b \in Range(Chain(job[a].s))

(* A parked reader with room in the budget it waits for has been notified or is
   about to be (wake_refund_waiters pairs with refund_wait).  Excepted is room
   made by the roll-back of another reader's charge, which notifies nobody: that
   reader waits for its grace. *)
RefundHeardButRollback ==
    \A r \in MuxSessions :
        (/\ reader[r].pc = "parked" /\ ~reader[r].notified
         /\ Fits(reader[r].blocked, reader[r].n) \/ reader[r].blocked \in evicted
         /\ r \notin rolledBack)
        => WakeComing(reader[r].blocked)

(* deliver_payload gives a payload up only for a stream that was evicted, that
   left the map or that is gone; congestion alone never loses one. *)
NoPayloadLost ==
    [][\A r \in MuxSessions :
          LET s == reader[r].s
          IN  (reader[r].pc # "idle" /\ reader'[r].pc = "idle")
              => \/ rxQueue'[s] = Append(rxQueue[s], reader[r].n)
                 \/ s \in evicted \/ s \notin listed' \/ s \in rxClosed]_budgetVars

(* A reader is never held for ever by streams that nobody reads: it delivers or
   gives up its frame, at the latest after evictions. *)
DeliveryEnds == \A r \in MuxSessions : reader[r].pc # "idle" ~> reader[r].pc = "idle"

(* The listener, session and stream budgets of smux.rs hold exactly the bytes
   that are queued or in a reader's hand, within their limits, and a reader that
   sleeps for room is woken by every refund except the roll-back in try_charge. *)
BudgetSafe == BudgetTypeOK /\ ChargesAccounted /\ WithinLimits /\ RefundHeardButRollback

(* The reader of smux.rs never drops the payload of a stream that is still
   served and whose receiver lives, and never waits for room for ever, even
   though it stops reading all other streams of its session meanwhile. *)
Delivery == NoPayloadLost /\ DeliveryEnds
=============================================================================
