----------------------------- MODULE RateLimit -----------------------------
(***************************************************************************)
(* The speed limit of one user of a node (tcp/tcp_server.rs): a token      *)
(* bucket that the user's connections share through USER_SPEED_LIMITERS.   *)
(* A connection asks the bucket, does its I/O and takes the tokens         *)
(* afterwards, in two critical sections, so several connections may be     *)
(* allowed the same tokens; initial data is taken in advance and slept     *)
(* off.  One step of the clock is the time in which one token per unit of  *)
(* rate comes in.                                                          *)
(***************************************************************************)
EXTENDS Integers, FiniteSets, FiniteSetsExt

CONSTANTS
    Pipes,         \* connections of the user, one direction of each
    Kind,          \* connection -> "stream" or "message"
    SpeedLimits,   \* limits the panel may set; 0 is no limit
    BurstSeconds,  \* SPEED_LIMIT_BURST_SECONDS
    MinChunk,      \* MIN_LIMITED_CHUNK_BYTES
    MaxRead,       \* longest buffer of a stream
    MaxDatagram,   \* longest buffer of a message stream
    InitialData,   \* lengths of the data that comes with a handshake
    MaxDebt        \* bound: an aborted connection leaves at most this debt

(* The smallest limit, 1 Mbps, makes a burst that holds any datagram. *)
ASSUME RateConstants ==
    /\ IsFiniteSet(Pipes) /\ SpeedLimits \subseteq Nat /\ BurstSeconds \in Nat
    /\ MaxRead \in Nat /\ MaxDatagram \in Nat
    /\ InitialData \subseteq Nat /\ \E m \in InitialData : \A i \in InitialData : i <= m
    /\ \A rate \in SpeedLimits \ {0} : {MinChunk, MaxDatagram} \subseteq 1..(rate * BurstSeconds)
    /\ MaxDatagram <= MaxRead

VARIABLES
    entry,  \* the user's entry of USER_SPEED_LIMITERS: a limiter, or 0
    bucket, \* limiter -> [rate, tokens]
    flow,   \* connection -> [pc, lim, initial, want, delay]
    surge,  \* history: limiter -> what was sent ahead of the rate
    peak,   \* history: limiter -> its largest burst
    lowered \* history: limiter -> its limit fell while a connection slept off a debt

rateVars == <<entry, bucket, flow, surge, peak, lowered>>

(* Every connection may hold a limiter of its own; one that connects holds none. *)
Limiters == 1..Cardinality(Pipes)

(* A bug: a burst too short for a whole datagram. *)
BurstHalved(rate) == (rate * BurstSeconds) \div 2

Burst(rate) == rate * BurstSeconds
NoFlow == [pc |-> "closed", lim |-> 0, initial |-> 0, want |-> 0, delay |-> 0]

NoBucket == [rate |-> 0, tokens |-> 0]

Unheld(e, fl) == {l \in Limiters : l # e /\ \A f \in Pipes : fl[f].lim # l}
Unused == Unheld(entry, flow)

(* A limiter is freed with the last reference to it. *)
FreeUnheld ==
    LET freed == Unheld(entry', flow') IN
    /\ bucket' = [l \in Limiters |-> IF l \in freed THEN NoBucket ELSE bucket[l]]
    /\ surge' = [l \in Limiters |-> IF l \in freed THEN 0 ELSE surge[l]]
    /\ peak' = [l \in Limiters |-> IF l \in freed THEN 0 ELSE peak[l]]
    /\ lowered' = [l \in Limiters |-> l \notin freed /\ lowered[l]]

-----------------------------------------------------------------------------
NewBucket(rate) == [rate |-> rate, tokens |-> Burst(rate)]

(* A bug: every connection fills the bucket. *)
UpdatedAndFilled(b, rate) == NewBucket(rate)

(* update_rate: the tokens that are there are kept, up to the new burst. *)
Updated(b, rate) == [rate |-> rate, tokens |-> Min({b.tokens, Burst(rate)})]

(* A connection sleeps off a debt to the limiter. *)
Sleeping(l) == \E f \in Pipes : flow[f].lim = l /\ flow[f].delay > 0

(* A connection is authenticated: it takes the user's limiter and gives it the
   limit it was authenticated with, makes one, or removes the entry. *)
Connect(f, limit, initial) ==
    /\ flow[f].pc = "closed"
    /\ Kind[f] = "message" => initial = 0
    /\ IF limit = 0
       THEN /\ entry' = 0
            /\ flow' = [flow EXCEPT ![f] = [NoFlow EXCEPT !.pc = "unlimited"]]
            /\ FreeUnheld
       ELSE LET l == IF entry # 0 THEN entry ELSE Min(Unused)
                b == IF entry # 0 THEN Updated(bucket[l], limit) ELSE NewBucket(limit)
            IN /\ entry' = l
               /\ bucket' = [bucket EXCEPT ![l] = b]
               /\ peak' = [peak EXCEPT ![l] = Max({@, Burst(limit)})] /\ UNCHANGED surge
               /\ lowered' = [lowered EXCEPT ![l] = @ \/ (Sleeping(l) /\ limit < bucket[l].rate)]
               /\ flow' = [flow EXCEPT ![f] =
                      [NoFlow EXCEPT !.pc = "idle", !.lim = l, !.initial = initial]]

(* reserve_delay: initial data is taken from the bucket whatever is in it, and
   a debt is slept off. *)
Reserve(f) ==
    LET l == flow[f].lim
        left == bucket[l].tokens - flow[f].initial
        rate == bucket[l].rate
    IN /\ flow[f].pc = "idle" /\ flow[f].initial > 0
       /\ bucket' = [bucket EXCEPT ![l].tokens = left]
       /\ flow' = [flow EXCEPT ![f].pc = "owing",
                               ![f].delay = IF left >= 0 THEN 0 ELSE (rate - left - 1) \div rate]
       /\ UNCHANGED <<entry, surge, peak, lowered>>

(* The delay is over; the reserved data goes out. *)
SendReserved(f) ==
    /\ flow[f].pc = "owing" /\ flow[f].delay = 0
    /\ surge' = [surge EXCEPT ![flow[f].lim] = @ + flow[f].initial]
    /\ flow' = [flow EXCEPT ![f].pc = "idle", ![f].initial = 0]
    /\ UNCHANGED <<entry, bucket, peak, lowered>>

(* A buffer to fill or to send. *)
Ask(f, want) ==
    /\ flow[f].pc = "idle"
    /\ want <= IF Kind[f] = "stream" THEN MaxRead ELSE MaxDatagram
    /\ flow' = [flow EXCEPT ![f].pc = "poll", ![f].want = want]
    /\ UNCHANGED <<entry, bucket, surge, peak, lowered>>

(* What must be in the bucket: a worthwhile chunk, or a whole message. *)
Needed(f) ==
    IF Kind[f] = "stream"
    THEN Min({MinChunk, Burst(bucket[flow[f].lim].rate), flow[f].want})
    ELSE flow[f].want

(* available_or_delay, can_send_or_delay: how much the I/O may move.  Without
   enough tokens the poll sleeps and asks again. *)
Allow(f) ==
    LET tokens == bucket[flow[f].lim].tokens IN
    /\ flow[f].pc = "poll" /\ tokens >= Needed(f)
    /\ flow' = [flow EXCEPT ![f].pc = "io",
                            ![f].want = IF Kind[f] = "stream" THEN Min({@, tokens}) ELSE @]
    /\ UNCHANGED <<entry, bucket, surge, peak, lowered>>

(* The I/O moves n bytes, none when it is pending, and they are consumed. *)
Move(f, n) ==
    LET l == flow[f].lim IN
    /\ flow[f].pc = "io" /\ n <= flow[f].want
    /\ bucket' = [bucket EXCEPT ![l].tokens = @ - n]
    /\ surge' = [surge EXCEPT ![l] = @ + n]
    /\ flow' = [flow EXCEPT ![f].pc = "idle", ![f].want = 0]
    /\ UNCHANGED <<entry, peak, lowered>>

(* The connection ends; what it reserved and has not sent stays taken. *)
Hangup(f) ==
    /\ flow[f].pc # "closed"
    /\ flow[f].pc = "owing" => bucket[flow[f].lim].tokens >= -MaxDebt
    /\ flow' = [flow EXCEPT ![f] = NoFlow]
    /\ UNCHANGED entry /\ FreeUnheld

(* A pull no longer lists the user; its connections keep their limiter. *)
ForgetLimiter ==
    /\ entry # 0 /\ entry' = 0
    /\ UNCHANGED flow /\ FreeUnheld

(* Time: refill, up to the burst, and sleeping connections. *)
Refill ==
    /\ bucket' = [l \in Limiters |->
          IF l \in Unused THEN bucket[l]
          ELSE [bucket[l] EXCEPT !.tokens = Min({@ + bucket[l].rate, Burst(bucket[l].rate)})]]
    /\ surge' = [l \in Limiters |->
          IF l \in Unused THEN surge[l] ELSE Max({surge[l] - bucket[l].rate, 0})]
    /\ flow' = [f \in Pipes |-> [flow[f] EXCEPT !.delay = Max({@ - 1, 0})]]
    /\ UNCHANGED <<entry, peak, lowered>>

RateInit ==
    /\ entry = 0
    /\ bucket = [l \in Limiters |-> NoBucket]
    /\ flow = [f \in Pipes |-> NoFlow]
    /\ surge = [l \in Limiters |-> 0]
    /\ peak = [l \in Limiters |-> 0]
    /\ lowered = [l \in Limiters |-> FALSE]

RateNext ==
    \/ \E f \in Pipes :
         \/ \E limit \in SpeedLimits, i \in InitialData : Connect(f, limit, i)
         \/ Reserve(f) \/ SendReserved(f) \/ Allow(f) \/ Hangup(f)
         \/ \E n \in 1..Max({MaxRead, MaxDatagram}) : Ask(f, n)
         \/ \E n \in 0..Max({MaxRead, MaxDatagram}) : Move(f, n)
    \/ ForgetLimiter \/ Refill

RateSpec == RateInit /\ [][RateNext]_rateVars

(* Time passes, timers fire and an allowed I/O returns.  Nobody has to connect,
   to ask or to close. *)
RateFair ==
    /\ WF_rateVars(Refill)
    /\ \A f \in Pipes : WF_rateVars(Allow(f)) /\ WF_rateVars(SendReserved(f))
                        /\ WF_rateVars(\E n \in 0..Max({MaxRead, MaxDatagram}) : Move(f, n))

-----------------------------------------------------------------------------
(* The limit holds over every stretch of time: what the connections of a bucket
   send in it exceeds rate times duration by at most the burst, the initial data
   of the connections that have just begun, and one read of every connection but
   one, which may have been allowed the same tokens.  A limit that falls while a
   connection sleeps off a debt is the exception: the sleep was measured by the
   old limit and ends before the new one has paid the debt. *)
RateHeld ==
    \A l \in Limiters :
        ~lowered[l] => surge[l] <= peak[l] + (Cardinality(Pipes) - 1) * MaxRead
                                   + Cardinality(Pipes) * Max(InitialData)

(* No bucket is stuck: while a connection waits for tokens, one that shares its
   bucket is sooner or later given some, in advance or for an I/O. *)
RateServes ==
    \A f \in Pipes :
        (flow[f].pc = "poll") ~>
            \/ flow[f].pc # "poll"
            \/ \E g \in Pipes : flow[g].pc \in {"io", "owing"} /\ flow[g].lim = flow[f].lim
=============================================================================
