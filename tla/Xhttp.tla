------------------------------- MODULE Xhttp -------------------------------
(***************************************************************************)
(* The upload sessions of XHTTP (v2board/xhttp.rs).  A client uploads one  *)
(* stream in several requests, each with numbered packets, and downloads   *)
(* it in another; the requests name the session by an id the client chose. *)
(* Whoever comes first creates the session: packets wait in its channel,   *)
(* the download request takes the receiver and puts the packets in order.  *)
(* A reaper per session takes it out of the map when it was idle too long; *)
(* a session created later under the same id is another object.            *)
(*                                                                         *)
(* One id is modelled: sessions of different ids share nothing.            *)
(***************************************************************************)
EXTENDS Naturals, Sequences, FiniteSets, SequencesExt

CONSTANTS
    UploadPlans, \* what clients do: request -> the numbers of its packets, in order
    MaxBuffered, \* max_buffered_posts
    ReapAfter,   \* SESSION_REAP_SECS, in ticks of the reaper's interval
    IdleAfter,   \* SESSION_IDLE_REAP_SECS, in ticks
    MaxXhttpSessions, \* bound: sessions created under the id
    MaxGets,     \* bound: download requests
    MaxPolls     \* bound: times a reader is polled without anything to read

ASSUME XhttpBounds ==
    /\ MaxBuffered \in Nat \ {0} /\ ReapAfter \in Nat /\ IdleAfter \in Nat
    /\ MaxXhttpSessions \in Nat /\ MaxGets \in Nat /\ MaxPolls \in Nat
    /\ \A p \in UploadPlans : \A r \in DOMAIN p : p[r] \in Seq(Nat) \ {<<>>}

VARIABLES
    upload,  \* the upload requests of this behaviour
    current, \* sessions: the session of the id, 0 if there is none
    made,    \* sessions created so far
    sess,    \* session -> its channel, its flags and its idle time
    up,      \* session -> what its XHttpUploadReader holds
    post,    \* request -> where it is: [pc, s, n]
    gets,    \* download requests so far
    polls,   \* polls without effect so far
    accepted,\* history: session -> the packets sent to its channel
    reaped   \* history: sessions their reaper took out

xhttpVars == <<upload, current, made, sess, up, post, gets, polls, accepted, reaped>>

XhttpSessions == 1..MaxXhttpSessions
Posts == DOMAIN upload
AllPosts == UNION {DOMAIN p : p \in UploadPlans}
SessionCreated == 1..made

NewSession == [queue |-> <<>>, rx |-> "free", connected |-> FALSE, idle |-> 0, reaper |-> TRUE]
NewReader == [next |-> 0, pending |-> {}, out |-> <<>>, failed |-> FALSE]

(* touch_session *)
Touched(s) == [sess EXCEPT ![s].idle = 0]

-----------------------------------------------------------------------------
(* get_or_create_session, and the first half of take_session_reader: under one
   lock of the map the session is found, or created and its reaper spawned. *)
GetOrCreate(s) ==
    IF current # 0
    THEN s = current /\ UNCHANGED <<current, made>>
    ELSE /\ made < MaxXhttpSessions
         /\ s = made + 1 /\ made' = s /\ current' = s

(* An upload request has been classified, its session is looked up. *)
Upload(r, s) ==
    /\ post[r].pc = "new"
    /\ GetOrCreate(s)
    /\ post' = [post EXCEPT ![r] = [pc |-> "body", s |-> s, n |-> 0]]
    /\ UNCHANGED <<upload, sess, up, gets, polls, accepted, reaped>>

(* The next packet of the request is there and push_packet begins. *)
PushBegin(r) ==
    /\ post[r].pc = "body"
    /\ sess' = Touched(post[r].s)
    /\ post' = [post EXCEPT ![r].pc = "send"]
    /\ UNCHANGED <<upload, current, made, up, gets, polls, accepted, reaped>>

(* The channel has room; after its last packet the request is answered. *)
PushEnd(r) ==
    LET s == post[r].s
        n == post[r].n + 1
        packet == [seq |-> upload[r][n], from |-> r]
    IN  /\ post[r].pc = "send"
        /\ sess[s].rx # "closed" /\ Len(sess[s].queue) < MaxBuffered
        /\ sess' = [sess EXCEPT ![s].queue = Append(@, packet)]
        /\ accepted' = [accepted EXCEPT ![s] = Append(@, packet)]
        /\ post' = [post EXCEPT ![r].n = n,
                                ![r].pc = IF n = Len(upload[r]) THEN "ok" ELSE "body"]
        /\ UNCHANGED <<upload, current, made, up, gets, polls, reaped>>

(* The receiver was dropped: the request fails. *)
PushFails(r) ==
    /\ post[r].pc = "send" /\ sess[post[r].s].rx = "closed"
    /\ post' = [post EXCEPT ![r].pc = "err"]
    /\ UNCHANGED <<upload, current, made, sess, up, gets, polls, accepted, reaped>>

(* The request's connection ends, its body fails or is too long, or the setup
   of an HTTP/1 connection times out, while the request waits. *)
PostGone(r) ==
    /\ post[r].pc \in {"body", "send"}
    /\ post' = [post EXCEPT ![r].pc = "gone"]
    /\ UNCHANGED <<upload, current, made, sess, up, gets, polls, accepted, reaped>>

(* take_session_reader: the second download of a session is refused. *)
Download(s) ==
    /\ gets < MaxGets
    /\ gets' = gets + 1
    /\ GetOrCreate(s)
    /\ IF sess[s].connected THEN UNCHANGED <<sess, up>>
       ELSE /\ sess' = [sess EXCEPT ![s].connected = TRUE, ![s].rx = "taken"]
            /\ up' = [up EXCEPT ![s] = NewReader]
    /\ UNCHANGED <<upload, post, polls, accepted, reaped>>

-----------------------------------------------------------------------------
(* XHttpUploadReader::poll_read.  Each turn of its loop is a step. *)
Reading(s) == sess[s].rx = "taken" /\ ~up[s].failed

Expected(s) == {p \in up[s].pending : p.seq = up[s].next}

Delivered(u, p) == [u EXCEPT !.next = @ + 1, !.out = Append(@, p.from), !.pending = @ \ {p}]

(* The packet that is next was waiting. *)
ReadPending(s) ==
    /\ Reading(s)
    /\ \E p \in Expected(s) : up' = [up EXCEPT ![s] = Delivered(@, p)]
    /\ sess' = Touched(s)
    /\ UNCHANGED <<upload, current, made, post, gets, polls, accepted, reaped>>

(* A packet from the channel: the next one, one already there, one too many, or
   one to keep. *)
Received(u, p) ==
    IF p.seq = u.next THEN Delivered(u, p)
    ELSE IF p.seq < u.next \/ \E q \in u.pending : q.seq = p.seq THEN u
    ELSE IF Cardinality(u.pending) >= MaxBuffered THEN [u EXCEPT !.failed = TRUE]
    ELSE [u EXCEPT !.pending = @ \cup {p}]

ReadChannel(s) ==
    /\ Reading(s) /\ Expected(s) = {} /\ sess[s].queue # <<>>
    /\ up' = [up EXCEPT ![s] = Received(@, Head(sess[s].queue))]
    /\ sess' = [Touched(s) EXCEPT ![s].queue = Tail(@)]
    /\ UNCHANGED <<upload, current, made, post, gets, polls, accepted, reaped>>

(* The relay polls the reader while there is nothing to read. *)
ReadNothing(s) ==
    /\ Reading(s) /\ Expected(s) = {} /\ sess[s].queue = <<>>
    /\ polls < MaxPolls /\ polls' = polls + 1
    /\ sess' = Touched(s)
    /\ UNCHANGED <<upload, current, made, up, post, gets, accepted, reaped>>

(* A bug: whatever session the id has is removed. *)
RemovedById(s) == 0

(* remove_session_if_current *)
RemovedIfCurrent(s) == IF current = s THEN 0 ELSE current

(* The stream of the download ends and with it the reader. *)
ReaderDropped(s) ==
    /\ sess[s].rx = "taken"
    /\ sess' = [sess EXCEPT ![s].rx = "closed", ![s].queue = <<>>]
    /\ current' = RemovedIfCurrent(s)
    /\ up' = [up EXCEPT ![s] = NewReader]
    /\ accepted' = [accepted EXCEPT ![s] = <<>>]
    /\ UNCHANGED <<upload, made, post, gets, polls, reaped>>

-----------------------------------------------------------------------------
Ceiling == IF IdleAfter > ReapAfter THEN IdleAfter + 1 ELSE ReapAfter + 1

(* Time passes for the session in the map, told apart up to the longer limit; the
   reaper of any other session ends at its next turn anyway. *)
Tick ==
    /\ current # 0 /\ sess[current].idle < Ceiling
    /\ sess' = [sess EXCEPT ![current].idle = @ + 1]
    /\ UNCHANGED <<upload, current, made, up, post, gets, polls, accepted, reaped>>

(* A bug: only a session without a download goes stale. *)
StaleUnconnected(s) == ~sess[s].connected /\ sess[s].idle > ReapAfter

Stale(s) == sess[s].idle > (IF sess[s].connected THEN IdleAfter ELSE ReapAfter)

(* spawn_session_reaper: a turn of its loop that has an effect. *)
ReapSession(s) ==
    /\ s \in SessionCreated /\ sess[s].reaper
    /\ Stale(s) \/ current # s
    /\ sess' = [sess EXCEPT ![s].reaper = FALSE, ![s].idle = 0]
    /\ current' = IF Stale(s) THEN RemovedIfCurrent(s) ELSE current
    /\ reaped' = IF Stale(s) /\ current = s THEN reaped \cup {s} ELSE reaped
    /\ UNCHANGED <<upload, made, up, post, gets, polls, accepted>>

XhttpInit ==
    /\ upload \in UploadPlans
    /\ current = 0 /\ made = 0 /\ gets = 0 /\ polls = 0 /\ reaped = {}
    /\ sess = [s \in XhttpSessions |-> NewSession]
    /\ up = [s \in XhttpSessions |-> NewReader]
    /\ post = [r \in Posts |-> [pc |-> "new", s |-> 0, n |-> 0]]
    /\ accepted = [s \in XhttpSessions |-> <<>>]

XhttpNext ==
    \/ \E r \in Posts :
         \/ \E s \in XhttpSessions : Upload(r, s)
         \/ PushBegin(r) \/ PushEnd(r) \/ PushFails(r) \/ PostGone(r)
    \/ \E s \in XhttpSessions :
         \/ Download(s) \/ ReadPending(s) \/ ReadChannel(s) \/ ReadNothing(s)
         \/ ReaderDropped(s) \/ ReapSession(s)
    \/ Tick

(* The runtime polls what is ready, timers fire, the relay goes on reading (its
   target goes on taking data) and ends when a read fails.  No client is obliged
   to send, to download or to leave. *)
XhttpFair ==
    /\ \A r \in AllPosts :
         /\ WF_xhttpVars(r \in Posts /\ PushEnd(r)) /\ WF_xhttpVars(r \in Posts /\ PushFails(r))
    /\ \A s \in XhttpSessions :
         /\ WF_xhttpVars(ReadPending(s)) /\ WF_xhttpVars(ReadChannel(s))
         /\ WF_xhttpVars(up[s].failed /\ ReaderDropped(s))
         /\ WF_xhttpVars(ReapSession(s))
    /\ WF_xhttpVars(Tick)

XhttpSafetySpec == XhttpInit /\ [][XhttpNext]_xhttpVars
XhttpSpec == XhttpSafetySpec /\ XhttpFair

-----------------------------------------------------------------------------
(* The first packet with a number that a session was sent. *)
FirstOf(s, q) ==
    accepted[s][CHOOSE k \in DOMAIN accepted[s] :
        /\ accepted[s][k].seq = q
        /\ \A j \in 1..(k - 1) : accepted[s][j].seq # q]

Numbers(ps) == {p.seq : p \in ps}

(* However requests are reordered, repeated and interleaved, poll_read hands out
   the packets by their numbers without a gap, each as it first came, and a
   packet answered with OK is not lost while its reader goes on. *)
UploadsInOrder ==
    \A s \in SessionCreated : Reading(s) =>
        /\ Len(up[s].out) = up[s].next
        /\ \A k \in DOMAIN up[s].out : up[s].out[k] = FirstOf(s, k - 1).from
        /\ \A p \in up[s].pending : p.seq >= up[s].next /\ p = FirstOf(s, p.seq)
        /\ Numbers(ToSet(accepted[s])) =
             0..(up[s].next - 1) \cup Numbers(up[s].pending \cup ToSet(sess[s].queue))

(* The id maps to a session that a reaper watches and whose reader, if it has
   one, is alive.  A session leaves the map because its own reader ended or it
   was idle itself, never because of another session of the same id. *)
MapHonest ==
    /\ current # 0 => sess[current].reaper /\ sess[current].rx # "closed"
    /\ \A s \in SessionCreated : current # s => s \in reaped \/ sess[s].rx = "closed"

(* Uploads of one XHTTP session reach its reader in sequence order and once,
   although they arrive on several requests, and a reader's end or a reaper
   removes only its own session from the map, never a later one of the same id. *)
XhttpSafe == UploadsInOrder /\ MapHonest

Waiting(r) == post[r].pc = "send"

(* Once the clients have fallen silent the map of sessions is empty, and no POST
   waits for room for ever: unless nobody ever downloads from its session.
   Such a POST holds the receiver it waits for, so it waits on after the
   reaper has removed the session, until its connection ends. *)
XhttpGoesOn ==
    <>[](current = 0 /\ \A r \in Posts : Waiting(r) => sess[post[r].s].rx = "free")
=============================================================================
