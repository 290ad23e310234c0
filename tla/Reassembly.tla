----------------------------- MODULE Reassembly -----------------------------
(***************************************************************************)
(* Reassembly of fragmented UDP packets on a TUIC or Hysteria2 connection. *)
(* The cache is an LRU map from (association id, packet id), bounded in    *)
(* entries and in bytes.  Fragments arrive in any order, are lost, and are *)
(* sent again by some clients.                                             *)
(*                                                                         *)
(* TUIC keeps two caches: the one of the stream tasks, which DISSOCIATE    *)
(* purges, and the one of the datagram loop, which it does not.  Hysteria2 *)
(* purges its only cache when it expires or refuses a session.  A client   *)
(* that takes up an id again counts its packets from zero.                 *)
(***************************************************************************)
EXTENDS Naturals, Sequences, FiniteSets, SequencesExt, Functions

CONSTANTS
    Bursts,     \* sets of packets [assoc, pid, life, count, addr, len] to send
    MaxEntries, \* MAX_FRAGMENT_CACHE_SIZE
    MaxBytes,   \* MAX_FRAGMENT_CACHE_BYTES
    MaxPacket,  \* MAX_REASSEMBLED_UDP_PACKET_SIZE
    MaxDups     \* bound: fragments that arrive twice

ASSUME ReasmConstants ==
    /\ MaxEntries \in Nat \ {0} /\ MaxBytes \in Nat /\ MaxPacket \in Nat /\ MaxDups \in Nat
    /\ \A b \in Bursts : \A p \in b : p.count \in Nat \ {0} /\ p.len \in Nat /\ p.life \in Nat

VARIABLES
    burst,    \* the packets the client sends
    rule,     \* "tuic_stream", "tuic_datagram" or "hysteria2"
    cache,    \* entries, from the least to the most recently used
    toArrive, \* fragments that have not arrived: <<packet, fragment id>>
    lives,    \* association -> how often its id was taken up again
    dups,     \* fragments that arrived twice so far
    whole,    \* history: the fragments each reassembled packet was made of
    overtaken,\* history: packets of which a fragment came after the purge
    spoiled   \* history: packets alone with their key that met a limit, a purge
              \* or a duplicate

reasmVars == <<burst, rule, cache, toArrive, lives, dups, whole, overtaken, spoiled>>

Frags(p) == {<<p, f>> : f \in 0..(p.count - 1)}
KeyOf(p) == <<p.assoc, p.pid>>
In(e) == {x[1] : x \in e.got}
Size(e) == SumFunction([x \in e.got |-> x[1].len])
CachedBytes(c) == SumFunction([e \in ToSet(c) |-> Size(e)])
KeyAlone(p) == \A q \in burst \ {p} : KeyOf(q) # KeyOf(p)
Held(c, p) == \E k \in DOMAIN c : c[k].key = KeyOf(p)

-----------------------------------------------------------------------------
(* LruCache: pop, get (which makes the entry the most recent) and put (after
   which the oldest entry leaves a cache that is over its size). *)
WithoutKeys(c, keys) ==
    LET kept[n \in 0..Len(c)] ==
            IF n = 0 THEN <<>>
            ELSE IF c[n].key \in keys THEN kept[n - 1] ELSE Append(kept[n - 1], c[n])
    IN  kept[Len(c)]
Pop(c, p) == WithoutKeys(c, {KeyOf(p)})
Get(c, p) == c[CHOOSE k \in DOMAIN c : c[k].key = KeyOf(p)]
Put(c, p, e) ==
    LET new == Append(Pop(c, p), e)
    IN  IF Len(new) > MaxEntries THEN Tail(new) ELSE new

NewEntry(p) == [key |-> KeyOf(p), count |-> p.count, got |-> {}]

(* The entry of a fragment's packet, a new one if there is none; Hysteria2 also
   starts over when the fragment count differs. *)
Open(c, p) ==
    Put(c, p, IF Held(c, p) /\ (rule = "hysteria2" => Get(c, p).count = p.count)
              THEN Get(c, p) ELSE NewEntry(p))

Duplicate(e, f) == \E x \in e.got : x[2] = f

(* A fragment that makes TUIC give up the packet. *)
TuicRefuses(e, p, f) == e.count # p.count \/ Duplicate(e, f) \/ (f = 0 /\ ~p.addr)

(* The limits of one packet and of the whole cache. *)
OverLimit(c, e, p) == Size(e) + p.len > MaxPacket \/ CachedBytes(c) + p.len > MaxBytes

(* reassemble_udp_fragment and reassemble_hysteria2_udp_fragment: the cache
   afterwards and the fragments of the packet, if it is complete. *)
Reassemble(c, p, f) ==
    LET o == Open(c, p)
        e == Get(o, p)
        grown == [e EXCEPT !.got = @ \cup {<<p, f>>}]
    IN  IF rule = "hysteria2" /\ Duplicate(e, f) THEN [cache |-> o, out |-> {}]
        ELSE IF (rule # "hysteria2" /\ TuicRefuses(e, p, f)) \/ OverLimit(o, e, p)
        THEN [cache |-> Pop(o, p), out |-> {}]
        ELSE IF Cardinality(grown.got) = grown.count
        THEN [cache |-> Pop(o, p), out |-> grown.got]
        ELSE [cache |-> Put(o, p, grown), out |-> {}]

(* prepare_udp_packet: a packet of one fragment does not enter the cache. *)
Prepare(c, p, f) ==
    IF p.count = 1
    THEN [cache |-> c, out |-> IF rule # "hysteria2" /\ ~p.addr THEN {} ELSE Frags(p)]
    ELSE Reassemble(c, p, f)

(* The entries of a cache that the LRU gives up when it becomes o. *)
GivenUp(c, o) == {k \in DOMAIN c : ~\E j \in DOMAIN o : o[j].key = c[k].key}

(* The packets that this fragment costs a part: those of the entry the LRU gives up, and a
   packet that meets a limit or, with TUIC, a duplicate. *)
Spoils(c, p, f) ==
    LET o == Open(c, p)
        e == Get(o, p)
    IN  (UNION {In(c[k]) : k \in GivenUp(c, o)})
          \cup (IF OverLimit(o, e, p) \/ (rule # "hysteria2" /\ Duplicate(e, f))
                THEN In(e) \cup {p} ELSE {})

-----------------------------------------------------------------------------
(* A fragment arrives, for the last time or with a copy still to come. *)
Arrive(p, f) ==
    /\ <<p, f>> \in toArrive /\ p.life <= lives[p.assoc]
    /\ \/ toArrive' = toArrive \ {<<p, f>>} /\ UNCHANGED dups
       \/ dups < MaxDups /\ dups' = dups + 1 /\ UNCHANGED toArrive
    /\ cache' = Prepare(cache, p, f).cache
    /\ LET out == Prepare(cache, p, f).out
       IN  whole' = IF out = {} THEN whole ELSE whole \cup {out}
    /\ overtaken' = IF p.life < lives[p.assoc] THEN overtaken \cup {p} ELSE overtaken
    /\ spoiled' = IF p.count = 1 THEN spoiled
                  ELSE spoiled \cup {q \in Spoils(cache, p, f) : KeyAlone(q)}
    /\ UNCHANGED <<burst, rule, lives>>

(* A bug: the association's fragments stay. *)
PurgedNone(c, a) == c

(* remove_udp_fragments_for_assoc, remove_hysteria2_fragments_for_session. *)
Purged(c, a) == WithoutKeys(c, {e.key : e \in {x \in ToSet(c) : x.key[1] = a}})

(* DISSOCIATE of TUIC, or the expiry of a session of Hysteria2: its fragments go,
   except those of TUIC's datagram loop; then the client takes up the id again.
   TUIC's expiry of idle sessions leaves fragments and client as they are. *)
TakeUpAgain(a) ==
    /\ \E p \in burst : p.assoc = a /\ p.life > lives[a]
    /\ lives' = [lives EXCEPT ![a] = @ + 1]
    /\ cache' = IF rule = "tuic_datagram" THEN cache ELSE Purged(cache, a)
    /\ spoiled' = spoiled \cup {p \in burst : p.assoc = a /\ KeyAlone(p)}
    /\ UNCHANGED <<burst, rule, toArrive, dups, whole, overtaken>>

ReasmInit ==
    /\ burst \in Bursts
    /\ rule \in {"tuic_stream", "tuic_datagram", "hysteria2"}
    /\ cache = <<>> /\ dups = 0 /\ whole = {} /\ overtaken = {} /\ spoiled = {}
    /\ toArrive = UNION {Frags(p) : p \in burst}
    /\ lives = [a \in {p.assoc : p \in burst} |-> 0]

ReasmNext ==
    \/ \E p \in burst : \E f \in 0..(p.count - 1) : Arrive(p, f)
    \/ \E a \in {p.assoc : p \in burst} : TakeUpAgain(a)

ReasmSpec == ReasmInit /\ [][ReasmNext]_reasmVars

-----------------------------------------------------------------------------
(* The variables of Reassembly are well formed. *)
ReasmTypeOK ==
    /\ rule \in {"tuic_stream", "tuic_datagram", "hysteria2"}
    /\ \A k \in DOMAIN cache : cache[k].got \subseteq UNION {Frags(p) : p \in burst}
    /\ dups \in 0..MaxDups

(* The cache keeps its limits and one entry per key, and no complete packet
   waits in it. *)
CacheBounded ==
    /\ Len(cache) <= MaxEntries /\ CachedBytes(cache) <= MaxBytes
    /\ \A j, k \in DOMAIN cache : cache[j].key = cache[k].key => j = k
    /\ \A k \in DOMAIN cache : Size(cache[k]) <= MaxPacket
                               /\ Cardinality(cache[k].got) < cache[k].count

(* A packet that is forwarded has each fragment once, and all are of one packet,
   unless the client gave two packets the same key and the same count.  Packets
   that have them because the client took up its id again are kept apart by the
   purge when no fragment came after it, except on the datagram path of TUIC,
   whose cache DISSOCIATE leaves alone. *)
PacketsNotMixed ==
    \A g \in whole :
        /\ \A x, y \in g : x[2] = y[2] => x = y
        /\ \A x \in g : Cardinality(g) = x[1].count
        /\ \A x, y \in g : /\ KeyOf(x[1]) = KeyOf(y[1])
                           /\ x[1].life # y[1].life => \/ rule = "tuic_datagram"
                                                       \/ {x[1], y[1]} \cap overtaken # {}

(* A packet all of whose fragments arrived is forwarded, whatever their order and
   whatever arrived between them, if it met no limit and no purge, no other packet
   had its key, and, with TUIC, no fragment arrived twice. *)
CompleteIsForwarded ==
    \A p \in burst :
        /\ Frags(p) \cap toArrive = {} /\ p \notin spoiled
        /\ KeyAlone(p) /\ p.addr /\ p.count * p.len <= MaxPacket
        => Frags(p) \in whole

(* The fragment caches of TUIC and Hysteria2 stay within their limits, a forwarded
   packet has the fragments of one packet unless the client used its key twice,
   and a packet all of whose fragments arrived, in any order, is forwarded unless
   a limit, a purge, a shared key or (TUIC) a duplicate spoiled it. *)
ReassemblySafe == ReasmTypeOK /\ CacheBounded /\ PacketsNotMixed /\ CompleteIsForwarded
=============================================================================
