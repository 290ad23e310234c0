------------------------------- MODULE Vision -------------------------------
(***************************************************************************)
(* One direction of a VLESS connection with the Vision flow                *)
(* (vless/vision_stream.rs): a writer that pads what it sends inside TLS,  *)
(* watches the TLS records of the inner stream, and at some point goes on  *)
(* with plain TLS (END) or without TLS at all (DIRECT), and the reader at  *)
(* the other end, which must change over at the same byte.  The two ends   *)
(* share nothing but the TCP stream.  Inner bytes are pieces, known by     *)
(* their position: half a TLS record each, or a run of other bytes.        *)
(***************************************************************************)
EXTENDS Integers, Sequences, FiniteSets, SequencesExt

CONSTANTS
    Streams,     \* the writer's role and the pieces of the inner stream: no ServerHello
                 \* from a client, and from a server, whose response goes with its first
                 \* write, not none
    FilterCount, \* record_filter_count of a new filter
    SessCap,     \* symbols the TLS session buffers for sending (set_buffer_limit)
    LenMod       \* the content length of a packet is written modulo this (2^16)

ASSUME VisionConstants ==
    /\ FilterCount \in Nat \ {0} /\ SessCap \in Nat \ {0}
    /\ LenMod \in Nat /\ LenMod > 2 \* a TLS record always fits
    /\ \A s \in Streams : /\ s.role \in {"client", "server"}
                          /\ Len(s.data) \in Nat
                          /\ s.role = "server" => Len(s.data) # 0
                          /\ s.role = "client" => \A i \in 1..Len(s.data) : s.data[i][1] # "sh13"

VARIABLES
    vision, \* [role, data]: who writes, and what
    wr,     \* the writing VisionStream
    filt,   \* its VisionFilter, which both of its directions use
    tcp,    \* what TCP holds: halves of TLS records, and bare pieces
    rdr,    \* the reading VisionStream
    strayed \* a packet was too long for its length, or the first part of the first
            \* one too short for its UUID

visionVars == <<vision, wr, filt, tcp, rdr, strayed>>

Role == vision.role
Data == vision.data

(* A piece is <<kind, part>>: the first or second half of a TLS record, or
   <<"raw", 0>>, or <<"like", 0>>, which begins like a handshake and is none. *)
HelloKinds == {"ch", "sh12", "sh13", "shccm"}
RecordKinds == HelloKinds \cup {"hs", "app"}
Begins(i) == Data[i][2] = 1
BeginsHello(i) == Begins(i) /\ Data[i][1] \in HelloKinds

(* What TLS carries: headers and paddings of Vision, pieces, VLESS headers. *)
Header(cmd, n, uuid) == <<"hdr", cmd, n, uuid>>
Padding == <<"pad">>
UuidRest == <<"uuid rest">> \* what is left of the first header when its UUID is cut
Piece(i) == <<"piece", i>>
Request == <<"request">>
Response == <<"response">>
PieceRun(lo, hi) == [k \in 1..(hi - lo + 1) |-> Piece(lo + k - 1)]

(* What TCP carries: a TLS record in two halves, the second with what it holds;
   outside TLS a piece as it is. *)
Half == <<"half">>
Rest(d) == <<"rest", d>>
Sealed(d) == IF d = <<>> THEN <<>> ELSE <<Half, Rest(d)>>
Opened(toks) ==
    LET upTo[n \in 0..Len(toks)] ==
            IF n = 0 THEN <<>>
            ELSE IF toks[n][1] = "rest" THEN upTo[n - 1] \o toks[n][2] ELSE upTo[n - 1]
    IN upTo[Len(toks)]

Least(a, b) == IF a < b THEN a ELSE b
From(s, k) == SubSeq(s, k, Len(s))

-----------------------------------------------------------------------------
(* The filter (vision_filter.rs). *)
NewFilter == [count |-> FilterCount, tls |-> FALSE, tls12 |-> FALSE, xtls |-> FALSE]
Decremented(f) == [f EXCEPT !.count = IF @ = 0 THEN 0 ELSE @ - 1]
FilterRecord(f, kind) ==
    LET hello == kind \in HelloKinds \ {"ch"} /\ ~f.tls12
        is13 == hello /\ kind # "sh12"
    IN IF f.count = 0 THEN f
       ELSE [count |-> IF is13 THEN 0 ELSE f.count - 1,
             tls |-> f.tls \/ kind = "ch" \/ hello,
             tls12 |-> f.tls12 \/ hello,
             xtls |-> f.xtls \/ (hello /\ kind = "sh13")]

(* FuzzyTlsDeframer.next_record on the pieces lo..hi: what comes out, how many
   pieces of it, and whether a handshake has been found. *)
NextRecord(found, lo, hi) ==
    LET hellos == {i \in lo..(hi - 1) : BeginsHello(i)}
        first == Min(hellos)
        deframing == found \/ (hellos # {} /\ first = lo)
        kept == IF BeginsHello(hi) \/ Data[hi][1] = "like" THEN 1 ELSE 0
    IN CASE lo > hi -> [out |-> "need", n |-> 0, found |-> found]
         [] lo <= hi /\ deframing ->
              [out |-> IF ~Begins(lo) /\ (Data[lo][1] = "raw" \/ lo < hi) THEN "error"
                       ELSE IF lo < hi THEN "record" ELSE "need",
               n |-> 2, found |-> TRUE]
         [] lo <= hi /\ ~deframing /\ hellos # {} ->
              [out |-> "prefix", n |-> first - lo, found |-> TRUE]
         [] OTHER ->
              [out |-> IF kept = hi - lo + 1 THEN "need" ELSE "prefix",
               n |-> hi - lo + 1 - kept, found |-> FALSE]

-----------------------------------------------------------------------------
(* The writer's way to TCP. *)
Buffered(sess) == Len(Opened(sess))
Room(w) == IF Buffered(w.sess) < SessCap THEN SessCap - Buffered(w.sess) ELSE 0

(* write_to_session: what the session has no room for waits behind it. *)
ToSession(w, d) ==
    LET n == Least(Room(w), Len(d))
    IN IF w.plain # <<>> THEN [w EXCEPT !.plain = @ \o d]
       ELSE [w EXCEPT !.sess = @ \o Sealed(SubSeq(d, 1, n)), !.plain = From(d, n + 1)]

(* drain_all_writes_padding: TCP takes n halves before it would block; whenever
   the session is empty it is filled from what waits. *)
Loads(w) == (Len(w.plain) + SessCap - 1) \div SessCap
Load(w, k) == SubSeq(w.plain, (k - 1) * SessCap + 1, Least(k * SessCap, Len(w.plain)))
Outgoing(w) ==
    w.sess \o [i \in 1..(2 * Loads(w)) |-> IF i % 2 = 1 THEN Half ELSE Rest(Load(w, i \div 2))]
AfterDrain(w, n) ==
    LET loads == IF n < Len(w.sess) THEN 0 ELSE Least(Loads(w), (n - Len(w.sess)) \div 2 + 1)
    IN [w EXCEPT !.sess = SubSeq(Outgoing(w), n + 1, Len(w.sess) + 2 * loads),
                 !.plain = From(w.plain, loads * SessCap + 1)]
IsDrained(w) == w.sess = <<>> /\ w.plain = <<>>

(* w goes on to drain; Cont tells what follows when TCP takes all or blocks. *)
DrainThen(w, Cont(_)) ==
    \E n \in 0..Len(Outgoing(w)) :
        /\ tcp' = tcp \o SubSeq(Outgoing(w), 1, n)
        /\ wr' = Cont(AfterDrain(w, n))

(* The padded packet of pieces lo..hi (vision_pad.rs, write_first_packet): all of
   them, behind a length that is cut to its width. *)
Padded(w, cmd, lo, hi) ==
    LET header == Header(cmd, (hi - lo + 1) % LenMod, w.first)
    IN [ToSession(w, <<header>> \o PieceRun(lo, hi) \o <<Padding>>) EXCEPT !.first = FALSE]
Overlong(n) == n >= LenMod

(* poll_write returns Ok(n); a caller that is told Ok(0) gives the stream up. *)
Returned(w, n) == [w EXCEPT !.acked = @ + n, !.pc = "idle", !.zero = (n = 0)]
Cleared(w) == [w EXCEPT !.lo = 1, !.hi = 0, !.found = FALSE]

(* The writer takes up the last write's decision to leave padding. *)
Switched(w) == [w EXCEPT !.mode = w.next, !.next = "none", !.pc = w.next]
Fed(w) ==
    [w EXCEPT !.pc = "filter", !.had = w.hi - w.lo + 1, !.done = 0,
              !.lo = IF w.lo > w.hi THEN w.acked + 1 ELSE w.lo, !.hi = w.acked + w.fed]

(* The VLESS response goes before the first packet. *)
Answered(w) ==
    IF w.response THEN [ToSession(w, <<Response>>) EXCEPT !.response = FALSE] ELSE w

\* A bug: the mode changes although the session still holds the last packet.
BeginUndrained(w) ==
    DrainThen(Answered(w),
        LAMBDA x : IF x.next # "none" THEN Switched(x)
                   ELSE IF ~IsDrained(x) THEN [x EXCEPT !.pc = "idle"] ELSE Fed(x))
(* The start of poll_write in padding mode: everything pending must be out before
   the mode changes or more is taken. *)
BeginPadding(w) ==
    DrainThen(Answered(w),
        LAMBDA x : IF ~IsDrained(x) THEN [x EXCEPT !.pc = "idle"]
                   ELSE IF x.next # "none" THEN Switched(x) ELSE Fed(x))

(* poll_write with n pieces. *)
PollWrite(n) ==
    /\ wr.pc = "idle" /\ ~wr.shut /\ ~wr.zero /\ wr.acked + n <= Len(Data)
    /\ LET w == [wr EXCEPT !.fed = n, !.done = 0, !.flushed = FALSE]
       IN IF w.mode = "padding" THEN BeginPadding(w)
          ELSE wr' = [w EXCEPT !.pc = w.mode] /\ UNCHANGED tcp
    /\ UNCHANGED <<vision, filt, rdr, strayed>>

(* One turn of poll_write_padding_tls with a complete TLS record: application
   data, or the end of filtering without TLS 1.2, ends the padding. *)
WriteRecord(res) ==
    LET f == FilterRecord(filt, Data[wr.lo][1])
        app == f.tls /\ Data[wr.lo][1] = "app"
        last == app \/ (f.count = 0 /\ ~f.tls12)
        cmd == IF ~last THEN "continue" ELSE IF f.xtls THEN "direct" ELSE "tls"
        w == [Padded(wr, cmd, wr.lo, wr.lo + 1)
                EXCEPT !.done = @ + 2, !.lo = @ + 2, !.found = TRUE,
                       !.next = IF last THEN cmd ELSE "none"]
    IN /\ res.out = "record"
       /\ filt' = f /\ UNCHANGED strayed
       /\ DrainThen(w, LAMBDA x : IF last \/ ~IsDrained(x)
                                  THEN Returned(Cleared(x), x.done - x.had) ELSE x)

(* ... with bytes that are no TLS: padded like a record, or the end. *)
WritePrefix(res) ==
    LET f == Decremented(filt)
        cmd == IF f.count > 0 THEN "continue" ELSE "tls"
        w == [Padded(wr, cmd, wr.lo, wr.lo + res.n - 1)
                EXCEPT !.done = @ + res.n, !.lo = @ + res.n, !.found = res.found,
                       !.next = IF cmd = "tls" THEN cmd ELSE "none"]
    IN /\ res.out = "prefix"
       /\ filt' = f
       /\ strayed' = (strayed \/ Overlong(res.n))
       /\ DrainThen(w, LAMBDA x : IF cmd = "tls"
                                  THEN Returned(Cleared(x), x.done - x.had) ELSE x)

(* ... with something else behind TLS records: all of it goes out with END. *)
WriteInvalid(res) ==
    /\ res.out = "error"
    /\ filt' = [filt EXCEPT !.count = 0]
    /\ strayed' = (strayed \/ Overlong(wr.hi - wr.lo + 1))
    /\ DrainThen([Padded(wr, "tls", wr.lo, wr.hi) EXCEPT !.next = "tls"],
                 LAMBDA x : Returned(Cleared(x), x.fed))

(* ... with too little for a record, which the deframer keeps. *)
WriteNeedsData(res) ==
    /\ res.out = "need"
    /\ wr' = [Returned(wr, wr.fed) EXCEPT !.found = res.found]
    /\ UNCHANGED <<filt, tcp, strayed>>

WritePadding ==
    /\ wr.pc = "filter"
    /\ LET res == NextRecord(wr.found, wr.lo, wr.hi)
       IN WriteRecord(res) \/ WritePrefix(res) \/ WriteInvalid(res) \/ WriteNeedsData(res)
    /\ UNCHANGED <<vision, rdr>>

(* One turn of poll_write_tls. *)
WriteTls ==
    /\ wr.pc = "tls"
    /\ LET k == Least(Room(wr), wr.fed - wr.done)
           at == wr.acked + wr.done
           w == [wr EXCEPT !.sess = @ \o Sealed(PieceRun(at + 1, at + k)), !.done = @ + k]
       IN DrainThen(w, LAMBDA x : IF x.sess = <<>> /\ x.done < x.fed THEN x
                                  ELSE [x EXCEPT !.acked = @ + x.done, !.pc = "idle"])
    /\ UNCHANGED <<vision, filt, rdr, strayed>>

(* In direct mode poll_write is that of TCP. *)
WriteDirect ==
    /\ wr.pc = "direct"
    /\ \E n \in 0..wr.fed :
          /\ tcp' = tcp \o PieceRun(wr.acked + 1, wr.acked + n)
          /\ wr' = [wr EXCEPT !.acked = @ + n, !.pc = "idle"]
    /\ UNCHANGED <<vision, filt, rdr, strayed>>

(* poll_flush. *)
Flush ==
    /\ wr.pc = "idle" /\ ~wr.shut /\ ~wr.flushed
    /\ DrainThen(wr, LAMBDA x : [x EXCEPT !.flushed = IsDrained(x)])
    /\ UNCHANGED <<vision, filt, rdr, strayed>>

(* poll_shutdown is that of TCP; the relay calls it behind a completed flush. *)
Shutdown ==
    /\ wr.pc = "idle" /\ ~wr.shut /\ wr.flushed /\ wr.acked = Len(Data)
    /\ wr' = [wr EXCEPT !.shut = TRUE]
    /\ UNCHANGED <<vision, filt, tcp, rdr, strayed>>

(* The writer's own reads feed the same filter (handle_padded_bytes): records of
   the other side, other bytes (counted like "hs"), or an invalid record.  A
   client hears from the server after its request was read. *)
FilterOther ==
    /\ wr.pc = "idle" /\ filt.count > 0
    /\ Role = "client" => rdr.pc # "setup"
    /\ \/ \E k \in {"hs"} \cup (IF Role = "client" THEN HelloKinds \ {"ch"} ELSE {"ch"}) :
            filt' = FilterRecord(filt, k)
       \/ filt' = [filt EXCEPT !.count = 0]
    /\ UNCHANGED <<vision, wr, tcp, rdr, strayed>>

-----------------------------------------------------------------------------
(* VisionUnpadder.unpad, symbol by symbol.  Content is handed out at once, the
   command when its padding is complete, with what follows it.  What does not
   begin with the UUID is handed out as it is; behind a length that was cut the
   rest of the content is taken for padding, and then for no command. *)
UnpadSymbol(u, sym) ==
    CASE u.st \in {"initial", "command"} /\ sym[1] = "hdr" /\ (u.st = "command" \/ sym[4]) ->
           [u EXCEPT !.st = IF sym[3] = 0 THEN "padding" ELSE "content",
                     !.cmd = sym[2], !.left = sym[3]]
      [] u.st = "command" /\ sym[1] # "hdr" -> [u EXCEPT !.st = "bad"]
      [] u.st = "content" ->
           [u EXCEPT !.content = Append(@, sym), !.left = @ - 1,
                     !.st = IF u.left = 1 THEN "padding" ELSE @]
      [] u.st = "padding" -> [u EXCEPT !.st = IF u.cmd = "continue" THEN "command" ELSE "done"]
      [] OTHER -> [u EXCEPT !.content = Append(@, sym)]
Unpad(u, d) ==
    LET after[n \in 0..Len(d)] ==
            IF n = 0 THEN [u EXCEPT !.content = <<>>] ELSE UnpadSymbol(after[n - 1], d[n])
    IN IF u.st = "done" THEN [u EXCEPT !.st = "bad"] ELSE after[Len(d)]

ReadFails(r, why) == [r EXCEPT !.pc = "failed", !.cause = why]

(* TlsDeframer.next_record on the head of what has been read: a record of the
   outer TLS, something that merely looks like one, too little, or an error. *)
OuterNext(toks) ==
    IF toks = <<>> \/ toks = <<Half>> THEN "need"
    ELSE IF toks[1] = Half THEN (IF toks[2][1] = "rest" THEN "record" ELSE "error")
    ELSE IF toks[1][1] = "piece" /\ Begins(toks[1][2])
         THEN (IF Len(toks) > 1 THEN "foreign" ELSE "need")
    ELSE "error"

(* The records of the outer TLS at the head of what has been read. *)
Whole(toks) ==
    LET cuts == {k \in 0..Len(toks) : \A i \in 1..k :
                    IF i % 2 = 1 THEN toks[i] = Half ELSE toks[i][1] = "rest"}
    IN 2 * (Max(cuts) \div 2)

(* handle_padded_bytes: DIRECT takes the rest of the outer deframer as it is, END
   has the session decrypt its records and keep the beginning of the next. *)
HandlePadded(r, d) ==
    LET u == Unpad(r.unpad, d)
        n == Whole(r.outer)
        more == From(r.outer, n + 1)
        x == [r EXCEPT !.unpad = u, !.pend = @ \o u.content]
    IN CASE u.st = "bad" -> ReadFails(r, IF r.unpad.st = "done" THEN "twice" ELSE "desync")
         [] u.st = "done" /\ u.cmd = "direct" ->
              [x EXCEPT !.pend = @ \o r.outer, !.outer = <<>>, !.mode = "direct"]
         [] u.st = "done" /\ u.cmd = "tls" ->
              IF OuterNext(more) # "need" THEN ReadFails(r, "desync")
              ELSE [x EXCEPT !.pend = @ \o Opened(r.outer), !.outer = <<>>, !.mode = "tls",
                             !.half = @ \/ more # <<>>]
         [] OTHER -> x

(* The server has read the request with all that TCP delivered: the rest of what
   was decrypted comes in two parts, one of StreamReader and one of the session,
   and half a record stays in the session.  A first part that ends inside the
   UUID is dropped, and the other does not begin with the UUID. *)
HandOver(r, d) ==
    \E j \in 0..Len(d) :
        LET x == IF j = 0 THEN r ELSE HandlePadded(r, SubSeq(d, 1, j))
        IN rdr' = IF x.pc = "failed" THEN x ELSE HandlePadded(x, From(d, j + 1))
ReadRequest ==
    /\ rdr.pc = "setup"
    /\ \E n \in 2..Len(tcp) :
          /\ LET d == Tail(Opened(SubSeq(tcp, 1, n)))
                 r == [rdr EXCEPT !.pc = "read", !.half = (tcp[n] = Half)]
             IN \/ HandOver(r, d) /\ UNCHANGED strayed
                \/ /\ d # <<>> /\ strayed' = TRUE
                   /\ rdr' = HandlePadded(r, <<UuidRest>> \o Tail(d))
          /\ tcp' = From(tcp, n + 1)
    /\ UNCHANGED <<vision, wr, filt>>

(* The client waits for the response: poll_read_vless_response decrypts all
   records there are before it looks at the first. *)
ReadResponse ==
    /\ rdr.pc = "response"
    /\ \E n \in 1..Len(tcp) :
          /\ LET toks == rdr.outer \o SubSeq(tcp, 1, n)
                 k == Whole(toks)
                 d == Opened(SubSeq(toks, 1, k))
                 r == [rdr EXCEPT !.outer = From(toks, k + 1)]
             IN rdr' = IF OuterNext(r.outer) # "need" THEN ReadFails(r, "overread")
                       ELSE IF d = <<>> THEN r
                       ELSE IF Len(d) = 1 THEN [r EXCEPT !.pc = "read"]
                       ELSE HandlePadded([r EXCEPT !.pc = "read"], Tail(d))
          /\ tcp' = From(tcp, n + 1)
    /\ UNCHANGED <<vision, wr, filt, strayed>>

(* poll_read hands out what is pending before it reads on. *)
Deliver ==
    /\ rdr.pc = "read" /\ rdr.pend # <<>>
    /\ \E n \in 1..Len(rdr.pend) :
          rdr' = [rdr EXCEPT !.out = @ \o SubSeq(rdr.pend, 1, n), !.pend = From(@, n + 1)]
    /\ UNCHANGED <<vision, wr, filt, tcp, strayed>>

(* In padding mode a read of TCP feeds the outer deframer; with half a record
   left in the session the deframer starts inside that record. *)
ReadPadding(r, toks) == [r EXCEPT !.outer = @ \o toks, !.pc = "records"]

(* poll_read_tls: the session decrypts what comes. *)
ReadTls(r, toks) ==
    LET all == IF r.half THEN <<Half>> \o toks ELSE toks
        k == Whole(all)
    IN IF From(all, k + 1) \in {<<>>, <<Half>>}
       THEN [r EXCEPT !.pend = @ \o Opened(toks), !.half = (k < Len(all))]
       ELSE ReadFails(r, "desync")

ReadTcp ==
    /\ rdr.pc = "read" /\ rdr.pend = <<>>
    /\ \E n \in 1..Len(tcp) :
          /\ LET toks == SubSeq(tcp, 1, n)
             IN rdr' = CASE rdr.mode = "padding" -> ReadPadding(rdr, toks)
                         [] rdr.mode = "tls" -> ReadTls(rdr, toks)
                         [] rdr.mode = "direct" -> [rdr EXCEPT !.out = @ \o toks]
          /\ tcp' = From(tcp, n + 1)
    /\ UNCHANGED <<vision, wr, filt, strayed>>

(* poll_read_padding_tls takes the records one by one: the command of one decides
   what the bytes behind it are. *)
TakeRecord ==
    /\ rdr.pc = "records"
    /\ LET next == OuterNext(rdr.outer)
       IN rdr' = CASE next = "need" -> [rdr EXCEPT !.pc = "read"]
                   [] next = "record" ->
                        LET x == HandlePadded([rdr EXCEPT !.outer = From(@, 3)], rdr.outer[2][2])
                        IN IF x.pc # "failed" /\ x.mode # "padding"
                           THEN [x EXCEPT !.pc = "read"] ELSE x
                   [] OTHER -> ReadFails(rdr, IF rdr.half THEN "cut" ELSE "desync")
    /\ UNCHANGED <<vision, wr, filt, tcp, strayed>>

(* The end of the TCP stream. *)
ReadEof ==
    /\ rdr.pc \in {"response", "read"} /\ rdr.pend = <<>> /\ tcp = <<>> /\ wr.shut
    /\ rdr' = IF rdr.pc = "read" THEN [rdr EXCEPT !.pc = "eof"] ELSE ReadFails(rdr, "no response")
    /\ UNCHANGED <<vision, wr, filt, tcp, strayed>>

-----------------------------------------------------------------------------
VisionInit ==
    /\ vision \in Streams
    /\ wr = [mode |-> "padding", next |-> "none", pc |-> "idle", first |-> TRUE,
             response |-> Role = "server", found |-> FALSE, lo |-> 1, hi |-> 0,
             fed |-> 0, had |-> 0, done |-> 0, acked |-> 0, zero |-> FALSE,
             sess |-> <<>>, plain |-> <<>>, flushed |-> FALSE, shut |-> FALSE]
    /\ filt = NewFilter
    /\ tcp = IF Role = "client" THEN Sealed(<<Request>>) ELSE <<>>
    /\ rdr = [mode |-> "padding", pc |-> IF Role = "client" THEN "setup" ELSE "response",
              unpad |-> [st |-> "initial", cmd |-> "continue", left |-> 0, content |-> <<>>],
              outer |-> <<>>, half |-> FALSE, pend |-> <<>>, out |-> <<>>, cause |-> "none"]
    /\ strayed = FALSE

VisionNext ==
    \/ \E n \in 1..Len(Data) : PollWrite(n)
    \/ WritePadding \/ WriteTls \/ WriteDirect \/ Flush \/ Shutdown \/ FilterOther
    \/ ReadRequest \/ ReadResponse \/ Deliver \/ ReadTcp \/ TakeRecord \/ ReadEof

VisionSpec == VisionInit /\ [][VisionNext]_visionVars

-----------------------------------------------------------------------------
(* The pieces among symbols and halves of records. *)
PiecesOf(syms) ==
    LET upTo[n \in 0..Len(syms)] ==
            IF n = 0 THEN <<>>
            ELSE IF syms[n][1] = "piece" THEN Append(upTo[n - 1], syms[n]) ELSE upTo[n - 1]
    IN upTo[Len(syms)]
OnTheWay(toks) ==
    LET upTo[n \in 0..Len(toks)] ==
            IF n = 0 THEN <<>>
            ELSE IF toks[n][1] = "rest" THEN upTo[n - 1] \o PiecesOf(toks[n][2])
            ELSE IF toks[n][1] = "piece" THEN Append(upTo[n - 1], toks[n]) ELSE upTo[n - 1]
    IN upTo[Len(toks)]

(* Between two polls every accepted piece is in one place, in order, from what the
   reader has handed out to what the writer's deframer holds back: nothing is
   lost, doubled or overtaken by a change of mode, a full session, a partial
   write or bytes that the caller has to send again. *)
NothingMisplaced ==
    wr.pc = "idle" /\ rdr.pc # "failed" =>
        rdr.out \o rdr.pend \o OnTheWay(rdr.outer) \o OnTheWay(tcp) \o OnTheWay(wr.sess)
          \o PiecesOf(wr.plain) \o PieceRun(wr.lo, wr.hi) = PieceRun(1, wr.acked)

(* The reader changes its mode at the byte at which the writer did: it never takes
   TLS for bare bytes or the reverse.  It fails only where the stream is handed
   over: half a record is left in the session behind the request, an END came
   with the request, or the response was read past a DIRECT. *)
ReadersAgree == rdr.cause \in {"none", "cut", "twice", "overread"}

(* At the end of the stream the reader has got all that was accepted, except what
   the writer's deframer held back for the rest of a record. *)
NothingMissing == rdr.pc = "eof" => rdr.out \o PieceRun(wr.lo, wr.hi) = PieceRun(1, wr.acked)

(* A Vision stream delivers the inner bytes once, in order and to the end, across
   its changes of mode, and its reader changes where its writer did, except at
   the hand-over of the TLS session and for bytes held back; and until a packet
   of other bytes than TLS records exceeds what its length can say, or the
   server's unpadder is handed less than a UUID first: either loses bytes. *)
VisionSafe == ~strayed => NothingMisplaced /\ ReadersAgree /\ NothingMissing

(* "We don't have to worry about consuming some data post-Direct command": what
   is decrypted together with the response is all of the outer TLS. *)
ResponseBeforeDirect == rdr.cause # "overread"
=============================================================================
