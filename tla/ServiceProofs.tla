--------------------------- MODULE ServiceProofs ---------------------------
(***************************************************************************)
(* What a server promises the streams it serves, and what the listeners it *)
(* is served from promise each other: StreamsServed of StreamService for   *)
(* any number of streams and any limit, then GraphSafe of RuntimeGraph for *)
(* any generations, addresses, user lists and faults, then RateHeld of     *)
(* RateLimit for any connections, limits and reads, and what a server      *)
(* promises those who pay for the streams: the theorems about              *)
(* TrafficTracker.                                                         *)
(*                                                                         *)
(* The invariant of StreamService follows a stream through its life: what  *)
(* it has read is what it keeps or has sent on, what it has counted is     *)
(* what it has read of its own stream until the bytes of the handshake are *)
(* added, and what its client has seen is known at each place before the   *)
(* relay.                                                                  *)
(***************************************************************************)
EXTENDS StreamService, RuntimeGraph, RateLimit, TrafficTracker, FoldTheorems

StreamPcs == {"new", "setup", "admit", "sniff", "dial", "respond", "early", "initial", "upload",
              "relay", "closing", "shutdown", "dropping", "done"}
(* Where the client's bytes are kept, where the handshake's are not counted yet,
   and where the guards are those of the user. *)
Keeping == {"admit", "sniff", "dial", "respond", "early", "initial", "upload"}
Uncounted == {"sniff", "dial", "respond", "early", "initial"}
Guarded == {"sniff", "dial", "respond", "early", "initial", "upload", "relay"}

(* What a client may be told. *)
Words == {"response", "early", "data"}

StreamRecord ==
    [pc : StreamPcs, logical : BOOLEAN, result : SetupResults \cup {NoResult}, live : BOOLEAN,
     slot : BOOLEAN, meter : BOOLEAN, initial : Seq(Nat), read : Nat, counted : Nat,
     reported : Nat, up : Seq(Nat), down : Seq(Words), early : BOOLEAN]

(* The first n bytes of a client, in order. *)
FirstBytes(n) == [i \in 1..n |-> i]

(* What the client is told before the relay. *)
Response(r) == IF r THEN <<"response">> ELSE <<>>
Told(r, e) == Response(r) \o (IF e THEN <<"early">> ELSE <<>>)

(* The guards a stream holds. *)
GuardsInv(x) ==
    /\ x.live <=> x.pc \notin {"new", "done"}
    /\ x.pc = "new" => ~x.logical
    /\ x.slot => x.live
    /\ x.meter => x.live
    /\ ~x.meter => x.counted = 0
    /\ x.pc \in {"new", "setup", "admit"} => ~x.slot /\ ~x.meter
    /\ x.pc \in Guarded => x.slot = x.result.auth /\ x.meter = x.result.auth

(* The client's bytes, and those of them that are counted. *)
BytesInv(x) ==
    /\ x.up = FirstBytes(Len(x.up))
    /\ x.pc \in {"new", "setup", "admit"} => x.read = 0 /\ x.counted = 0 /\ x.reported = 0
    /\ x.pc \in {"new", "setup"} => x.up = <<>>
    /\ x.pc \in Keeping => x.up = <<>> /\ x.initial = FirstBytes(x.result.pre + x.read)
    /\ x.pc = "relay" => Len(x.up) = x.result.pre + x.read
    /\ x.counted + x.reported <= x.result.pre + x.read
    /\ x.result.auth => Len(x.up) <= x.counted + x.reported
    /\ x.result.auth /\ x.pc \in Uncounted => x.counted + x.reported = x.read
    /\ x.result.auth /\ x.pc \in {"upload", "relay"} =>
          x.counted + x.reported = x.result.pre + x.read

(* What the client has been told. *)
ToldInv(x) ==
    /\ IsPrefix(x.down, ClientSees(x))
    /\ x.pc \in {"new", "setup", "admit", "sniff", "dial", "respond"} => x.down = <<>>
    /\ x.pc \in {"new", "setup", "admit", "sniff", "dial"} => ~x.early
    /\ x.pc = "early" => x.down = Response(x.result.response)
    /\ x.pc \in {"initial", "upload"} => x.down = Told(x.result.response, x.early)
    /\ x.pc = "relay" => \/ x.down = Told(x.result.response, x.early)
                         \/ x.down = ClientSees(x)

StreamInv(x) ==
    /\ x \in StreamRecord
    /\ x.pc \in {"new", "setup"} => x.result = NoResult
    /\ x.pc \in {"respond", "early"} => x.result.kind = "tcp"
    /\ GuardsInv(x) /\ BytesInv(x) /\ ToldInv(x)

LiveSet == {s \in Streams : st[s].live}

ServiceIInv ==
    /\ st \in [Streams -> StreamRecord]
    /\ \A s \in Streams : StreamInv(st[s])
    /\ liveStreams = Cardinality(LiveSet)
    /\ liveStreams <= MaxStreams
-----------------------------------------------------------------------------
(* Sequences: what is in order stays so, and what the client is told is always
   a beginning of what it may see. *)

LEMMA FirstBytesSeq ==
  ASSUME NEW n \in Nat
  PROVE  /\ FirstBytes(n) \in Seq(Nat) /\ Len(FirstBytes(n)) = n
         /\ Append(FirstBytes(n), n + 1) = FirstBytes(n + 1)
         /\ (FirstBytes(n) = <<>>) <=> (n = 0)
<1>1. FirstBytes(n) \in Seq(Nat) /\ Len(FirstBytes(n)) = n
  BY DEF FirstBytes
<1>2. FirstBytes(n + 1) \in Seq(Nat) /\ Len(FirstBytes(n + 1)) = n + 1
  BY DEF FirstBytes
<1>3. Append(FirstBytes(n), n + 1) = FirstBytes(n + 1)
  BY <1>1, <1>2 DEF FirstBytes
<1> QED
  BY <1>1, <1>3

LEMMA PrefixOfConcat ==
  ASSUME NEW s \in Seq(Words), NEW t \in Seq(Words)
  PROVE  IsPrefix(s, s \o t) /\ IsPrefix(s, s)
<1>1. /\ Len(s) \in Nat /\ Len(t) \in Nat /\ s \o t \in Seq(Words)
      /\ Len(s \o t) = Len(s) + Len(t) /\ SubSeq(s, 1, Len(s)) = s
  BY ConcatProperties, SubSeqFull
<1>2. SubSeq(s \o t, 1, Len(s)) = SubSeq(s, 1, Len(s))
  <2>1. CASE Len(s) = 0
    BY <2>1, SubSeqEmpty
  <2>2. CASE Len(s) # 0
    <3>1. 1 \in 1..Len(s) /\ Len(s) \in 1..Len(s)
      BY <2>2, <1>1
    <3> QED
      BY <3>1, SubSeqOfConcat1
  <2> QED
    BY <2>1, <2>2
<1> QED
  BY <1>1, <1>2 DEF IsPrefix

LEMMA NothingToldPrefix == ASSUME NEW t \in Seq(Words) PROVE IsPrefix(<<>>, t)
<1>1. <<>> \in Seq(Words) /\ <<>> \o t = t
  BY ConcatEmptySeq
<1> QED
  BY <1>1, PrefixOfConcat

LEMMA ToldPrefixes ==
  ASSUME NEW r \in BOOLEAN, NEW e \in BOOLEAN
  PROVE  /\ Response(r) \in Seq(Words) /\ Told(r, e) \in Seq(Words)
         /\ Told(r, e) \o <<"data">> \in Seq(Words)
         /\ IsPrefix(Response(r), Told(r, e) \o <<"data">>)
         /\ IsPrefix(Told(r, e), Told(r, e) \o <<"data">>)
         /\ IsPrefix(Told(r, e) \o <<"data">>, Told(r, e) \o <<"data">>)
         /\ Append(Told(r, e), "data") = Told(r, e) \o <<"data">>
         /\ Contains(Told(r, e) \o <<"data">>, "data")
         /\ r => Append(<<>>, "response") = Response(r)
         /\ ~r => Response(r) = <<>>
         /\ e => Append(Response(r), "early") = Told(r, e)
         /\ ~e => Response(r) = Told(r, e)
<1> DEFINE early == IF e THEN <<"early">> ELSE <<>>
           data == <<"data">>
<1>1. /\ Response(r) \in Seq(Words) /\ early \in Seq(Words) /\ data \in Seq(Words)
  <2>3. \A x \in Words : <<x>> \in Seq(Words)
    OBVIOUS
  <2>4. "response" \in Words /\ "early" \in Words /\ "data" \in Words
    BY DEF Words
  <2>1. <<"response">> \in Seq(Words) /\ <<"early">> \in Seq(Words) /\ <<"data">> \in Seq(Words)
    BY <2>3, <2>4, Zenon
  <2>2. <<>> \in Seq(Words)
    OBVIOUS
  <2> QED
    BY <2>1, <2>2 DEF Response
<1>2. Told(r, e) = Response(r) \o early
  BY DEF Told
<1> HIDE DEF early, data
<1>3. Told(r, e) \in Seq(Words) /\ Told(r, e) \o data \in Seq(Words)
  BY <1>1, <1>2, ConcatProperties
<1>4. Told(r, e) \o data = Response(r) \o (early \o data) /\ early \o data \in Seq(Words)
  <2>1. (Response(r) \o early) \o data = Response(r) \o (early \o data)
    BY <1>1, ConcatAssociative
  <2>2. early \o data \in Seq(Words)
    BY <1>1, ConcatProperties
  <2> QED
    BY <1>2, <2>1, <2>2
<1>5. /\ IsPrefix(Response(r), Told(r, e) \o data) /\ IsPrefix(Told(r, e), Told(r, e) \o data)
      /\ IsPrefix(Told(r, e) \o data, Told(r, e) \o data)
  BY <1>1, <1>3, <1>4, PrefixOfConcat
<1>6. Append(Told(r, e), "data") = Told(r, e) \o data
  BY <1>3, AppendIsConcat DEF data
<1>7. Contains(Told(r, e) \o data, "data")
  <2>1. Len(Told(r, e) \o data) = Len(Told(r, e)) + 1 /\ Len(Told(r, e)) \in Nat
    BY <1>3, <1>6, AppendProperties, LenProperties
  <2>2. (Told(r, e) \o data)[Len(Told(r, e)) + 1] = "data"
    BY <1>3, <1>6, AppendProperties DEF Words
  <2> QED
    BY <2>1, <2>2 DEF Contains
<1>8. r => Append(<<>>, "response") = Response(r)
  <2>1. Append(<<>>, "response") = <<>> \o <<"response">>
    BY AppendIsConcat, EmptySeq
  <2>2. <<>> \o <<"response">> = <<"response">>
    BY ConcatEmptySeq
  <2> QED
    BY <2>1, <2>2 DEF Response
<1>9. e => Append(Response(r), "early") = Told(r, e)
  BY <1>1, <1>2, AppendIsConcat DEF early
<1>10. ~e => Response(r) = Told(r, e)
  BY <1>1, <1>2, ConcatEmptySeq DEF early
<1> QED
  BY <1>1, <1>3, <1>5, <1>6, <1>7, <1>8, <1>9, <1>10 DEF data, Response

(* The results a handshake may have. *)
LEMMA ResultShape ==
  ASSUME NEW r \in SetupResults \cup {NoResult}
  PROVE  /\ r.auth \in BOOLEAN /\ r.response \in BOOLEAN /\ r.pre \in {0, 1}
         /\ r.kind # "tcp" => r.pre = 0 /\ ~r.response
         /\ r.kind \in {"task", "none"} => ~r.auth
         /\ r \in SetupResults => r.kind \in {"tcp", "udp", "routed", "task"}
         /\ r = NoResult => r.kind = "none" /\ r.pre = 0
<1>1. CASE r = NoResult
  <2>1. NoResult.kind = "none"
    BY DEF NoResult
  <2>2. \A q \in Results : q.kind # "none"
    BY DEF Results
  <2>3. NoResult \notin SetupResults
    BY <2>1, <2>2 DEF SetupResults
  <2> QED
    BY <1>1, <2>3 DEF NoResult
<1>2. ASSUME r # NoResult PROVE r \in SetupResults /\ r \in Results
  BY <1>2 DEF SetupResults
<1>3. CASE r \in [kind : {"tcp", "udp"}, auth : BOOLEAN, pre : {0, 1}, response : BOOLEAN]
  BY <1>1, <1>2, <1>3 DEF SetupResults
<1>4. CASE r \in [kind : {"routed"}, auth : BOOLEAN, pre : {0}, response : {FALSE}]
  BY <1>1, <1>2, <1>4
<1>5. CASE r \in [kind : {"task"}, auth : {FALSE}, pre : {0}, response : {FALSE}]
  BY <1>1, <1>2, <1>5
<1> QED
  BY <1>1, <1>2, <1>3, <1>4, <1>5 DEF Results

LEMMA RecordShape ==
  ASSUME NEW x, x \in StreamRecord
  PROVE  /\ x.result.auth \in BOOLEAN /\ x.result.response \in BOOLEAN /\ x.early \in BOOLEAN
         /\ x.result.pre \in Nat /\ x.read \in Nat /\ x.counted \in Nat /\ x.reported \in Nat
         /\ x.up \in Seq(Nat) /\ Len(x.up) \in Nat /\ x.initial \in Seq(Nat)
         /\ x.result.kind # "tcp" => x.result.pre = 0 /\ ~x.result.response
         /\ x.result.kind = "task" => ~x.result.auth
<1>1. x.result \in SetupResults \cup {NoResult}
  BY DEF StreamRecord
<1>2. /\ x.result.auth \in BOOLEAN /\ x.result.response \in BOOLEAN
      /\ x.result.pre \in {0, 1} /\ (x.result.kind # "tcp" => x.result.pre = 0 /\ ~x.result.response)
      /\ x.result.kind = "task" => ~x.result.auth
  BY <1>1, ResultShape
<1> QED
  BY <1>2 DEF StreamRecord

LEMMA SeesShape ==
  ASSUME NEW x, x \in StreamRecord
  PROVE  /\ ClientSees(x) = Told(x.result.response, x.early) \o <<"data">>
         /\ x.result.response \in BOOLEAN /\ x.early \in BOOLEAN
         /\ x.result \in SetupResults \cup {NoResult}
         /\ ClientSees(x) \in Seq(Words)
<1>1. ClientSees(x) = Told(x.result.response, x.early) \o <<"data">>
  BY DEF ClientSees, Told, Response
<1>2. x.result \in SetupResults \cup {NoResult} /\ x.early \in BOOLEAN
  BY DEF StreamRecord
<1>3. x.result.response \in BOOLEAN
  BY <1>2, ResultShape
<1> QED
  BY <1>1, <1>2, <1>3, ToldPrefixes
-----------------------------------------------------------------------------
(* One stream.  Each lemma is about the record x of a stream before a step. *)

LEMMA NewStreamInv == StreamInv(NewStream) /\ StreamInv(Finished)
<1>1. FirstBytes(0) = <<>> /\ <<>> \in Seq(Nat) /\ <<>> \in Seq(Words) /\ Len(<<>>) = 0
  BY FirstBytesSeq
<1>2. /\ NewStream \in StreamRecord /\ NewStream.result = NoResult /\ NewStream.pc = "new"
      /\ Finished \in StreamRecord /\ Finished.result = NoResult /\ Finished.pc = "done"
  BY <1>1 DEF NewStream, Finished, StreamRecord, StreamPcs
<1>3. IsPrefix(<<>>, ClientSees(NewStream)) /\ IsPrefix(<<>>, ClientSees(Finished))
  BY <1>2, SeesShape, NothingToldPrefix
<1>4. NoResult.pre = 0 /\ NoResult.auth = FALSE
  BY DEF NoResult
<1>5. GuardsInv(NewStream) /\ BytesInv(NewStream) /\ ToldInv(NewStream)
  BY <1>1, <1>3, <1>4 DEF NewStream, GuardsInv, BytesInv, ToldInv, Guarded, Keeping, Uncounted
<1>6. GuardsInv(Finished) /\ BytesInv(Finished) /\ ToldInv(Finished)
  BY <1>1, <1>3, <1>4 DEF NewStream, Finished, GuardsInv, BytesInv, ToldInv, Guarded, Keeping,
     Uncounted
<1> QED
  BY <1>2, <1>5, <1>6 DEF StreamInv

(* A stream that goes where nothing more is promised. *)
LEMMA LeavesInv ==
  ASSUME NEW x, StreamInv(x), x.live, NEW pc \in {"closing", "shutdown", "dropping"}
  PROVE  StreamInv([x EXCEPT !.pc = pc])
<1> DEFINE y == [x EXCEPT !.pc = pc]
<1>1. /\ y \in StreamRecord /\ y.pc = pc /\ y.result = x.result /\ y.live = x.live
      /\ y.slot = x.slot /\ y.meter = x.meter /\ y.read = x.read /\ y.counted = x.counted
      /\ y.reported = x.reported /\ y.up = x.up /\ y.down = x.down /\ y.early = x.early
      /\ y.initial = x.initial
  BY DEF StreamInv, StreamRecord, StreamPcs
<1>2. ClientSees(y) = ClientSees(x)
  BY <1>1 DEF ClientSees
<1> HIDE DEF y
<1>3. GuardsInv(y)
  BY <1>1 DEF StreamInv, GuardsInv, Guarded
<1>4. BytesInv(y)
  BY <1>1 DEF StreamInv, BytesInv, Keeping, Uncounted
<1>5. ToldInv(y)
  BY <1>1, <1>2 DEF StreamInv, ToldInv
<1>6. StreamInv(y)
  BY <1>1, <1>3, <1>4, <1>5 DEF StreamInv
<1> QED
  BY <1>6 DEF y

LEMMA AcceptedInv ==
  ASSUME NEW x, StreamInv(x), x.pc = "new"
  PROVE  StreamInv([x EXCEPT !.pc = "setup", !.live = TRUE])
<1> DEFINE y == [x EXCEPT !.pc = "setup", !.live = TRUE]
<1>1. /\ y \in StreamRecord /\ y.pc = "setup" /\ y.result = x.result /\ y.live = TRUE
      /\ y.slot = x.slot /\ y.meter = x.meter /\ y.read = x.read /\ y.counted = x.counted
      /\ y.reported = x.reported /\ y.up = x.up /\ y.down = x.down /\ y.early = x.early
  BY DEF StreamInv, StreamRecord, StreamPcs
<1>2. ClientSees(y) = ClientSees(x)
  BY <1>1 DEF ClientSees
<1> HIDE DEF y
<1>3. GuardsInv(y)
  BY <1>1 DEF StreamInv, GuardsInv, Guarded
<1>4. BytesInv(y)
  BY <1>1 DEF StreamInv, BytesInv, Keeping, Uncounted
<1>5. ToldInv(y)
  BY <1>1, <1>2 DEF StreamInv, ToldInv
<1>6. StreamInv(y)
  BY <1>1, <1>3, <1>4, <1>5 DEF StreamInv
<1> QED
  BY <1>6 DEF y

(* The handshake of an accepted stream, or of a new logical one, has ended. *)
LEMMA WithResultInv ==
  ASSUME NEW x, x \in StreamRecord, x.live, ~x.slot, ~x.meter, NEW r \in SetupResults,
         x.read = 0, x.counted = 0, x.reported = 0, x.up = <<>>, x.down = <<>>, ~x.early
  PROVE  StreamInv(WithResult(x, r))
<1> DEFINE y == WithResult(x, r)
           pc == IF r.kind = "task" THEN "relay" ELSE "admit"
<1>1. /\ r.auth \in BOOLEAN /\ r.response \in BOOLEAN /\ r.pre \in Nat
      /\ r.kind = "task" => ~r.auth /\ ~r.response /\ r.pre = 0
  BY ResultShape
<1>2. FirstBytes(r.pre) \in Seq(Nat) /\ pc \in StreamPcs /\ FirstBytes(0) = <<>> /\ Len(<<>>) = 0
  BY <1>1, FirstBytesSeq DEF StreamPcs
<1>3. y = [x EXCEPT !.pc = pc, !.result = r, !.initial = FirstBytes(r.pre)]
  BY DEF WithResult, FirstBytes
<1> HIDE DEF y, pc
<1>4. /\ y \in StreamRecord /\ y.pc = pc /\ y.result = r /\ y.live = x.live
      /\ y.slot = x.slot /\ y.meter = x.meter /\ y.read = 0 /\ y.counted = 0
      /\ y.reported = 0 /\ y.up = <<>> /\ y.down = <<>> /\ y.early = x.early
      /\ y.initial = FirstBytes(r.pre)
  BY <1>2, <1>3 DEF StreamRecord
<1>5. pc \in {"relay", "admit"} /\ (pc = "relay" => r.kind = "task")
  BY DEF pc
<1>6. IsPrefix(<<>>, ClientSees(y))
  BY <1>4, SeesShape, NothingToldPrefix
<1>7. GuardsInv(y)
  BY <1>1, <1>4, <1>5 DEF StreamRecord, GuardsInv, Guarded
<1>8. BytesInv(y)
  BY <1>1, <1>2, <1>4, <1>5 DEF BytesInv, Keeping, Uncounted
<1>9. ToldInv(y)
  <2>1. pc = "relay" => Told(r.response, y.early) = <<>>
    <3>1. Told(FALSE, FALSE) = <<>>
      BY ToldPrefixes
    <3>2. y.early = FALSE
      BY <1>4 DEF StreamRecord
    <3>3. pc = "relay" => r.response = FALSE
      BY <1>1, <1>5
    <3> QED
      BY <3>1, <3>2, <3>3
  <2> QED
    BY <1>4, <1>5, <1>6, <2>1 DEF ToldInv
<1>10. StreamInv(y)
  BY <1>4, <1>5, <1>7, <1>8, <1>9 DEF StreamInv
<1> QED
  BY <1>10 DEF y

(* check_device_limit has admitted the device. *)
LEMMA AdmittedInv ==
  ASSUME NEW x, StreamInv(x), x.pc = "admit", NEW pc \in {"relay", "sniff", "dial"},
         pc = "relay" => x.result.kind = "routed"
  PROVE  StreamInv([x EXCEPT !.pc = pc, !.slot = x.result.auth, !.meter = x.result.auth])
<1> DEFINE y == [x EXCEPT !.pc = pc, !.slot = x.result.auth, !.meter = x.result.auth]
<1>0. /\ x.result.auth \in BOOLEAN /\ x.result.response \in BOOLEAN /\ x.early \in BOOLEAN
      /\ x.result.pre \in Nat /\ x.read \in Nat /\ x.counted \in Nat /\ x.reported \in Nat
      /\ x.up \in Seq(Nat) /\ Len(x.up) \in Nat
  BY RecordShape DEF StreamInv
<1>1. /\ y \in StreamRecord /\ y.pc = pc /\ y.slot = x.result.auth /\ y.meter = x.result.auth
      /\ y.result = x.result /\ y.live = x.live /\ y.initial = x.initial /\ y.read = x.read
      /\ y.counted = x.counted /\ y.reported = x.reported /\ y.up = x.up /\ y.down = x.down
      /\ y.early = x.early
  BY <1>0 DEF StreamInv, StreamRecord, StreamPcs, BytesInv
<1> HIDE DEF y
<1>3. GuardsInv(y)
  BY <1>0, <1>1 DEF StreamInv, GuardsInv, Guarded
<1>4. BytesInv(y)
  <2>1. x.result.kind # "tcp" => x.result.pre = 0
    BY RecordShape DEF StreamInv
  <2>2. FirstBytes(0) = <<>> /\ Len(<<>>) = 0
    BY FirstBytesSeq
  <2>3. x.read = 0 /\ x.counted = 0 /\ x.reported = 0 /\ x.up = <<>>
    BY DEF StreamInv, BytesInv, Keeping
  <2>4. pc = "relay" => Len(x.up) = x.result.pre + x.read
    BY <2>1, <2>2, <2>3
  <2> QED
    BY <1>0, <1>1, <2>2, <2>3, <2>4 DEF StreamInv, BytesInv, Keeping, Uncounted
<1>2. ClientSees(y) = ClientSees(x)
  BY <1>1 DEF ClientSees
<1>5. ToldInv(y)
  <2>1. Told(FALSE, FALSE) = <<>>
    BY ToldPrefixes
  <2>2. x.result.kind # "tcp" => x.result.response = FALSE
    BY <1>0, RecordShape DEF StreamInv
  <2>3. x.early = FALSE /\ x.down = <<>>
    BY <1>0 DEF StreamInv, ToldInv
  <2>4. pc = "relay" => Told(y.result.response, y.early) = <<>>
    BY <1>1, <2>1, <2>2, <2>3
  <2> QED
    BY <1>1, <1>2, <2>3, <2>4 DEF StreamInv, ToldInv
<1>6. StreamInv(y)
  BY <1>1, <1>3, <1>4, <1>5 DEF StreamInv
<1> QED
  BY <1>6 DEF y

(* Sniffing is over. *)
LEMMA SniffEndInv ==
  ASSUME NEW x, StreamInv(x), x.pc = "sniff"
  PROVE  StreamInv([x EXCEPT !.pc = "dial"])
<1> DEFINE y == [x EXCEPT !.pc = "dial"]
<1>0. /\ x.result.auth \in BOOLEAN /\ x.result.response \in BOOLEAN /\ x.early \in BOOLEAN
      /\ x.result.pre \in Nat /\ x.read \in Nat /\ x.counted \in Nat /\ x.reported \in Nat
      /\ x.up \in Seq(Nat) /\ Len(x.up) \in Nat
  BY RecordShape DEF StreamInv
<1>1. /\ y \in StreamRecord /\ y.pc = "dial" /\ y.result = x.result /\ y.live = x.live
      /\ y.slot = x.slot /\ y.meter = x.meter /\ y.initial = x.initial /\ y.read = x.read
      /\ y.counted = x.counted /\ y.reported = x.reported /\ y.up = x.up /\ y.down = x.down
      /\ y.early = x.early
  BY <1>0 DEF StreamInv, StreamRecord, StreamPcs, BytesInv
<1>2. ClientSees(y) = ClientSees(x)
  BY <1>1 DEF ClientSees
<1> HIDE DEF y
<1>3. GuardsInv(y)
  BY <1>0, <1>1 DEF StreamInv, GuardsInv, Guarded
<1>4. BytesInv(y)
  BY <1>0, <1>1 DEF StreamInv, StreamRecord, BytesInv, Keeping, Uncounted
<1>5. ToldInv(y)
  BY <1>1, <1>2 DEF StreamInv, ToldInv
<1>6. StreamInv(y)
  BY <1>1, <1>3, <1>4, <1>5 DEF StreamInv
<1> QED
  BY <1>6 DEF y

(* MeteredStream has read one byte. *)
LEMMA MeteredShape ==
  ASSUME NEW x, x \in StreamRecord
  PROVE  /\ Metered(x) \in StreamRecord
         /\ Metered(x).counted \in Nat /\ Metered(x).read = x.read + 1 /\ Metered(x).read \in Nat
         /\ x.result.auth => Metered(x).counted = x.counted + 1
         /\ ~x.result.auth => Metered(x).counted = x.counted
         /\ Metered(x).pc = x.pc /\ Metered(x).result = x.result /\ Metered(x).live = x.live
         /\ Metered(x).slot = x.slot /\ Metered(x).meter = x.meter
         /\ Metered(x).initial = x.initial /\ Metered(x).reported = x.reported
         /\ Metered(x).up = x.up /\ Metered(x).down = x.down /\ Metered(x).early = x.early
<1> DEFINE c == IF x.result.auth THEN x.counted + 1 ELSE x.counted
           r == x.read + 1
<1>1. c \in Nat /\ r \in Nat
  BY DEF StreamRecord
<1>2. Metered(x) = [x EXCEPT !.read = r, !.counted = c]
  BY DEF Metered
<1>3. x.result.auth => c = x.counted + 1
  OBVIOUS
<1>4. ~x.result.auth => c = x.counted
  OBVIOUS
<1>5. r = x.read + 1
  OBVIOUS
<1> HIDE DEF c, r
<1> QED
  BY <1>1, <1>2, <1>3, <1>4, <1>5 DEF StreamRecord

(* A sniffed byte is kept, and counted when the user is known. *)
LEMMA SniffReadInv ==
  ASSUME NEW x, StreamInv(x), x.pc = "sniff", NEW pc \in {"sniff", "dial"}
  PROVE  StreamInv([Metered(x) EXCEPT !.initial = Append(@, NextByte(x)), !.pc = pc])
<1> DEFINE m == Metered(x)
           n == x.result.pre + x.read
           y == [m EXCEPT !.initial = Append(@, NextByte(x)), !.pc = pc]
<1>1. /\ x.result.auth \in BOOLEAN /\ x.result.pre \in Nat /\ x.read \in Nat
      /\ x.counted \in Nat /\ x.reported \in Nat
  BY RecordShape DEF StreamInv
<1>2. n \in Nat /\ n + 1 \in Nat /\ n = x.result.pre + x.read /\ NextByte(x) = n + 1
      /\ x.result.pre + (x.read + 1) = n + 1
  BY <1>1 DEF NextByte
<1>3. x.initial = FirstBytes(n) /\ x.up = <<>> /\ Len(x.up) = 0
  BY DEF StreamInv, BytesInv, Keeping
<1> HIDE DEF n, m
<1>4. Append(x.initial, NextByte(x)) = FirstBytes(n + 1) /\ FirstBytes(n + 1) \in Seq(Nat)
  BY <1>2, <1>3, FirstBytesSeq
<1>5. /\ m \in StreamRecord /\ m.counted \in Nat /\ m.read = x.read + 1 /\ m.read \in Nat
      /\ x.result.auth => m.counted = x.counted + 1
      /\ ~x.result.auth => m.counted = x.counted
      /\ m.result = x.result /\ m.live = x.live /\ m.slot = x.slot /\ m.meter = x.meter
      /\ m.initial = x.initial /\ m.reported = x.reported /\ m.up = x.up
      /\ m.down = x.down /\ m.early = x.early
  BY MeteredShape DEF m, StreamInv
<1>6. /\ y \in StreamRecord /\ y.pc = pc /\ y.initial = FirstBytes(n + 1)
      /\ y.counted = m.counted /\ y.read = m.read /\ y.result = m.result /\ y.live = m.live
      /\ y.slot = m.slot /\ y.meter = m.meter /\ y.reported = m.reported /\ y.up = m.up
      /\ y.down = m.down /\ y.early = m.early
  BY <1>4, <1>5 DEF StreamRecord, StreamPcs
<1> HIDE DEF y
<1>7. GuardsInv(y)
  BY <1>1, <1>5, <1>6 DEF StreamInv, GuardsInv, Guarded
<1>8. BytesInv(y)
  <2>1. x.result.auth => m.counted + x.reported = x.read + 1
    BY <1>1, <1>5 DEF StreamInv, BytesInv, Uncounted
  <2>5. x.counted + x.reported <= n
    BY <1>2 DEF StreamInv, BytesInv
  <2>2. m.counted + x.reported <= n + 1
    BY <1>1, <1>2, <1>5, <2>5
  <2>3. y.result.pre + y.read = n + 1
    BY <1>2, <1>5, <1>6
  <2>4. x.up = FirstBytes(Len(x.up))
    BY DEF StreamInv, BytesInv
  <2> QED
    BY <1>1, <1>2, <1>3, <1>5, <1>6, <2>1, <2>2, <2>3, <2>4 DEF BytesInv, Keeping, Uncounted
<1>9. ClientSees(y) = ClientSees(x)
  BY <1>5, <1>6 DEF ClientSees
<1>10. ToldInv(y)
  BY <1>5, <1>6, <1>9 DEF StreamInv, ToldInv
<1>11. StreamInv(y)
  BY <1>6, <1>7, <1>8, <1>10 DEF StreamInv
<1> QED
  BY <1>11 DEF y, m

(* The relay reads a byte, counts it and sends it on. *)
LEMMA RelayUpInv ==
  ASSUME NEW x, StreamInv(x), x.pc = "relay"
  PROVE  StreamInv([Metered(x) EXCEPT !.up = Append(@, NextByte(x))])
<1> DEFINE m == Metered(x)
           n == x.result.pre + x.read
           y == [m EXCEPT !.up = Append(@, NextByte(x))]
<1>1. /\ x.result.auth \in BOOLEAN /\ x.result.pre \in Nat /\ x.read \in Nat
      /\ x.counted \in Nat /\ x.reported \in Nat
  BY RecordShape DEF StreamInv
<1>2. n \in Nat /\ n + 1 \in Nat /\ n = x.result.pre + x.read /\ NextByte(x) = n + 1
      /\ x.result.pre + (x.read + 1) = n + 1
  BY <1>1 DEF NextByte
<1>3. x.up = FirstBytes(n)
  BY DEF StreamInv, BytesInv
<1> HIDE DEF n, m
<1>4. /\ Append(x.up, NextByte(x)) = FirstBytes(n + 1) /\ FirstBytes(n + 1) \in Seq(Nat)
      /\ Len(FirstBytes(n + 1)) = n + 1
  BY <1>2, <1>3, FirstBytesSeq
<1>5. /\ m \in StreamRecord /\ m.counted \in Nat /\ m.read = x.read + 1 /\ m.read \in Nat
      /\ x.result.auth => m.counted = x.counted + 1
      /\ ~x.result.auth => m.counted = x.counted
      /\ m.result = x.result /\ m.live = x.live /\ m.slot = x.slot /\ m.meter = x.meter
      /\ m.reported = x.reported /\ m.up = x.up /\ m.pc = x.pc
      /\ m.down = x.down /\ m.early = x.early
  BY MeteredShape DEF m, StreamInv
<1>6. /\ y \in StreamRecord /\ y.pc = "relay" /\ y.up = FirstBytes(n + 1)
      /\ y.counted = m.counted /\ y.read = m.read /\ y.result = m.result /\ y.live = m.live
      /\ y.slot = m.slot /\ y.meter = m.meter /\ y.reported = m.reported
      /\ y.down = m.down /\ y.early = m.early
  BY <1>4, <1>5 DEF StreamRecord
<1> HIDE DEF y
<1>7. GuardsInv(y)
  BY <1>1, <1>5, <1>6 DEF StreamInv, GuardsInv, Guarded
<1>8. BytesInv(y)
  <2>1. x.result.auth => m.counted + x.reported = n + 1
    BY <1>1, <1>2, <1>5 DEF StreamInv, BytesInv
  <2>5. x.counted + x.reported <= n
    BY <1>2 DEF StreamInv, BytesInv
  <2>2. m.counted + x.reported <= n + 1
    BY <1>1, <1>2, <1>5, <2>5
  <2>3. y.result.pre + y.read = n + 1
    BY <1>2, <1>5, <1>6
  <2> QED
    BY <1>1, <1>2, <1>4, <1>5, <1>6, <2>1, <2>2, <2>3 DEF BytesInv, Keeping, Uncounted
<1>9. ClientSees(y) = ClientSees(x)
  BY <1>5, <1>6 DEF ClientSees
<1>10. ToldInv(y)
  BY <1>5, <1>6, <1>9 DEF StreamInv, ToldInv
<1>11. StreamInv(y)
  BY <1>6, <1>7, <1>8, <1>10 DEF StreamInv
<1> QED
  BY <1>11 DEF y, m

(* The upstream is there, perhaps with early data. *)
LEMMA DialDoneInv ==
  ASSUME NEW x, StreamInv(x), x.pc = "dial", NEW early \in BOOLEAN, early => x.result.kind = "tcp",
         NEW pc \in {"respond", "initial"}, pc = "respond" <=> x.result.kind = "tcp"
  PROVE  StreamInv([x EXCEPT !.pc = pc, !.early = early])
<1> DEFINE y == [x EXCEPT !.pc = pc, !.early = early]
<1>0. /\ x.result.auth \in BOOLEAN /\ x.result.response \in BOOLEAN /\ x.early \in BOOLEAN
      /\ x.result.pre \in Nat /\ x.read \in Nat /\ x.counted \in Nat /\ x.reported \in Nat
      /\ x.up \in Seq(Nat) /\ Len(x.up) \in Nat /\ x.initial \in Seq(Nat)
  BY RecordShape DEF StreamInv
<1>1. /\ y \in StreamRecord /\ y.pc = pc /\ y.early = early /\ y.result = x.result
      /\ y.live = x.live /\ y.slot = x.slot /\ y.meter = x.meter /\ y.initial = x.initial
      /\ y.read = x.read /\ y.counted = x.counted /\ y.reported = x.reported /\ y.up = x.up
      /\ y.down = x.down
  BY <1>0 DEF StreamInv, StreamRecord, StreamPcs
<1> HIDE DEF y
<1>3. GuardsInv(y)
  BY <1>0, <1>1 DEF StreamInv, GuardsInv, Guarded
<1>4. BytesInv(y)
  BY <1>0, <1>1 DEF StreamInv, BytesInv, Keeping, Uncounted
<1>5. ToldInv(y)
  <2>1. IsPrefix(<<>>, ClientSees(y))
    BY <1>1, SeesShape, NothingToldPrefix
  <2>2. Told(FALSE, FALSE) = <<>>
    BY ToldPrefixes
  <2>3. pc = "initial" => x.result.response = FALSE /\ early = FALSE
    BY <1>0, RecordShape DEF StreamInv
  <2>4. x.down = <<>>
    BY DEF StreamInv, ToldInv
  <2> QED
    BY <1>1, <2>1, <2>2, <2>3, <2>4 DEF ToldInv
<1>6. StreamInv(y)
  BY <1>1, <1>3, <1>4, <1>5 DEF StreamInv
<1> QED
  BY <1>6 DEF y

(* The protocol's response is written, if it has one. *)
LEMMA RespondInv ==
  ASSUME NEW x, StreamInv(x), x.pc = "respond"
  PROVE  StreamInv([x EXCEPT !.down = IF x.result.response THEN Append(@, "response") ELSE @, !.pc = "early"])
<1> DEFINE y == [x EXCEPT !.down = IF x.result.response THEN Append(@, "response") ELSE @, !.pc = "early"]
<1>0. /\ x.result.auth \in BOOLEAN /\ x.result.response \in BOOLEAN /\ x.early \in BOOLEAN
      /\ x.result.pre \in Nat /\ x.read \in Nat /\ x.counted \in Nat /\ x.reported \in Nat
      /\ x.up \in Seq(Nat) /\ Len(x.up) \in Nat /\ x.initial \in Seq(Nat)
  BY RecordShape DEF StreamInv
<1>9. /\ ClientSees(x) = Told(x.result.response, x.early) \o <<"data">>
      /\ IsPrefix(Response(x.result.response), ClientSees(x))
      /\ IsPrefix(Told(x.result.response, x.early), ClientSees(x))
      /\ IsPrefix(ClientSees(x), ClientSees(x))
      /\ Response(x.result.response) \in Seq(Words) /\ Told(x.result.response, x.early) \in Seq(Words)
      /\ ClientSees(x) \in Seq(Words)
  BY <1>0, SeesShape, ToldPrefixes DEF StreamInv
<1>7. x.down = <<>>
  BY DEF StreamInv, ToldInv
<1>8. (IF x.result.response THEN Append(x.down, "response") ELSE x.down) = Response(x.result.response)
  BY <1>0, <1>7, ToldPrefixes
<1>1. /\ y \in StreamRecord /\ y.pc = "early" /\ y.down = Response(x.result.response)
      /\ y.result = x.result /\ y.live = x.live /\ y.slot = x.slot /\ y.meter = x.meter
      /\ y.initial = x.initial /\ y.read = x.read /\ y.counted = x.counted
      /\ y.reported = x.reported /\ y.up = x.up /\ y.early = x.early
  BY <1>8, <1>9, <1>0 DEF StreamInv, StreamRecord, StreamPcs
<1> HIDE DEF y
<1>3. GuardsInv(y)
  BY <1>0, <1>1 DEF StreamInv, GuardsInv, Guarded
<1>4. BytesInv(y)
  BY <1>0, <1>1 DEF StreamInv, BytesInv, Keeping, Uncounted
<1>2. ClientSees(y) = ClientSees(x)
  BY <1>1 DEF ClientSees
<1>5. ToldInv(y)
  BY <1>1, <1>2, <1>9 DEF ToldInv
<1>6. StreamInv(y)
  BY <1>1, <1>3, <1>4, <1>5 DEF StreamInv
<1> QED
  BY <1>6 DEF y

(* What the target said early is written, if there is any. *)
LEMMA WriteEarlyInv ==
  ASSUME NEW x, StreamInv(x), x.pc = "early"
  PROVE  StreamInv([x EXCEPT !.down = IF x.early THEN Append(@, "early") ELSE @, !.pc = "initial"])
<1> DEFINE y == [x EXCEPT !.down = IF x.early THEN Append(@, "early") ELSE @, !.pc = "initial"]
<1>0. /\ x.result.auth \in BOOLEAN /\ x.result.response \in BOOLEAN /\ x.early \in BOOLEAN
      /\ x.result.pre \in Nat /\ x.read \in Nat /\ x.counted \in Nat /\ x.reported \in Nat
      /\ x.up \in Seq(Nat) /\ Len(x.up) \in Nat /\ x.initial \in Seq(Nat)
  BY RecordShape DEF StreamInv
<1>9. /\ ClientSees(x) = Told(x.result.response, x.early) \o <<"data">>
      /\ IsPrefix(Response(x.result.response), ClientSees(x))
      /\ IsPrefix(Told(x.result.response, x.early), ClientSees(x))
      /\ IsPrefix(ClientSees(x), ClientSees(x))
      /\ Response(x.result.response) \in Seq(Words) /\ Told(x.result.response, x.early) \in Seq(Words)
      /\ ClientSees(x) \in Seq(Words)
  BY <1>0, SeesShape, ToldPrefixes DEF StreamInv
<1>7. x.down = Response(x.result.response)
  BY DEF StreamInv, ToldInv
<1>8. (IF x.early THEN Append(x.down, "early") ELSE x.down) = Told(x.result.response, x.early)
  BY <1>0, <1>7, ToldPrefixes
<1>1. /\ y \in StreamRecord /\ y.pc = "initial" /\ y.down = Told(x.result.response, x.early)
      /\ y.result = x.result /\ y.live = x.live /\ y.slot = x.slot /\ y.meter = x.meter
      /\ y.initial = x.initial /\ y.read = x.read /\ y.counted = x.counted
      /\ y.reported = x.reported /\ y.up = x.up /\ y.early = x.early
  BY <1>8, <1>9, <1>0 DEF StreamInv, StreamRecord, StreamPcs
<1> HIDE DEF y
<1>3. GuardsInv(y)
  BY <1>0, <1>1 DEF StreamInv, GuardsInv, Guarded
<1>4. BytesInv(y)
  BY <1>0, <1>1 DEF StreamInv, BytesInv, Keeping, Uncounted
<1>2. ClientSees(y) = ClientSees(x)
  BY <1>1 DEF ClientSees
<1>5. ToldInv(y)
  BY <1>1, <1>2, <1>9 DEF ToldInv
<1>6. StreamInv(y)
  BY <1>1, <1>3, <1>4, <1>5 DEF StreamInv
<1> QED
  BY <1>6 DEF y

(* The bytes of the handshake are counted. *)
LEMMA CountInitialInv ==
  ASSUME NEW x, StreamInv(x), x.pc = "initial"
  PROVE  StreamInv([x EXCEPT !.counted = IF x.result.auth THEN @ + x.result.pre ELSE @,
                      !.pc = IF x.initial = <<>> THEN "relay" ELSE "upload"])
<1> DEFINE y == [x EXCEPT !.counted = IF x.result.auth THEN @ + x.result.pre ELSE @,
                      !.pc = IF x.initial = <<>> THEN "relay" ELSE "upload"]
<1>0. /\ x.result.auth \in BOOLEAN /\ x.result.response \in BOOLEAN /\ x.early \in BOOLEAN
      /\ x.result.pre \in Nat /\ x.read \in Nat /\ x.counted \in Nat /\ x.reported \in Nat
      /\ x.up \in Seq(Nat) /\ Len(x.up) \in Nat /\ x.initial \in Seq(Nat)
  BY RecordShape DEF StreamInv
<1> DEFINE n == x.result.pre + x.read
<1>10. n \in Nat /\ n = x.result.pre + x.read
  BY <1>0
<1> HIDE DEF n
<1> DEFINE c == IF x.result.auth THEN x.counted + x.result.pre ELSE x.counted
           pc == IF x.initial = <<>> THEN "relay" ELSE "upload"
<1>7. /\ c \in Nat /\ (x.result.auth => c = x.counted + x.result.pre)
      /\ ~x.result.auth => c = x.counted
  BY <1>0
<1>8. pc \in {"relay", "upload"} /\ (pc = "relay" => x.initial = <<>>)
  OBVIOUS
<1>9. y = [x EXCEPT !.counted = c, !.pc = pc]
  OBVIOUS
<1> HIDE DEF c, pc, y
<1>1. /\ y \in StreamRecord /\ y.pc = pc /\ y.counted = c /\ y.result = x.result
      /\ y.live = x.live /\ y.slot = x.slot /\ y.meter = x.meter /\ y.initial = x.initial
      /\ y.read = x.read /\ y.reported = x.reported /\ y.up = x.up /\ y.down = x.down
      /\ y.early = x.early
  BY <1>7, <1>8, <1>9, <1>0 DEF StreamInv, StreamRecord, StreamPcs
<1> HIDE DEF y
<1>3. GuardsInv(y)
  BY <1>7, <1>8, <1>0, <1>1 DEF StreamInv, GuardsInv, Guarded
<1>4. BytesInv(y)
  <2>1. x.initial = FirstBytes(n) /\ x.up = <<>> /\ Len(x.up) = 0
    BY <1>10 DEF StreamInv, BytesInv, Keeping
  <2>2. pc = "relay" => n = 0
    BY <1>8, <1>10, <2>1, FirstBytesSeq
  <2>3. x.result.auth => c + x.reported = n
    <3>1. x.result.auth => x.counted + x.reported = x.read
      BY DEF StreamInv, BytesInv, Uncounted
    <3> QED
      BY <1>0, <1>7, <1>10, <3>1
  <2>4. x.counted + x.reported <= n /\ x.up = FirstBytes(Len(x.up))
    BY <1>10 DEF StreamInv, BytesInv
  <2>5. y.result.pre + y.read = n
    BY <1>1, <1>10
  <2> QED
    BY <1>0, <1>1, <1>7, <1>8, <2>1, <2>2, <2>3, <2>4, <2>5 DEF BytesInv, Keeping, Uncounted
<1>2. ClientSees(y) = ClientSees(x)
  BY <1>1 DEF ClientSees
<1>5. ToldInv(y)
  BY <1>1, <1>2, <1>8 DEF StreamInv, ToldInv
<1>6. StreamInv(y)
  BY <1>8, <1>1, <1>3, <1>4, <1>5 DEF StreamInv
<1> QED
  BY <1>6 DEF y

(* The kept bytes go to the target. *)
LEMMA WriteInitialInv ==
  ASSUME NEW x, StreamInv(x), x.pc = "upload"
  PROVE  StreamInv([x EXCEPT !.up = @ \o x.initial, !.initial = <<>>, !.pc = "relay"])
<1> DEFINE y == [x EXCEPT !.up = @ \o x.initial, !.initial = <<>>, !.pc = "relay"]
<1>0. /\ x.result.auth \in BOOLEAN /\ x.result.response \in BOOLEAN /\ x.early \in BOOLEAN
      /\ x.result.pre \in Nat /\ x.read \in Nat /\ x.counted \in Nat /\ x.reported \in Nat
      /\ x.up \in Seq(Nat) /\ Len(x.up) \in Nat /\ x.initial \in Seq(Nat)
  BY RecordShape DEF StreamInv
<1> DEFINE n == x.result.pre + x.read
<1>10. n \in Nat /\ n = x.result.pre + x.read
  BY <1>0
<1> HIDE DEF n
<1>7. x.initial = FirstBytes(n) /\ x.up = <<>>
  BY <1>10 DEF StreamInv, BytesInv, Keeping
<1>8. /\ x.up \o x.initial = FirstBytes(n) /\ <<>> \in Seq(Nat)
      /\ FirstBytes(n) \in Seq(Nat) /\ Len(FirstBytes(n)) = n
  <2>1. FirstBytes(n) \in Seq(Nat) /\ Len(FirstBytes(n)) = n
    BY <1>10, FirstBytesSeq
  <2>2. <<>> \o FirstBytes(n) = FirstBytes(n)
    BY <2>1, ConcatEmptySeq
  <2> QED
    BY <1>7, <2>1, <2>2
<1>1. /\ y \in StreamRecord /\ y.pc = "relay" /\ y.initial = <<>> /\ y.up = FirstBytes(n)
      /\ y.result = x.result /\ y.live = x.live /\ y.slot = x.slot /\ y.meter = x.meter
      /\ y.read = x.read /\ y.counted = x.counted /\ y.reported = x.reported /\ y.down = x.down
      /\ y.early = x.early
  BY <1>8, <1>0 DEF StreamInv, StreamRecord, StreamPcs
<1> HIDE DEF y
<1>3. GuardsInv(y)
  BY <1>0, <1>1 DEF StreamInv, GuardsInv, Guarded
<1>4. BytesInv(y)
  BY <1>0, <1>1, <1>8, <1>10 DEF StreamInv, BytesInv, Keeping, Uncounted
<1>2. ClientSees(y) = ClientSees(x)
  BY <1>1 DEF ClientSees
<1>5. ToldInv(y)
  BY <1>1, <1>2 DEF StreamInv, ToldInv
<1>6. StreamInv(y)
  BY <1>1, <1>3, <1>4, <1>5 DEF StreamInv
<1> QED
  BY <1>6 DEF y

(* The target's bytes follow what was said before. *)
LEMMA RelayDownInv ==
  ASSUME NEW x, StreamInv(x), x.pc = "relay", ~Contains(x.down, "data")
  PROVE  StreamInv([x EXCEPT !.down = Append(@, "data")])
<1> DEFINE y == [x EXCEPT !.down = Append(@, "data")]
<1>0. /\ x.result.auth \in BOOLEAN /\ x.result.response \in BOOLEAN /\ x.early \in BOOLEAN
      /\ x.result.pre \in Nat /\ x.read \in Nat /\ x.counted \in Nat /\ x.reported \in Nat
      /\ x.up \in Seq(Nat) /\ Len(x.up) \in Nat /\ x.initial \in Seq(Nat)
  BY RecordShape DEF StreamInv
<1>9. /\ ClientSees(x) = Told(x.result.response, x.early) \o <<"data">>
      /\ IsPrefix(Response(x.result.response), ClientSees(x))
      /\ IsPrefix(Told(x.result.response, x.early), ClientSees(x))
      /\ IsPrefix(ClientSees(x), ClientSees(x))
      /\ Response(x.result.response) \in Seq(Words) /\ Told(x.result.response, x.early) \in Seq(Words)
      /\ ClientSees(x) \in Seq(Words)
  BY <1>0, SeesShape, ToldPrefixes DEF StreamInv
<1>7. x.down = Told(x.result.response, x.early)
  BY <1>0, <1>9, ToldPrefixes DEF StreamInv, ToldInv
<1>8. Append(x.down, "data") = ClientSees(x)
  BY <1>0, <1>7, <1>9, ToldPrefixes
<1>1. /\ y \in StreamRecord /\ y.down = ClientSees(x) /\ y.result = x.result /\ y.live = x.live
      /\ y.slot = x.slot /\ y.meter = x.meter /\ y.initial = x.initial /\ y.read = x.read
      /\ y.counted = x.counted /\ y.reported = x.reported /\ y.up = x.up /\ y.early = x.early /\ y.pc = x.pc
  BY <1>8, <1>9, <1>0 DEF StreamInv, StreamRecord, StreamPcs
<1> HIDE DEF y
<1>3. GuardsInv(y)
  BY <1>0, <1>1 DEF StreamInv, GuardsInv, Guarded
<1>4. BytesInv(y)
  BY <1>0, <1>1 DEF StreamInv, BytesInv, Keeping, Uncounted
<1>2. ClientSees(y) = ClientSees(x)
  BY <1>1 DEF ClientSees
<1>5. ToldInv(y)
  BY <1>1, <1>2, <1>9 DEF ToldInv
<1>6. StreamInv(y)
  BY <1>1, <1>3, <1>4, <1>5 DEF StreamInv
<1> QED
  BY <1>6 DEF y

(* The sweeper moves what was counted; the sum stays. *)
LEMMA SweepStreamInv ==
  ASSUME NEW x, StreamInv(x), x.meter
  PROVE  StreamInv([x EXCEPT !.reported = @ + x.counted, !.counted = 0])
<1> DEFINE y == [x EXCEPT !.reported = @ + x.counted, !.counted = 0]
<1>0. /\ x.result.auth \in BOOLEAN /\ x.result.response \in BOOLEAN /\ x.early \in BOOLEAN
      /\ x.result.pre \in Nat /\ x.read \in Nat /\ x.counted \in Nat /\ x.reported \in Nat
      /\ x.up \in Seq(Nat) /\ Len(x.up) \in Nat /\ x.initial \in Seq(Nat)
  BY RecordShape DEF StreamInv
<1> DEFINE sum == x.reported + x.counted
<1>7. sum \in Nat /\ sum = x.reported + x.counted
  BY <1>0
<1> HIDE DEF sum
<1>1. /\ y \in StreamRecord /\ y.reported = sum /\ y.counted = 0 /\ y.result = x.result
      /\ y.live = x.live /\ y.slot = x.slot /\ y.meter = x.meter /\ y.initial = x.initial
      /\ y.read = x.read /\ y.up = x.up /\ y.down = x.down /\ y.early = x.early /\ y.pc = x.pc
  BY <1>7, <1>0 DEF StreamInv, StreamRecord, StreamPcs
<1> HIDE DEF y
<1>3. GuardsInv(y)
  BY <1>0, <1>1 DEF StreamInv, GuardsInv, Guarded
<1>4. BytesInv(y)
  <2>1. y.counted + y.reported = x.counted + x.reported
    BY <1>0, <1>1, <1>7
  <2>2. x.pc \notin {"new", "setup", "admit"}
    BY DEF StreamInv, GuardsInv
  <2> QED
    BY <1>0, <1>1, <2>1, <2>2 DEF StreamInv, BytesInv, Keeping, Uncounted
<1>2. ClientSees(y) = ClientSees(x)
  BY <1>1 DEF ClientSees
<1>5. ToldInv(y)
  BY <1>1, <1>2 DEF StreamInv, ToldInv
<1>6. StreamInv(y)
  BY <1>1, <1>3, <1>4, <1>5 DEF StreamInv
<1> QED
  BY <1>6 DEF y

(* The guards are dropped. *)
LEMMA DropMeterInv ==
  ASSUME NEW x, StreamInv(x), x.pc = "dropping"
  PROVE  StreamInv([x EXCEPT !.meter = FALSE, !.reported = @ + x.counted, !.counted = 0])
<1> DEFINE y == [x EXCEPT !.meter = FALSE, !.reported = @ + x.counted, !.counted = 0]
<1>0. /\ x.result.auth \in BOOLEAN /\ x.result.response \in BOOLEAN /\ x.early \in BOOLEAN
      /\ x.result.pre \in Nat /\ x.read \in Nat /\ x.counted \in Nat /\ x.reported \in Nat
      /\ x.up \in Seq(Nat) /\ Len(x.up) \in Nat /\ x.initial \in Seq(Nat)
  BY RecordShape DEF StreamInv
<1> DEFINE sum == x.reported + x.counted
<1>7. sum \in Nat /\ sum = x.reported + x.counted
  BY <1>0
<1> HIDE DEF sum
<1>1. /\ y \in StreamRecord /\ y.meter = FALSE /\ y.reported = sum /\ y.counted = 0
      /\ y.pc = x.pc /\ y.result = x.result /\ y.live = x.live /\ y.slot = x.slot
      /\ y.initial = x.initial /\ y.read = x.read /\ y.up = x.up /\ y.down = x.down
      /\ y.early = x.early
  BY <1>7, <1>0 DEF StreamInv, StreamRecord, StreamPcs
<1> HIDE DEF y
<1>3. GuardsInv(y)
  BY <1>0, <1>1 DEF StreamInv, GuardsInv, Guarded
<1>4. BytesInv(y)
  <2>1. y.counted + y.reported = x.counted + x.reported
    BY <1>0, <1>1, <1>7
  <2>2. x.pc \notin {"new", "setup", "admit"}
    BY DEF StreamInv, GuardsInv
  <2> QED
    BY <1>0, <1>1, <2>1, <2>2 DEF StreamInv, BytesInv, Keeping, Uncounted
<1>2. ClientSees(y) = ClientSees(x)
  BY <1>1 DEF ClientSees
<1>5. ToldInv(y)
  BY <1>1, <1>2 DEF StreamInv, ToldInv
<1>6. StreamInv(y)
  BY <1>1, <1>3, <1>4, <1>5 DEF StreamInv
<1> QED
  BY <1>6 DEF y

LEMMA DropSlotInv ==
  ASSUME NEW x, StreamInv(x), x.pc = "dropping"
  PROVE  StreamInv([x EXCEPT !.slot = FALSE])
<1> DEFINE y == [x EXCEPT !.slot = FALSE]
<1>0. /\ x.result.auth \in BOOLEAN /\ x.result.response \in BOOLEAN /\ x.early \in BOOLEAN
      /\ x.result.pre \in Nat /\ x.read \in Nat /\ x.counted \in Nat /\ x.reported \in Nat
      /\ x.up \in Seq(Nat) /\ Len(x.up) \in Nat /\ x.initial \in Seq(Nat)
  BY RecordShape DEF StreamInv
<1>1. /\ y \in StreamRecord /\ y.slot = FALSE /\ y.pc = x.pc /\ y.result = x.result
      /\ y.live = x.live /\ y.meter = x.meter /\ y.initial = x.initial /\ y.read = x.read
      /\ y.counted = x.counted /\ y.reported = x.reported /\ y.up = x.up /\ y.down = x.down
      /\ y.early = x.early
  BY <1>0 DEF StreamInv, StreamRecord, StreamPcs
<1> HIDE DEF y
<1>3. GuardsInv(y)
  BY <1>0, <1>1 DEF StreamInv, GuardsInv, Guarded
<1>4. BytesInv(y)
  BY <1>0, <1>1 DEF StreamInv, BytesInv, Keeping, Uncounted
<1>2. ClientSees(y) = ClientSees(x)
  BY <1>1 DEF ClientSees
<1>5. ToldInv(y)
  BY <1>1, <1>2 DEF StreamInv, ToldInv
<1>6. StreamInv(y)
  BY <1>1, <1>3, <1>4, <1>5 DEF StreamInv
<1> QED
  BY <1>6 DEF y
-----------------------------------------------------------------------------
(* All streams. *)

LEMMA LiveFinite == IsFiniteSet(LiveSet) /\ Cardinality(LiveSet) \in Nat
<1>1. LiveSet \in SUBSET Streams
  BY DEF LiveSet
<1> QED
  BY <1>1, ServiceConstants, FS_Subset, FS_CardinalityType

(* A step of one stream that keeps its place in the process. *)
LEMMA PlaceKept ==
  ASSUME ServiceIInv, NEW s \in Streams, NEW y, StreamInv(y), y.live = st[s].live,
         st' = [st EXCEPT ![s] = y], liveStreams' = liveStreams
  PROVE  ServiceIInv'
<1>1. st' \in [Streams -> StreamRecord]
  BY DEF ServiceIInv, StreamInv
<1>2. \A t \in Streams : st'[t] = IF t = s THEN y ELSE st[t]
  BY DEF ServiceIInv
<1>3. LiveSet' = LiveSet
  BY <1>2 DEF LiveSet
<1>4. \A t \in Streams : StreamInv(st'[t])
  BY <1>2 DEF ServiceIInv
<1> QED
  BY <1>1, <1>3, <1>4 DEF ServiceIInv

(* A step of one stream that takes a place. *)
LEMMA PlaceTaken ==
  ASSUME ServiceIInv, NEW s \in Streams, NEW y, StreamInv(y), y.live, ~st[s].live,
         ~AtStreamLimit, st' = [st EXCEPT ![s] = y], liveStreams' = liveStreams + 1
  PROVE  ServiceIInv'
<1>1. st' \in [Streams -> StreamRecord]
  BY DEF ServiceIInv, StreamInv
<1>2. \A t \in Streams : st'[t] = IF t = s THEN y ELSE st[t]
  BY DEF ServiceIInv
<1>3. LiveSet' = LiveSet \cup {s} /\ s \notin LiveSet
  BY <1>2 DEF LiveSet
<1>4. Cardinality(LiveSet') = Cardinality(LiveSet) + 1
  BY <1>3, LiveFinite, FS_AddElement
<1>5. \A t \in Streams : StreamInv(st'[t])
  BY <1>2 DEF ServiceIInv
<1>6. liveStreams' <= MaxStreams
  BY LiveFinite, ServiceConstants DEF ServiceIInv, AtStreamLimit
<1> QED
  BY <1>1, <1>4, <1>5, <1>6 DEF ServiceIInv

(* A step of one stream that gives its place back. *)
LEMMA PlaceLeft ==
  ASSUME ServiceIInv, NEW s \in Streams, NEW y, StreamInv(y), ~y.live, st[s].live,
         st' = [st EXCEPT ![s] = y], liveStreams' = liveStreams - 1
  PROVE  ServiceIInv'
<1>1. st' \in [Streams -> StreamRecord]
  BY DEF ServiceIInv, StreamInv
<1>2. \A t \in Streams : st'[t] = IF t = s THEN y ELSE st[t]
  BY DEF ServiceIInv
<1>3. LiveSet' = LiveSet \ {s} /\ s \in LiveSet
  BY <1>2 DEF LiveSet
<1>4. Cardinality(LiveSet') = Cardinality(LiveSet) - 1
  BY <1>3, LiveFinite, FS_RemoveElement
<1>5. \A t \in Streams : StreamInv(st'[t])
  BY <1>2 DEF ServiceIInv
<1>6. liveStreams' <= MaxStreams
  BY LiveFinite, ServiceConstants DEF ServiceIInv
<1> QED
  BY <1>1, <1>4, <1>5, <1>6 DEF ServiceIInv

(* A stream that only goes on to another place. *)
LEMMA OnwardKept ==
  ASSUME ServiceIInv, NEW s \in Streams, NEW pc, Onward(s, pc), st[s].live,
         StreamInv([st[s] EXCEPT !.pc = pc])
  PROVE  ServiceIInv'
<1> DEFINE y == [st[s] EXCEPT !.pc = pc]
<1>1. y.live = st[s].live
  BY DEF ServiceIInv, StreamRecord
<1>2. st' = [st EXCEPT ![s] = y] /\ liveStreams' = liveStreams
  BY DEF Onward
<1> HIDE DEF y
<1>3. StreamInv(y)
  BY DEF y
<1> QED
  BY <1>1, <1>2, <1>3, PlaceKept

LEMMA LeavesKept ==
  ASSUME ServiceIInv, NEW s \in Streams, NEW pc \in {"closing", "shutdown", "dropping"},
         Onward(s, pc), st[s].pc \notin {"new", "done"}
  PROVE  ServiceIInv'
<1>1. StreamInv(st[s]) /\ st[s].live
  BY DEF ServiceIInv, StreamInv, GuardsInv
<1>2. StreamInv([st[s] EXCEPT !.pc = pc])
  BY <1>1, LeavesInv
<1> QED
  BY <1>1, <1>2, OnwardKept

LEMMA AcceptKeeps == ASSUME ServiceIInv, NEW s \in Streams, Accept(s) PROVE ServiceIInv'
<1>1. StreamInv(st[s]) /\ st[s].pc = "new" /\ ~st[s].live /\ st[s] \in StreamRecord
  BY DEF ServiceIInv, StreamInv, GuardsInv, Accept, InPc
<1>2. CASE AtStreamLimit
  <2>1. StreamInv(Finished) /\ Finished.live = st[s].live
    BY <1>1, NewStreamInv DEF Finished, NewStream, StreamRecord
  <2> QED
    BY <1>2, <2>1, PlaceKept DEF Accept
<1>3. CASE ~AtStreamLimit
  <2> DEFINE y == [st[s] EXCEPT !.pc = "setup", !.live = TRUE]
  <2>1. StreamInv(y)
    BY <1>1, AcceptedInv
  <2>2. y.live = TRUE
    BY <1>1 DEF StreamRecord
  <2>3. st' = [st EXCEPT ![s] = y] /\ liveStreams' = liveStreams + 1
    BY <1>3 DEF Accept
  <2> HIDE DEF y
  <2> QED
    BY <1>1, <1>3, <2>1, <2>2, <2>3, PlaceTaken
<1> QED
  BY <1>2, <1>3

LEMMA AcceptLogicalKeeps ==
  ASSUME ServiceIInv, NEW s \in Streams, NEW r \in SetupResults, AcceptLogical(s, r)
  PROVE  ServiceIInv'
<1>1. StreamInv(st[s]) /\ ~st[s].live /\ st[s] \in StreamRecord
  BY DEF ServiceIInv, StreamInv, GuardsInv, AcceptLogical, InPc
<1>2. CASE AtStreamLimit
  <2>1. StreamInv(Finished) /\ Finished.live = st[s].live
    BY <1>1, NewStreamInv DEF Finished, NewStream, StreamRecord
  <2> QED
    BY <1>2, <2>1, PlaceKept DEF AcceptLogical
<1>3. CASE ~AtStreamLimit
  <2> DEFINE x == [NewStream EXCEPT !.live = TRUE, !.logical = TRUE]
             y == WithResult(x, r)
  <2>1. /\ x \in StreamRecord /\ x.live /\ ~x.slot /\ ~x.meter /\ x.read = 0 /\ x.counted = 0
        /\ x.reported = 0 /\ x.up = <<>> /\ x.down = <<>> /\ ~x.early
    <3>1. NewStream \in StreamRecord
      BY NewStreamInv DEF StreamInv
    <3>2. x \in StreamRecord
      BY <3>1 DEF StreamRecord
    <3> QED
      BY <3>2 DEF NewStream
  <2>2. StreamInv(y)
    <3> HIDE DEF x
    <3> QED
      BY <2>1, WithResultInv
  <2>3. y.live = TRUE
    BY DEF WithResult, NewStream
  <2>4. st' = [st EXCEPT ![s] = y] /\ liveStreams' = liveStreams + 1
    BY <1>3 DEF AcceptLogical
  <2> HIDE DEF y
  <2> QED
    BY <1>1, <1>3, <2>2, <2>3, <2>4, PlaceTaken
<1> QED
  BY <1>2, <1>3

LEMMA SetupDoneKeeps ==
  ASSUME ServiceIInv, NEW s \in Streams, NEW r \in SetupResults, SetupDone(s, r)
  PROVE  ServiceIInv'
<1> DEFINE y == WithResult(st[s], r)
<1>1. StreamInv(st[s]) /\ st[s] \in StreamRecord /\ st[s].pc = "setup"
  BY DEF ServiceIInv, StreamInv, SetupDone, InPc
<1>2. /\ st[s].live /\ ~st[s].slot /\ ~st[s].meter /\ st[s].read = 0 /\ st[s].counted = 0
      /\ st[s].reported = 0 /\ st[s].up = <<>> /\ st[s].down = <<>> /\ ~st[s].early
  BY <1>1 DEF StreamInv, GuardsInv, BytesInv, ToldInv
<1>3. StreamInv(y)
  BY <1>1, <1>2, WithResultInv
<1>4. y.live = st[s].live
  BY <1>1 DEF WithResult, StreamRecord
<1>5. st' = [st EXCEPT ![s] = y] /\ liveStreams' = liveStreams
  BY DEF SetupDone
<1> HIDE DEF y
<1> QED
  BY <1>3, <1>4, <1>5, PlaceKept

LEMMA AdmitKeeps ==
  ASSUME ServiceIInv, NEW s \in Streams, NEW b \in BOOLEAN, Admit(s, b)
  PROVE  ServiceIInv'
<1> DEFINE x == st[s]
           pc == IF x.result.kind = "routed" THEN "relay" ELSE IF b THEN "sniff" ELSE "dial"
           y == [x EXCEPT !.pc = pc, !.slot = x.result.auth, !.meter = x.result.auth]
<1>1. StreamInv(x) /\ x \in StreamRecord /\ x.pc = "admit"
  BY DEF ServiceIInv, StreamInv, Admit, InPc
<1>2. StreamInv(y)
  BY <1>1, AdmittedInv
<1>3. y.live = x.live
  BY <1>1 DEF StreamRecord
<1>4. st' = [st EXCEPT ![s] = y] /\ liveStreams' = liveStreams
  BY DEF Admit, ServiceIInv
<1> HIDE DEF y
<1> QED
  BY <1>3, <1>4, <1>2, PlaceKept

LEMMA SniffReadKeeps ==
  ASSUME ServiceIInv, NEW s \in Streams, NEW b \in BOOLEAN, SniffRead(s, b)
  PROVE  ServiceIInv'
<1> DEFINE x == st[s]
           pc == IF b \/ x.result.kind = "udp" THEN "dial" ELSE "sniff"
           y == [Metered(x) EXCEPT !.initial = Append(@, NextByte(x)), !.pc = pc]
<1>1. StreamInv(x) /\ x \in StreamRecord /\ x.pc = "sniff"
  BY DEF ServiceIInv, StreamInv, SniffRead, InPc
<1>2. StreamInv(y)
  BY <1>1, SniffReadInv
<1>3. y.live = x.live
  BY <1>1 DEF StreamRecord, Metered
<1>4. st' = [st EXCEPT ![s] = y] /\ liveStreams' = liveStreams
  BY DEF SniffRead, ServiceIInv
<1> HIDE DEF y
<1> QED
  BY <1>3, <1>4, <1>2, PlaceKept

LEMMA DialDoneKeeps ==
  ASSUME ServiceIInv, NEW s \in Streams, NEW b \in BOOLEAN, DialDone(s, b)
  PROVE  ServiceIInv'
<1> DEFINE x == st[s]
           pc == IF x.result.kind = "tcp" THEN "respond" ELSE "initial"
           y == [x EXCEPT !.pc = pc, !.early = b]
<1>1. StreamInv(x) /\ x \in StreamRecord /\ x.pc = "dial" /\ (b => x.result.kind = "tcp")
  BY DEF ServiceIInv, StreamInv, DialDone, InPc
<1>2. StreamInv(y)
  BY <1>1, DialDoneInv
<1>3. y.live = x.live
  BY <1>1 DEF StreamRecord
<1>4. st' = [st EXCEPT ![s] = y] /\ liveStreams' = liveStreams
  BY DEF DialDone, ServiceIInv
<1> HIDE DEF y
<1> QED
  BY <1>3, <1>4, <1>2, PlaceKept

LEMMA RespondKeeps ==
  ASSUME ServiceIInv, NEW s \in Streams, Respond(s)
  PROVE  ServiceIInv'
<1> DEFINE x == st[s]
           y == [x EXCEPT !.down = IF x.result.response THEN Append(@, "response") ELSE @,
                         !.pc = "early"]
<1>1. StreamInv(x) /\ x \in StreamRecord /\ x.pc = "respond"
  BY DEF ServiceIInv, StreamInv, Respond, InPc
<1>2. StreamInv(y)
  BY <1>1, RespondInv
<1>3. y.live = x.live
  BY <1>1 DEF StreamRecord
<1>4. st' = [st EXCEPT ![s] = y] /\ liveStreams' = liveStreams
  BY DEF Respond, ServiceIInv, Tell
<1> HIDE DEF y
<1> QED
  BY <1>3, <1>4, <1>2, PlaceKept

LEMMA WriteEarlyKeeps ==
  ASSUME ServiceIInv, NEW s \in Streams, WriteEarly(s)
  PROVE  ServiceIInv'
<1> DEFINE x == st[s]
           y == [x EXCEPT !.down = IF x.early THEN Append(@, "early") ELSE @,
                         !.pc = "initial"]
<1>1. StreamInv(x) /\ x \in StreamRecord /\ x.pc = "early"
  BY DEF ServiceIInv, StreamInv, WriteEarly, InPc
<1>2. StreamInv(y)
  BY <1>1, WriteEarlyInv
<1>3. y.live = x.live
  BY <1>1 DEF StreamRecord
<1>4. st' = [st EXCEPT ![s] = y] /\ liveStreams' = liveStreams
  BY DEF WriteEarly, ServiceIInv, Tell
<1> HIDE DEF y
<1> QED
  BY <1>3, <1>4, <1>2, PlaceKept

LEMMA CountInitialKeeps ==
  ASSUME ServiceIInv, NEW s \in Streams, CountInitial(s)
  PROVE  ServiceIInv'
<1> DEFINE x == st[s]
           y == [x EXCEPT !.counted = IF x.result.auth THEN @ + x.result.pre ELSE @,
                         !.pc = IF x.initial = <<>> THEN "relay" ELSE "upload"]
<1>1. StreamInv(x) /\ x \in StreamRecord /\ x.pc = "initial"
  BY DEF ServiceIInv, StreamInv, CountInitial, InPc
<1>2. StreamInv(y)
  BY <1>1, CountInitialInv
<1>3. y.live = x.live
  BY <1>1 DEF StreamRecord
<1>4. st' = [st EXCEPT ![s] = y] /\ liveStreams' = liveStreams
  BY DEF CountInitial, ServiceIInv
<1> HIDE DEF y
<1> QED
  BY <1>3, <1>4, <1>2, PlaceKept

LEMMA WriteInitialKeeps ==
  ASSUME ServiceIInv, NEW s \in Streams, WriteInitial(s)
  PROVE  ServiceIInv'
<1> DEFINE x == st[s]
           y == [x EXCEPT !.up = @ \o x.initial, !.initial = <<>>, !.pc = "relay"]
<1>1. StreamInv(x) /\ x \in StreamRecord /\ x.pc = "upload"
  BY DEF ServiceIInv, StreamInv, WriteInitial, InPc
<1>2. StreamInv(y)
  BY <1>1, WriteInitialInv
<1>3. y.live = x.live
  BY <1>1 DEF StreamRecord
<1>4. st' = [st EXCEPT ![s] = y] /\ liveStreams' = liveStreams
  BY DEF WriteInitial, ServiceIInv
<1> HIDE DEF y
<1> QED
  BY <1>3, <1>4, <1>2, PlaceKept

LEMMA RelayUpKeeps ==
  ASSUME ServiceIInv, NEW s \in Streams, RelayUp(s)
  PROVE  ServiceIInv'
<1> DEFINE x == st[s]
           y == [Metered(x) EXCEPT !.up = Append(@, NextByte(x))]
<1>1. StreamInv(x) /\ x \in StreamRecord /\ x.pc = "relay"
  BY DEF ServiceIInv, StreamInv, RelayUp, InPc
<1>2. StreamInv(y)
  BY <1>1, RelayUpInv
<1>3. y.live = x.live
  BY <1>1 DEF StreamRecord, Metered
<1>4. st' = [st EXCEPT ![s] = y] /\ liveStreams' = liveStreams
  BY DEF RelayUp, ServiceIInv
<1> HIDE DEF y
<1> QED
  BY <1>3, <1>4, <1>2, PlaceKept

LEMMA RelayDownKeeps ==
  ASSUME ServiceIInv, NEW s \in Streams, RelayDown(s)
  PROVE  ServiceIInv'
<1> DEFINE x == st[s]
           y == [x EXCEPT !.down = Append(@, "data")]
<1>1. StreamInv(x) /\ x \in StreamRecord /\ x.pc = "relay" /\ ~Contains(x.down, "data")
  BY DEF ServiceIInv, StreamInv, RelayDown, InPc
<1>2. StreamInv(y)
  BY <1>1, RelayDownInv
<1>3. y.live = x.live
  BY <1>1 DEF StreamRecord
<1>4. st' = [st EXCEPT ![s] = y] /\ liveStreams' = liveStreams
  BY DEF RelayDown, ServiceIInv
<1> HIDE DEF y
<1> QED
  BY <1>3, <1>4, <1>2, PlaceKept

LEMMA SweepStreamKeeps ==
  ASSUME ServiceIInv, NEW s \in Streams, SweepStream(s)
  PROVE  ServiceIInv'
<1> DEFINE x == st[s]
           y == [x EXCEPT !.reported = @ + x.counted, !.counted = 0]
<1>1. StreamInv(x) /\ x \in StreamRecord /\ x.meter
  BY DEF ServiceIInv, StreamInv, SweepStream, InPc
<1>2. StreamInv(y)
  BY <1>1, SweepStreamInv
<1>3. y.live = x.live
  BY <1>1 DEF StreamRecord
<1>4. st' = [st EXCEPT ![s] = y] /\ liveStreams' = liveStreams
  BY DEF SweepStream, ServiceIInv
<1> HIDE DEF y
<1> QED
  BY <1>3, <1>4, <1>2, PlaceKept

LEMMA DropMeterKeeps ==
  ASSUME ServiceIInv, NEW s \in Streams, DropMeter(s)
  PROVE  ServiceIInv'
<1> DEFINE x == st[s]
           y == [x EXCEPT !.meter = FALSE, !.reported = @ + x.counted, !.counted = 0]
<1>1. StreamInv(x) /\ x \in StreamRecord /\ x.pc = "dropping"
  BY DEF ServiceIInv, StreamInv, DropMeter, InPc
<1>2. StreamInv(y)
  BY <1>1, DropMeterInv
<1>3. y.live = x.live
  BY <1>1 DEF StreamRecord
<1>4. st' = [st EXCEPT ![s] = y] /\ liveStreams' = liveStreams
  BY DEF DropMeter, ServiceIInv
<1> HIDE DEF y
<1> QED
  BY <1>3, <1>4, <1>2, PlaceKept

LEMMA DropSlotKeeps ==
  ASSUME ServiceIInv, NEW s \in Streams, DropSlot(s)
  PROVE  ServiceIInv'
<1> DEFINE x == st[s]
           y == [x EXCEPT !.slot = FALSE]
<1>1. StreamInv(x) /\ x \in StreamRecord /\ x.pc = "dropping" /\ ~x.meter
  BY DEF ServiceIInv, StreamInv, DropSlot, InPc
<1>2. StreamInv(y)
  BY <1>1, DropSlotInv
<1>3. y.live = x.live
  BY <1>1 DEF StreamRecord
<1>4. st' = [st EXCEPT ![s] = y] /\ liveStreams' = liveStreams
  BY DEF DropSlot, ServiceIInv
<1> HIDE DEF y
<1> QED
  BY <1>3, <1>4, <1>2, PlaceKept

LEMMA SniffEndKeeps == ASSUME ServiceIInv, NEW s \in Streams, SniffEnd(s) PROVE ServiceIInv'
<1>1. StreamInv(st[s]) /\ st[s].pc = "sniff" /\ st[s].live
  BY DEF ServiceIInv, StreamInv, GuardsInv, SniffEnd, InPc
<1>2. StreamInv([st[s] EXCEPT !.pc = "dial"])
  BY <1>1, SniffEndInv
<1> QED
  BY <1>1, <1>2, OnwardKept DEF SniffEnd

LEMMA DropLiveKeeps == ASSUME ServiceIInv, NEW s \in Streams, DropLive(s) PROVE ServiceIInv'
<1>1. st[s].live /\ StreamInv(Finished) /\ ~Finished.live
  BY NewStreamInv DEF ServiceIInv, StreamInv, GuardsInv, DropLive, InPc, Finished, NewStream
<1> QED
  BY <1>1, PlaceLeft DEF DropLive

(* Failures, timeouts and ends, which only send a stream on its way out. *)
LEMMA EndsKeep ==
  ASSUME ServiceIInv, NEW s \in Streams,
         \/ SetupFails(s) \/ SetupTimeout(s) \/ AdmitFails(s) \/ SniffFails(s) \/ DialFails(s)
         \/ DialTimeout(s) \/ EarlyWriteFails(s) \/ RelayEnds(s) \/ ShutdownDone(s)
         \/ ShutdownTimeout(s) \/ CloseDone(s) \/ AbortLogical(s)
  PROVE  ServiceIInv'
<1>1. PICK pc \in {"closing", "shutdown", "dropping"} : Onward(s, pc)
  BY DEF SetupFails, SetupTimeout, AdmitFails, SniffFails, DialFails, DialTimeout,
     EarlyWriteFails, RelayEnds, ShutdownDone, ShutdownTimeout, CloseDone, AbortLogical
<1>2. CASE ~AbortLogical(s)
  <2>1. st[s].pc \notin {"new", "done"}
    BY <1>2 DEF SetupFails, SetupTimeout, AdmitFails, SniffFails, DialFails, DialTimeout,
       EarlyWriteFails, RelayEnds, ShutdownDone, ShutdownTimeout, CloseDone, InPc
  <2> QED
    BY <1>1, <2>1, LeavesKept
<1>3. CASE AbortLogical(s)
  <2>1. st[s].pc \notin {"new", "done"}
    BY <1>3 DEF AbortLogical, InPc, ServiceIInv, StreamInv, GuardsInv
  <2> QED
    BY <1>1, <2>1, LeavesKept
<1> QED
  BY <1>2, <1>3

LEMMA ServiceInitial == ServiceInit => ServiceIInv
<1> SUFFICES ASSUME ServiceInit PROVE ServiceIInv
  OBVIOUS
<1>1. NewStream \in StreamRecord /\ ~NewStream.live
  BY NewStreamInv DEF StreamInv, NewStream
<1>2. LiveSet = {}
  BY <1>1 DEF ServiceInit, LiveSet
<1>3. Cardinality(LiveSet) = 0
  BY <1>2, FS_EmptySet
<1> QED
  BY <1>1, <1>3, NewStreamInv, ServiceConstants DEF ServiceInit, ServiceIInv

LEMMA ServiceStutterKeeps == ASSUME ServiceIInv, UNCHANGED serviceVars PROVE ServiceIInv'
<1>1. LiveSet' = LiveSet
  BY DEF LiveSet, serviceVars
<1> QED
  BY <1>1 DEF ServiceIInv, serviceVars

(* The life of every stream, and the count of live streams, are as described
   above in every run of the server (tcp_server.rs, process_stream and the guards
   it holds). *)
THEOREM ServiceInductive == ServiceSpec => []ServiceIInv
<1>1. ServiceIInv /\ [ServiceNext]_serviceVars => ServiceIInv'
  <2> SUFFICES ASSUME ServiceIInv, [ServiceNext]_serviceVars PROVE ServiceIInv'
    OBVIOUS
  <2>1. CASE UNCHANGED serviceVars
    BY <2>1, ServiceStutterKeeps
  <2>2. ASSUME NEW s \in Streams, NEW r \in SetupResults, AcceptLogical(s, r) \/ SetupDone(s, r)
        PROVE  ServiceIInv'
    BY <2>2, AcceptLogicalKeeps, SetupDoneKeeps
  <2>3. ASSUME NEW s \in Streams, NEW b \in BOOLEAN,
               Admit(s, b) \/ SniffRead(s, b) \/ DialDone(s, b)
        PROVE  ServiceIInv'
    BY <2>3, AdmitKeeps, SniffReadKeeps, DialDoneKeeps
  <2>4. ASSUME NEW s \in Streams,
               \/ Accept(s) \/ SniffEnd(s) \/ Respond(s) \/ WriteEarly(s) \/ CountInitial(s)
               \/ WriteInitial(s) \/ RelayUp(s) \/ RelayDown(s) \/ SweepStream(s)
               \/ DropMeter(s) \/ DropSlot(s) \/ DropLive(s)
        PROVE  ServiceIInv'
    BY <2>4, AcceptKeeps, SniffEndKeeps, RespondKeeps, WriteEarlyKeeps, CountInitialKeeps,
       WriteInitialKeeps, RelayUpKeeps, RelayDownKeeps, SweepStreamKeeps, DropMeterKeeps,
       DropSlotKeeps, DropLiveKeeps
  <2> QED
    BY <2>1, <2>2, <2>3, <2>4, EndsKeep DEF ServiceNext
<1> QED
  BY <1>1, ServiceInitial, PTL DEF ServiceSpec

(* StreamsServed for any number of streams, any limit of the process and any
   lengths: the process serves no more streams than it may and knows how many,
   upstream bytes arrive in order and none twice, an authenticated user's bytes
   are all counted and none is counted twice, a relayed byte belongs to an
   admitted device, and the client is told things in order. *)
THEOREM StreamsAlwaysServed == ServiceSpec => []StreamsServed
<1>1. ServiceIInv => StreamsServed
  <2> SUFFICES ASSUME ServiceIInv PROVE StreamsServed
    OBVIOUS
  <2>1. liveStreams = Cardinality({s \in Streams : st[s].live}) /\ liveStreams <= MaxStreams
    BY DEF ServiceIInv, LiveSet
  <2>2. ASSUME NEW s \in Streams
        PROVE  LET x == st[s]
                   charged == x.counted + x.reported
               IN /\ x.up = [i \in 1..Len(x.up) |-> i]
                  /\ IsPrefix(x.down, ClientSees(x))
                  /\ charged <= x.result.pre + x.read
                  /\ x.result.auth => Len(x.up) <= charged
                  /\ x.result.auth /\ x.pc = "relay" => Len(x.up) = charged /\ x.slot /\ x.meter
                  /\ x.slot => x.live
                  /\ ~x.meter => x.counted = 0
    <3>1. StreamInv(st[s])
      BY DEF ServiceIInv
    <3>2. /\ st[s].up = [i \in 1..Len(st[s].up) |-> i]
          /\ IsPrefix(st[s].down, ClientSees(st[s]))
      BY <3>1 DEF StreamInv, BytesInv, ToldInv, FirstBytes
    <3> QED
      BY <3>1, <3>2 DEF StreamInv, GuardsInv, BytesInv, Guarded
  <2> QED
    BY <2>1, <2>2 DEF StreamsServed
<1> QED
  BY <1>1, ServiceInductive, PTL

-----------------------------------------------------------------------------
(* RuntimeGraph.  Between two replacements GraphSafe speaks of the active
   generation; the invariant says what a start holds meanwhile, so that its end,
   whichever it is, leaves the right listeners.  A start owns exactly the
   addresses before its cursor; why it runs decides what the old generation is:
   kept beside it, or stopped already and known from the cache alone; and the user
   tables are those of the cached generation until the commit. *)

(* The cursor of a start is within its generation. *)
CursorWithin ==
    phase = "starting" =>
        /\ at[1] \in 1..(Len(graph.nodes) + 1)
        /\ IF AllBound THEN at[2] = 1 ELSE at[2] \in 1..Len(AddressesOf(Node))

(* The addresses of g before the address j of node i; those before the cursor. *)
Before(g, i, j) ==
    (UNION {ToSet(AddressesOf(g.nodes[k])) : k \in 1..(i - 1)}) \cup
    (IF i > Len(g.nodes) THEN {} ELSE {AddressesOf(g.nodes[i])[k] : k \in 1..(j - 1)})
BeforeCursor == Before(graph, at[1], at[2])

StartHolds == phase = "starting" => HeldBy("starting") = BeforeCursor

(* What the old generation is while another one starts. *)
OldGeneration ==
    phase = "starting" =>
        /\ graph = IF plan = "rollback" THEN applied.gen ELSE next.gen
        /\ plan # "fresh" => applied # NoGraph
        /\ IF plan = "disjoint"
           THEN active = applied.gen /\ HeldBy("active") = Sockets(active)
           ELSE active = NoGraph /\ HeldBy("active") = {}

(* The cached users are those the tables hold for the cached generation. *)
CachedTables == applied # NoGraph => tables[applied.gen.proto] = applied.list

(* Between two replacements. *)
AtRest ==
    /\ phase = "idle" =>
        /\ HeldBy("starting") = {}
        /\ HeldBy("active") = IF active = NoGraph THEN {} ELSE Sockets(active)
        /\ active # NoGraph => applied # NoGraph /\ active = applied.gen
    /\ phase = "stopped" => active = NoGraph

GraphIInv ==
    /\ GraphTypeOK /\ CursorWithin /\ StartHolds /\ OldGeneration /\ CachedTables /\ AtRest
-----------------------------------------------------------------------------
(* A generation has nodes, and every node addresses. *)
LEMMA GenerationShape ==
  ASSUME NEW g \in Generations
  PROVE  /\ g.proto \in Protocols /\ g # NoGraph
         /\ Len(g.nodes) \in Nat \ {0}
         /\ \A i \in 1..Len(g.nodes) :
               /\ AddressesOf(g.nodes[i]) \in Seq(Addresses)
               /\ Len(AddressesOf(g.nodes[i])) \in Nat \ {0}
               /\ DOMAIN AddressesOf(g.nodes[i]) = 1..Len(AddressesOf(g.nodes[i]))
<1>1. /\ g.proto \in Protocols /\ g # NoGraph /\ Len(g.nodes) \in Nat \ {0}
      /\ \A i \in 1..Len(g.nodes) : AddressesOf(g.nodes[i]) \in Seq(Addresses) \ {<<>>}
  BY RuntimeConstants DEF AddressesOf
<1>2. \A s \in Seq(Addresses) \ {<<>>} : Len(s) \in Nat \ {0} /\ DOMAIN s = 1..Len(s)
  OBVIOUS
<1> QED
  BY <1>1, <1>2

(* The applied pair, when there is one, is a generation and a list. *)
LEMMA AppliedShape ==
  ASSUME GraphTypeOK, applied # NoGraph
  PROVE  applied \in Generation /\ applied.gen \in Generations /\ applied.list \in Lists
  BY DEF GraphTypeOK, Generation

(* Sockets is what the cursor has passed when it has passed all nodes. *)
LEMMA CursorAtEnd ==
  ASSUME GraphIInv, phase = "starting", AllBound
  PROVE  HeldBy("starting") = Sockets(graph)
<1>1. graph \in Generations
  BY DEF GraphIInv, GraphTypeOK
<1>2. Len(graph.nodes) \in Nat
  BY <1>1, GenerationShape
<1>3. at[1] = Len(graph.nodes) + 1
  BY <1>2 DEF GraphIInv, CursorWithin, AllBound
<1>4. at[1] - 1 = Len(graph.nodes)
  BY <1>2, <1>3
<1> QED
  BY <1>4 DEF GraphIInv, StartHolds, BeforeCursor, Before, Sockets, AllBound

(* Past one address more, there is one address more. *)
LEMMA OneMore ==
  ASSUME NEW g \in Generations, NEW i \in 1..Len(g.nodes),
         NEW j \in 1..Len(AddressesOf(g.nodes[i]))
  PROVE  /\ AddressesOf(g.nodes[i])[j] \in Addresses
         /\ j < Len(AddressesOf(g.nodes[i])) =>
               Before(g, i, j + 1) = Before(g, i, j) \cup {AddressesOf(g.nodes[i])[j]}
         /\ j = Len(AddressesOf(g.nodes[i])) =>
               Before(g, i + 1, 1) = Before(g, i, j) \cup {AddressesOf(g.nodes[i])[j]}
<1> DEFINE s == AddressesOf(g.nodes[i])
           earlier == UNION {ToSet(AddressesOf(g.nodes[k])) : k \in 1..(i - 1)}
<1>1. /\ Len(g.nodes) \in Nat \ {0} /\ i \in Nat \ {0} /\ i <= Len(g.nodes)
      /\ s \in Seq(Addresses) /\ Len(s) \in Nat \ {0} /\ DOMAIN s = 1..Len(s)
  BY GenerationShape
<1>2. j \in Nat \ {0} /\ j <= Len(s) /\ s[j] \in Addresses
  BY <1>1
<1>3. Before(g, i, j) = earlier \cup {s[k] : k \in 1..(j - 1)}
  BY <1>1 DEF Before
<1>4. 1..j = 1..(j - 1) \cup {j} /\ (j + 1) - 1 = j /\ (i + 1) - 1 = i
      /\ 1..i = 1..(i - 1) \cup {i} /\ 1..0 = {} /\ 1 - 1 = 0
  BY <1>1, <1>2
<1>5. {s[k] : k \in 1..j} = {s[k] : k \in 1..(j - 1)} \cup {s[j]}
  BY <1>4
<1>6. Before(g, i, j + 1) = earlier \cup {s[k] : k \in 1..j}
  BY <1>1, <1>4 DEF Before
<1>7. Before(g, i + 1, 1) = UNION {ToSet(AddressesOf(g.nodes[k])) : k \in 1..i}
  <2>1. {AddressesOf(g.nodes[i + 1])[k] : k \in 1..(1 - 1)} = {}
    BY <1>4
  <2> QED
    BY <2>1, <1>4 DEF Before
<1>8. (UNION {ToSet(AddressesOf(g.nodes[k])) : k \in 1..i}) = earlier \cup ToSet(s)
  BY <1>4
<1>9. j = Len(s) => ToSet(s) = {s[k] : k \in 1..j}
  BY <1>1 DEF ToSet
<1> QED
  BY <1>2, <1>3, <1>5, <1>6, <1>7, <1>8, <1>9

(* The cursor of a start that is not at its end. *)
LEMMA CursorShape ==
  ASSUME GraphIInv, phase = "starting", ~AllBound
  PROVE  /\ graph \in Generations /\ Len(graph.nodes) \in Nat \ {0}
         /\ at[1] \in 1..Len(graph.nodes) /\ at[2] \in 1..Len(AddressesOf(Node))
         /\ Len(AddressesOf(Node)) \in Nat \ {0}
         /\ Address \in Addresses
         /\ BoundOfNode \in SUBSET Addresses
         /\ at = <<at[1], at[2]>>
<1>1. graph \in Generations /\ at \in (Nat \ {0}) \X (Nat \ {0})
  BY DEF GraphIInv, GraphTypeOK
<1>2. Len(graph.nodes) \in Nat \ {0}
  BY <1>1, GenerationShape
<1>3. at[1] \in 1..Len(graph.nodes) /\ at[2] \in 1..Len(AddressesOf(Node))
  BY <1>2 DEF GraphIInv, CursorWithin, AllBound
<1>4. Len(AddressesOf(Node)) \in Nat \ {0} /\ AddressesOf(Node) \in Seq(Addresses)
  BY <1>1, <1>3, GenerationShape DEF Node
<1>5. BoundOfNode \in SUBSET Addresses /\ Address \in Addresses
  BY <1>3, <1>4 DEF BoundOfNode, Address
<1> QED
  BY <1>1, <1>2, <1>3, <1>4, <1>5

(* One address more is before the cursor when it moves. *)
LEMMA CursorMoves ==
  ASSUME GraphIInv, phase = "starting", ~AllBound, UNCHANGED graph,
         at' = IF at[2] < Len(AddressesOf(Node)) THEN <<at[1], at[2] + 1>>
               ELSE <<at[1] + 1, 1>>
  PROVE  /\ BeforeCursor' = BeforeCursor \cup {Address}
         /\ at' \in (Nat \ {0}) \X (Nat \ {0})
         /\ at'[1] \in 1..(Len(graph.nodes) + 1)
         /\ IF AllBound' THEN at'[2] = 1 ELSE at'[2] \in 1..Len(AddressesOf(Node)')
<1> DEFINE i == at[1]
           j == at[2]
           s == AddressesOf(graph.nodes[i])
<1>1. /\ graph \in Generations /\ Len(graph.nodes) \in Nat \ {0}
      /\ i \in 1..Len(graph.nodes) /\ j \in 1..Len(s) /\ Len(s) \in Nat \ {0}
  BY CursorShape DEF Node
<1>2. BeforeCursor = Before(graph, i, j) /\ Address = s[j] /\ s = AddressesOf(Node)
  BY DEF BeforeCursor, Address, Node
<1>6. /\ j < Len(s) => Before(graph, i, j + 1) = Before(graph, i, j) \cup {s[j]}
      /\ j = Len(s) => Before(graph, i + 1, 1) = Before(graph, i, j) \cup {s[j]}
  <2> HIDE DEF i, j
  <2> QED
    BY <1>1, OneMore
<1>3. BeforeCursor' = Before(graph, at'[1], at'[2])
  BY DEF BeforeCursor
<1>4. CASE j < Len(s)
  <2>1. at' = <<i, j + 1>>
    BY <1>2, <1>4
  <2>2. at'[1] = i /\ at'[2] = j + 1
    BY <2>1
  <2>3. BeforeCursor' = BeforeCursor \cup {Address}
    <3>1. Before(graph, i, j + 1) = Before(graph, i, j) \cup {s[j]}
      BY <1>4, <1>6
    <3> QED
      BY <3>1, <2>2, <1>2, <1>3
  <2>4. at' \in (Nat \ {0}) \X (Nat \ {0}) /\ i \in 1..(Len(graph.nodes) + 1)
        /\ j + 1 \in 1..Len(s) /\ ~(i > Len(graph.nodes))
    BY <2>1, <1>1, <1>4
  <2>5. AddressesOf(Node)' = s
    BY <2>2 DEF Node, AddressesOf
  <2> QED
    BY <2>2, <2>3, <2>4, <2>5 DEF AllBound
<1>5. CASE ~(j < Len(s))
  <2>1. at' = <<i + 1, 1>> /\ j = Len(s)
    BY <1>1, <1>2, <1>5
  <2>2. at'[1] = i + 1 /\ at'[2] = 1
    BY <2>1
  <2>3. BeforeCursor' = BeforeCursor \cup {Address}
    <3>1. Before(graph, i + 1, 1) = Before(graph, i, j) \cup {s[j]}
      BY <2>1, <1>6
    <3> QED
      BY <3>1, <2>2, <1>2, <1>3
  <2>4. at' \in (Nat \ {0}) \X (Nat \ {0}) /\ i + 1 \in 1..(Len(graph.nodes) + 1)
    BY <2>1, <1>1
  <2>5. IF AllBound' THEN at'[2] = 1 ELSE at'[2] \in 1..Len(AddressesOf(Node)')
    <3> SUFFICES ASSUME ~AllBound' PROVE 1 \in 1..Len(AddressesOf(Node)')
      BY <2>2
    <3>1. i + 1 \in 1..Len(graph.nodes)
      BY <2>2, <2>4, <1>1 DEF AllBound
    <3>2. Len(AddressesOf(graph.nodes[i + 1])) \in Nat \ {0}
      BY <3>1, <1>1, GenerationShape
    <3>3. AddressesOf(Node)' = AddressesOf(graph.nodes[i + 1])
      BY <2>2 DEF Node, AddressesOf
    <3> QED
      BY <3>2, <3>3
  <2> QED
    BY <2>2, <2>3, <2>4, <2>5
<1> QED
  BY <1>4, <1>5
-----------------------------------------------------------------------------
LEMMA GraphInitial == GraphInit => GraphIInv
<1> SUFFICES ASSUME GraphInit PROVE GraphIInv
  OBVIOUS
<1>1. GraphTypeOK
  <2>1. faults \in 0..MaxFaults /\ requests \in 0..MaxRequests
    BY RuntimeConstants DEF GraphInit
  <2>2. at \in (Nat \ {0}) \X (Nat \ {0})
    BY DEF GraphInit
  <2> QED
    BY <2>1, <2>2 DEF GraphInit, GraphTypeOK, Plans
<1>2. HeldBy("starting") = {} /\ HeldBy("active") = {}
  BY DEF GraphInit, HeldBy
<1> QED
  BY <1>1, <1>2 DEF GraphInit, GraphIInv, CursorWithin, StartHolds, OldGeneration,
     CachedTables, AtRest

LEMMA RequestKeeps ==
  ASSUME GraphIInv, NEW g \in Generations, NEW l \in Lists, Request(g, l)
  PROVE  GraphIInv'
<1>1. GraphTypeOK'
  BY RuntimeConstants DEF GraphIInv, GraphTypeOK, Request, Generation
<1>2. /\ HeldBy("starting")' = HeldBy("starting") /\ HeldBy("active")' = HeldBy("active")
      /\ BeforeCursor' = BeforeCursor /\ Node' = Node /\ AllBound' = AllBound
  BY DEF Request, HeldBy, BeforeCursor, Node, AllBound
<1> QED
  BY <1>1, <1>2 DEF GraphIInv, Request, CursorWithin, StartHolds, OldGeneration, CachedTables,
     AtRest, AddressesOf

LEMMA RefreshUsersKeeps == ASSUME GraphIInv, RefreshUsers PROVE GraphIInv'
<1>1. want \in Generation /\ want.gen.proto \in Protocols
  BY GenerationShape DEF GraphIInv, GraphTypeOK, Generation
<1>2. want # NoGraph
  BY <1>1, RuntimeConstants DEF Generation
<1>3. GraphTypeOK'
  BY <1>1 DEF GraphIInv, GraphTypeOK, RefreshUsers, Generation
<1>4. /\ HeldBy("starting")' = HeldBy("starting") /\ HeldBy("active")' = HeldBy("active")
  BY DEF RefreshUsers, HeldBy
<1>5. CachedTables'
  BY <1>1 DEF GraphIInv, GraphTypeOK, RefreshUsers, CachedTables
<1> QED
  BY <1>1, <1>2, <1>3, <1>4, <1>5 DEF GraphIInv, RefreshUsers, CursorWithin, StartHolds,
     OldGeneration, AtRest

(* A start that begins holds nothing and has passed nothing. *)
LEMMA NothingBefore ==
  ASSUME NEW g \in Generations
  PROVE  /\ Before(g, 1, 1) = {} /\ ~(1 > Len(g.nodes))
         /\ 1 \in 1..(Len(g.nodes) + 1) /\ 1 \in 1..Len(AddressesOf(g.nodes[1]))
<1>1. Len(g.nodes) \in Nat \ {0} /\ 1 \in 1..Len(g.nodes)
  BY GenerationShape
<1>2. Len(AddressesOf(g.nodes[1])) \in Nat \ {0}
  BY <1>1, GenerationShape
<1>3. 1..(1 - 1) = {}
  OBVIOUS
<1>4. {ToSet(AddressesOf(g.nodes[k])) : k \in 1..(1 - 1)} = {}
      /\ {AddressesOf(g.nodes[1])[k] : k \in 1..(1 - 1)} = {}
  BY <1>3
<1>5. Before(g, 1, 1) = {}
  BY <1>1, <1>4 DEF Before
<1> QED
  BY <1>1, <1>2, <1>5

LEMMA StartBegins ==
  ASSUME NEW g \in Generations, NEW why, StartOf(g, why)
  PROVE  CursorWithin' /\ BeforeCursor' = {} /\ at' \in (Nat \ {0}) \X (Nat \ {0})
<1>1. at' = <<1, 1>> /\ at'[1] = 1 /\ at'[2] = 1 /\ graph' = g
  BY DEF StartOf
<1>2. BeforeCursor' = {}
  BY <1>1, NothingBefore DEF BeforeCursor
<1>3. ~AllBound' /\ AddressesOf(Node)' = AddressesOf(g.nodes[1])
  BY <1>1, NothingBefore DEF AllBound, AddressesOf, Node
<1>4. CursorWithin'
  BY <1>1, <1>3, NothingBefore DEF CursorWithin
<1> QED
  BY <1>1, <1>2, <1>4

LEMMA ReplaceKeeps == ASSUME GraphIInv, Replace PROVE GraphIInv'
<1>1. /\ want \in Generation /\ want.gen \in Generations /\ want.gen # NoGraph
      /\ phase = "idle" /\ next' = want
      /\ UNCHANGED <<applied, want, tables, faults, requests>>
  BY GenerationShape DEF GraphIInv, GraphTypeOK, Generation, Replace
<1>2. PICK why \in Plans : StartOf(want.gen, why) /\ why # "rollback"
  BY DEF Replace, Plans
<1>3. CursorWithin' /\ BeforeCursor' = {} /\ at' \in (Nat \ {0}) \X (Nat \ {0})
  BY <1>1, <1>2, StartBegins
<1>4. CachedTables' /\ phase' = "starting" /\ plan' = why /\ graph' = want.gen
  BY <1>1, <1>2 DEF GraphIInv, CachedTables, StartOf
<1>5. /\ HeldBy("starting") = {}
      /\ HeldBy("active") = IF active = NoGraph THEN {} ELSE Sockets(active)
      /\ active # NoGraph => applied # NoGraph /\ active = applied.gen
  BY <1>1 DEF GraphIInv, AtRest
<1>6. CASE active = NoGraph
  <2>1. UNCHANGED <<active, open>> /\ plan' = "fresh"
    BY <1>6 DEF Replace, StartOf
  <2>2. HeldBy("starting")' = {} /\ HeldBy("active")' = {}
    BY <2>1, <1>5, <1>6 DEF HeldBy
  <2>3. GraphTypeOK'
    BY <1>1, <1>3, <1>4, <2>1 DEF GraphIInv, GraphTypeOK
  <2> QED
    BY <1>1, <1>3, <1>4, <1>6, <2>1, <2>2, <2>3 DEF GraphIInv, StartHolds, OldGeneration, AtRest
<1>7. CASE active # NoGraph /\ HasBindOverlap(active, want.gen)
  <2>1. active' = NoGraph /\ open' = Without("active") /\ plan' = "overlap"
    BY <1>7 DEF Replace, StartOf
  <2>2. HeldBy("starting")' = {} /\ HeldBy("active")' = {}
    BY <2>1, <1>5 DEF HeldBy, Without
  <2>3. GraphTypeOK'
    BY <1>1, <1>3, <1>4, <2>1 DEF GraphIInv, GraphTypeOK, Without
  <2> QED
    BY <1>1, <1>3, <1>4, <1>5, <1>7, <2>1, <2>2, <2>3
    DEF GraphIInv, StartHolds, OldGeneration, AtRest
<1>8. CASE active # NoGraph /\ ~HasBindOverlap(active, want.gen)
  <2>1. UNCHANGED <<active, open>> /\ plan' = "disjoint"
    BY <1>8 DEF Replace, StartOf
  <2>2. HeldBy("starting")' = {} /\ HeldBy("active")' = Sockets(active)
    BY <2>1, <1>5, <1>8 DEF HeldBy
  <2>3. GraphTypeOK'
    BY <1>1, <1>3, <1>4, <2>1 DEF GraphIInv, GraphTypeOK
  <2> QED
    BY <1>1, <1>3, <1>4, <1>5, <1>8, <2>1, <2>2, <2>3
    DEF GraphIInv, StartHolds, OldGeneration, AtRest
<1> QED
  BY <1>6, <1>7, <1>8

LEMMA BindKeeps == ASSUME GraphIInv, Bind PROVE GraphIInv'
<1>1. /\ phase = "starting" /\ ~AllBound /\ open' = open \cup {<<Address, "starting">>}
      /\ UNCHANGED <<active, applied, want, phase, plan, graph, next, tables, faults, requests>>
      /\ at' = IF at[2] < Len(AddressesOf(Node)) THEN <<at[1], at[2] + 1>>
               ELSE <<at[1] + 1, 1>>
  BY DEF Bind
<1>2. Address \in Addresses
  BY <1>1, CursorShape
<1>3. /\ BeforeCursor' = BeforeCursor \cup {Address}
      /\ at' \in (Nat \ {0}) \X (Nat \ {0})
      /\ CursorWithin'
  BY <1>1, CursorMoves DEF CursorWithin
<1>4. /\ HeldBy("starting")' = HeldBy("starting") \cup {Address}
      /\ HeldBy("active")' = HeldBy("active")
  BY <1>1, <1>2 DEF HeldBy
<1>5. GraphTypeOK'
  BY <1>1, <1>2, <1>3 DEF GraphIInv, GraphTypeOK, Holders
<1> QED
  BY <1>1, <1>3, <1>4, <1>5 DEF GraphIInv, StartHolds, OldGeneration, CachedTables, AtRest

(* However a start fails, if what it held is closed and the old generation's
   sockets are left alone, the slot is at rest or the rollback begins. *)
LEMMA StartFailsKeeps ==
  ASSUME GraphIInv, phase = "starting", NEW left, StartFails(left),
         left \in SUBSET (Addresses \X Holders),
         \A s \in left : s[2] # "starting",
         \A a \in Addresses : <<a, "active">> \in left <=> <<a, "active">> \in open,
         faults' \in 0..MaxFaults, UNCHANGED <<applied, want, next, tables, requests>>
  PROVE  GraphIInv'
<1>1. HeldBy("starting")' = {} /\ HeldBy("active")' = HeldBy("active") /\ UNCHANGED active
  BY DEF StartFails, HeldBy
<1>2. CASE plan = "overlap"
  <2>1. StartOf(applied.gen, "rollback") /\ open' = left
    BY <1>2 DEF StartFails
  <2>2. applied # NoGraph /\ active = NoGraph /\ HeldBy("active") = {}
    BY <1>2 DEF GraphIInv, OldGeneration
  <2>3. applied.gen \in Generations /\ applied.gen # NoGraph
    BY <2>2, AppliedShape, GenerationShape DEF GraphIInv
  <2>4. CursorWithin' /\ BeforeCursor' = {} /\ at' \in (Nat \ {0}) \X (Nat \ {0})
    BY <2>1, <2>3, StartBegins
  <2>5. phase' = "starting" /\ plan' = "rollback" /\ graph' = applied.gen
    BY <2>1 DEF StartOf
  <2>6. GraphTypeOK'
    BY <1>1, <2>1, <2>3, <2>4, <2>5 DEF GraphIInv, GraphTypeOK, Plans
  <2> QED
    BY <1>1, <2>2, <2>4, <2>5, <2>6 DEF GraphIInv, StartHolds, OldGeneration, CachedTables, AtRest
<1>3. CASE plan # "overlap"
  <2>1. phase' = "idle" /\ graph' = NoGraph /\ at' = <<1, 1>> /\ plan' = plan /\ open' = left
    BY <1>3 DEF StartFails, Idle
  <2>2. GraphTypeOK'
    BY <1>1, <2>1 DEF GraphIInv, GraphTypeOK
  <2>3. /\ HeldBy("active") = IF active = NoGraph THEN {} ELSE Sockets(active)
        /\ active # NoGraph => applied # NoGraph /\ active = applied.gen
    <3>1. plan = "disjoint" => applied # NoGraph /\ applied.gen # NoGraph
      BY AppliedShape, GenerationShape DEF GraphIInv, OldGeneration
    <3> QED
      BY <1>3, <3>1 DEF GraphIInv, OldGeneration
  <2> QED
    BY <1>1, <2>1, <2>2, <2>3 DEF GraphIInv, CursorWithin, StartHolds, OldGeneration,
       CachedTables, AtRest
<1> QED
  BY <1>2, <1>3

LEMMA BindErrorKeeps == ASSUME GraphIInv, BindError PROVE GraphIInv'
<1>1. /\ phase = "starting" /\ ~AllBound /\ StartFails(AfterBindError)
      /\ UNCHANGED <<applied, want, next, tables, requests>>
  BY DEF BindError
<1>2. faults' \in 0..MaxFaults
  BY RuntimeConstants DEF BindError, GraphIInv, GraphTypeOK
<1>3. BoundOfNode \in SUBSET Addresses
  BY <1>1, CursorShape
<1>4. PICK rest \in {"dropping", "leaked"} :
         AfterBindError = Without("starting") \cup (BoundOfNode \X {rest})
  BY DEF AfterBindError
<1>5. /\ AfterBindError \in SUBSET (Addresses \X Holders)
      /\ \A s \in AfterBindError : s[2] # "starting"
      /\ \A a \in Addresses : <<a, "active">> \in AfterBindError <=> <<a, "active">> \in open
  BY <1>3, <1>4 DEF Without, GraphIInv, GraphTypeOK, Holders
<1> HIDE DEF AfterBindError
<1> QED
  BY <1>1, <1>2, <1>5, StartFailsKeeps

LEMMA GateFailsKeeps == ASSUME GraphIInv, GateFails PROVE GraphIInv'
<1>1. /\ phase = "starting" /\ StartFails(Without("starting"))
      /\ UNCHANGED <<applied, want, next, tables, requests>>
  BY DEF GateFails
<1>2. faults' \in 0..MaxFaults
  BY RuntimeConstants DEF GateFails, GraphIInv, GraphTypeOK
<1>3. /\ Without("starting") \in SUBSET (Addresses \X Holders)
      /\ \A s \in Without("starting") : s[2] # "starting"
      /\ \A a \in Addresses : <<a, "active">> \in Without("starting") <=> <<a, "active">> \in open
  BY DEF Without, GraphIInv, GraphTypeOK
<1> QED
  BY <1>1, <1>2, <1>3, StartFailsKeeps

LEMMA CommitKeeps == ASSUME GraphIInv, Commit PROVE GraphIInv'
<1>1. /\ phase = "starting" /\ AllBound /\ open' = Promoted /\ active' = graph
      /\ phase' = "idle" /\ graph' = NoGraph /\ at' = <<1, 1>> /\ plan' = plan
      /\ UNCHANGED <<want, next, faults, requests>>
  BY DEF Commit, Idle
<1>2. /\ graph \in Generations /\ graph # NoGraph
      /\ next \in Generation /\ next.gen.proto \in Protocols /\ next # NoGraph
  <2>1. graph \in Generations /\ next \in Generation /\ next.gen \in Generations
    BY <1>1 DEF GraphIInv, GraphTypeOK, Generation
  <2> QED
    BY <2>1, GenerationShape, RuntimeConstants DEF Generation
<1>3. HeldBy("starting") = Sockets(graph)
  BY <1>1, CursorAtEnd
<1>4. HeldBy("starting")' = {} /\ HeldBy("active")' = Sockets(graph)
  <2>1. HeldBy("starting")' = {}
    BY <1>1 DEF HeldBy, Promoted, Without
  <2>2. HeldBy("active")' = HeldBy("starting")
    BY <1>1 DEF HeldBy, Promoted, Without
  <2> QED
    BY <2>1, <2>2, <1>3
<1>5. open' \in SUBSET (Addresses \X Holders)
  BY <1>1 DEF Promoted, Without, HeldBy, GraphIInv, GraphTypeOK, Holders
<1>6. /\ applied' # NoGraph /\ graph = applied'.gen /\ applied' \in Generation
      /\ tables' \in [Protocols -> Lists \cup {NoGraph}] /\ CachedTables'
  <2>1. CASE plan = "rollback"
    <3>1. UNCHANGED <<applied, tables>> /\ applied # NoGraph /\ graph = applied.gen
      BY <1>1, <2>1 DEF Commit, GraphIInv, OldGeneration
    <3> QED
      BY <3>1 DEF GraphIInv, GraphTypeOK, CachedTables
  <2>2. CASE plan # "rollback"
    <3>1. /\ applied' = next /\ tables' = [tables EXCEPT ![next.gen.proto] = next.list]
          /\ graph = next.gen
      BY <1>1, <2>2 DEF Commit, GraphIInv, OldGeneration
    <3>2. next.list \in Lists
      BY <1>2 DEF Generation
    <3> QED
      BY <3>1, <3>2, <1>2 DEF GraphIInv, GraphTypeOK, CachedTables
  <2> QED
    BY <2>1, <2>2
<1>7. GraphTypeOK'
  BY <1>1, <1>2, <1>5, <1>6 DEF GraphIInv, GraphTypeOK
<1> QED
  BY <1>1, <1>2, <1>4, <1>6, <1>7 DEF GraphIInv, CursorWithin, StartHolds, OldGeneration, AtRest

LEMMA TaskDroppedKeeps == ASSUME GraphIInv, TaskDropped PROVE GraphIInv'
<1>1. PICK a \in HeldBy("dropping") :
        /\ open' = open \ {<<a, "dropping">>}
        /\ UNCHANGED <<active, applied, want, phase, plan, graph, next, at, tables, faults,
                       requests>>
  BY DEF TaskDropped
<1>2. HeldBy("starting")' = HeldBy("starting") /\ HeldBy("active")' = HeldBy("active")
  BY <1>1 DEF HeldBy
<1>3. BeforeCursor' = BeforeCursor /\ AddressesOf(Node)' = AddressesOf(Node)
      /\ AllBound' = AllBound
  BY <1>1 DEF BeforeCursor, Node, AllBound, AddressesOf
<1>4. GraphTypeOK'
  BY <1>1 DEF GraphIInv, GraphTypeOK
<1> QED
  BY <1>1, <1>2, <1>3, <1>4 DEF GraphIInv, CursorWithin, StartHolds, OldGeneration,
     CachedTables, AtRest

LEMMA StopGraphKeeps == ASSUME GraphIInv, StopGraph PROVE GraphIInv'
  BY DEF GraphIInv, GraphTypeOK, CursorWithin, StartHolds, OldGeneration, CachedTables, AtRest,
     StopGraph

LEMMA GraphStutterKeeps == ASSUME GraphIInv, UNCHANGED graphVars PROVE GraphIInv'
<1>1. HeldBy("starting")' = HeldBy("starting") /\ HeldBy("active")' = HeldBy("active")
  BY DEF HeldBy, graphVars
<1>2. BeforeCursor' = BeforeCursor /\ AddressesOf(Node)' = AddressesOf(Node)
      /\ AllBound' = AllBound
  BY DEF BeforeCursor, Node, AllBound, AddressesOf, graphVars
<1>3. GraphTypeOK'
  BY DEF GraphIInv, GraphTypeOK, graphVars
<1> QED
  BY <1>1, <1>2, <1>3 DEF GraphIInv, CursorWithin, StartHolds, OldGeneration,
     CachedTables, AtRest, graphVars

(* What a start holds, and what the slot and the cache know meanwhile, is an
   invariant of every run of the runtime (RuntimeGraphSlot::replace,
   RuntimeGraph::start, apply_runtime). *)
THEOREM GraphInductive == GraphSpec => []GraphIInv
<1>1. GraphIInv /\ [GraphNext]_graphVars => GraphIInv'
  <2> SUFFICES ASSUME GraphIInv, [GraphNext]_graphVars PROVE GraphIInv'
    OBVIOUS
  <2> QED
    BY RequestKeeps, RefreshUsersKeeps, ReplaceKeeps, BindKeeps, BindErrorKeeps, GateFailsKeeps,
       CommitKeeps, TaskDroppedKeeps, StopGraphKeeps, GraphStutterKeeps DEF GraphNext, Step
<1> QED
  BY <1>1, GraphInitial, PTL DEF GraphSpec

(* GraphSafe, for any generations on any addresses, any user lists, with and
   without SO_REUSEPORT and however many binds and gates fail: between two
   replacements the slot owns exactly the listeners of the committed
   generation, these read the users the controller has cached, and a
   candidate on other binds never takes the old generation down. *)
THEOREM GraphAlwaysSafe == GraphSpec => []GraphSafe
<1>1. GraphIInv => GraphSafe
  BY DEF GraphIInv, AtRest, OldGeneration, CachedTables, GraphSafe, OwnsItsListeners,
     ServesAppliedUsers
<1> QED
  BY <1>1, GraphInductive, PTL

-----------------------------------------------------------------------------
(* Speed limits.  What the connections of a limiter may still send: allowed I/O,
   reserved initial data, and the part of it that is due within d. *)
IoShare(x, l) == IF x.pc = "io" /\ x.lim = l THEN x.want ELSE 0
OwedShare(x, l) == IF x.pc = "owing" /\ x.lim = l THEN x.initial ELSE 0
DueShare(x, l, d) == IF x.pc = "owing" /\ x.lim = l /\ x.delay <= d THEN x.initial ELSE 0

IoOf(fl, l) == SumFunction([f \in Pipes |-> IoShare(fl[f], l)])
OwedOf(fl, l) == SumFunction([f \in Pipes |-> OwedShare(fl[f], l)])
DueOf(fl, l, d) == SumFunction([f \in Pipes |-> DueShare(fl[f], l, d)])

(* One read of every connection but one, the initial data of all connections, and
   what a rate brings in over a time. *)
ReadRoom == (Cardinality(Pipes) - 1) * MaxRead
InitialRoom == Cardinality(Pipes) * Max(InitialData)
Paid(rate, d) == rate * d

FlowRecord ==
    [pc : {"closed", "unlimited", "idle", "owing", "poll", "io"}, lim : Limiters \cup {0},
     initial : Nat, want : Nat, delay : Nat]

FlowOK(x) ==
    /\ x.pc \in {"closed", "unlimited"} <=> x.lim = 0
    /\ x.initial <= Max(InitialData) /\ x.want <= MaxRead
    /\ x.delay > 0 => x.pc = "owing"

FlowsOK(fl) == fl \in [Pipes -> FlowRecord] /\ \A f \in Pipes : FlowOK(fl[f])

RateTypes ==
    /\ entry \in Limiters \cup {0} /\ FlowsOK(flow)
    /\ bucket \in [Limiters -> [rate : Nat, tokens : Int]]
    /\ surge \in [Limiters -> Nat] /\ peak \in [Limiters -> Nat] /\ lowered \in [Limiters -> BOOLEAN]

(* A limiter that is held has a limit and no more tokens than its largest burst;
   one that is not is as new. *)
LimiterOK(l) ==
    /\ l \in Unused => bucket[l] = NoBucket /\ surge[l] = 0 /\ peak[l] = 0 /\ ~lowered[l]
    /\ l \notin Unused => bucket[l].rate \in SpeedLimits \ {0}
    /\ bucket[l].tokens <= Burst(bucket[l].rate) /\ Burst(bucket[l].rate) <= peak[l]
    /\ \A f \in Pipes : IoShare(flow[f], l) <= peak[l]

(* What was sent ahead and what may still be sent at once. *)
TokensCover(l) == surge[l] + bucket[l].tokens + OwedOf(flow, l) <= peak[l] + InitialRoom

(* What will have been sent ahead when the sleeps of length d are over. *)
SleepsCover(l) ==
    ~lowered[l] =>
        \A d \in Nat : surge[l] + IoOf(flow, l) + DueOf(flow, l, d)
                       <= peak[l] + ReadRoom + InitialRoom + Paid(bucket[l].rate, d)

RateIInv ==
    RateTypes /\ \A l \in Limiters : LimiterOK(l) /\ TokensCover(l) /\ SleepsCover(l)

-----------------------------------------------------------------------------
LEMMA MaxOfTwo ==
    ASSUME NEW a \in Int, NEW b \in Int
    PROVE  /\ Max({a, b}) \in {a, b} /\ Max({a, b}) >= a /\ Max({a, b}) >= b
           /\ Min({a, b}) \in {a, b} /\ Min({a, b}) <= a /\ Min({a, b}) <= b
<1>1. \E x \in {a, b} : \A y \in {a, b} : x >= y
  OBVIOUS
<1>2. \E x \in {a, b} : \A y \in {a, b} : x =< y
  OBVIOUS
<1> QED
  BY <1>1, <1>2 DEF Max, Min

LEMMA LongestInitial ==
    /\ Max(InitialData) \in Nat /\ \A i \in InitialData : i \in Nat /\ i <= Max(InitialData)
<1>1. \E x \in InitialData : \A y \in InitialData : x >= y
  BY RateConstants
<1>2. Max(InitialData) \in InitialData /\ \A y \in InitialData : Max(InitialData) >= y
  BY <1>1 DEF Max
<1> QED
  BY <1>2, RateConstants

LEMMA MinIsMember ==
    ASSUME NEW S \in SUBSET Nat, S # {}
    PROVE  Min(S) \in S
<1>1. PICK x \in S : \A y \in S : ~(<<y, x>> \in OpToRel(<, Nat))
  BY WFMin, NatLessThanWellFounded
<1>2. ASSUME NEW y \in S PROVE x =< y
  <2>1. x \in Nat /\ y \in Nat
    OBVIOUS
  <2>2. y < x => <<y, x>> \in OpToRel(<, Nat)
    BY <2>1 DEF OpToRel
  <2>3. ~(y < x)
    BY <1>1, <2>2, Zenon
  <2> QED
    BY <2>1, <2>3
<1> QED
  BY <1>1, <1>2 DEF Min

LEMMA PaidFacts ==
    ASSUME NEW r \in Nat
    PROVE  /\ Paid(r, 0) = 0
           /\ \A d \in Nat : Paid(r, d) \in Nat /\ Paid(r, d + 1) = Paid(r, d) + r
           /\ \A d \in Nat, e \in Nat : d <= e => Paid(r, d) <= Paid(r, e)
           /\ \A s \in Nat, d \in Nat : r <= s => Paid(r, d) <= Paid(s, d)
<1>1. Paid(r, 0) = 0 /\ \A d \in Nat : Paid(r, d) \in Nat /\ Paid(r, d + 1) = Paid(r, d) + r
  BY DEF Paid
<1>2. ASSUME NEW d \in Nat, NEW e \in Nat, d <= e PROVE Paid(r, d) <= Paid(r, e)
  <2>1. PICK k \in Nat : e = d + k
    <3>1. e - d \in Nat /\ e = d + (e - d)
      BY <1>2
    <3> QED
      BY <3>1
  <2>2. r * (d + k) = r * d + r * k /\ r * k \in Nat /\ r * d \in Nat
    OBVIOUS
  <2> QED
    BY <2>1, <2>2 DEF Paid
<1>3. ASSUME NEW s \in Nat, NEW d \in Nat, r <= s PROVE Paid(r, d) <= Paid(s, d)
  <2>1. PICK k \in Nat : s = r + k
    <3>1. s - r \in Nat /\ s = r + (s - r)
      BY <1>3
    <3> QED
      BY <3>1
  <2>2. (r + k) * d = r * d + k * d /\ k * d \in Nat /\ r * d \in Nat
    OBVIOUS
  <2> QED
    BY <2>1, <2>2 DEF Paid
<1> QED
  BY <1>1, <1>2, <1>3

(* The sleep of reserve_delay pays the debt. *)
LEMMA SleepPays ==
    ASSUME NEW r \in Nat, r # 0, NEW left \in Int, left < 0
    PROVE  LET d == (r - left - 1) \div r IN d \in Nat /\ Paid(r, d) + left >= 0
<1> DEFINE a == r - left - 1
           d == a \div r
<1>1. a \in Nat /\ r > 0
  OBVIOUS
<1>2. d \in Nat /\ r * d <= a /\ a < r * d + r
  <2> HIDE DEF a
  <2> QED
    BY <1>1
<1>3. r * d \in Nat
  BY <1>2
<1> QED
  BY <1>2, <1>3 DEF Paid

LEMMA PipesCount ==
    /\ IsFiniteSet(Pipes) /\ Cardinality(Pipes) \in Nat /\ MaxRead \in Nat
    /\ InitialRoom \in Nat
    /\ Pipes # {} => ReadRoom \in Nat
<1>1. IsFiniteSet(Pipes) /\ MaxRead \in Nat
  BY RateConstants
<1>2. Cardinality(Pipes) \in Nat /\ (Cardinality(Pipes) = 0 <=> Pipes = {})
  BY <1>1, FS_CardinalityType, FS_EmptySet
<1>3. Max(InitialData) \in Nat
  BY LongestInitial
<1> QED
  BY <1>1, <1>2, <1>3 DEF InitialRoom, ReadRoom

(* The sums are numbers, and change with the share of the connection that changes. *)
LEMMA FlowSums ==
    ASSUME NEW fl, FlowsOK(fl), NEW l
    PROVE  /\ [f \in Pipes |-> IoShare(fl[f], l)] \in [Pipes -> Nat]
           /\ [f \in Pipes |-> OwedShare(fl[f], l)] \in [Pipes -> Nat]
           /\ \A d \in Nat : [f \in Pipes |-> DueShare(fl[f], l, d)] \in [Pipes -> Nat]
           /\ \A f \in Pipes : IoShare(fl[f], l) \in Nat /\ IoShare(fl[f], l) <= MaxRead
           /\ \A f \in Pipes : OwedShare(fl[f], l) \in Nat /\ OwedShare(fl[f], l) <= Max(InitialData)
           /\ \A f \in Pipes, d \in Nat : /\ DueShare(fl[f], l, d) \in Nat
                                          /\ DueShare(fl[f], l, d) <= OwedShare(fl[f], l)
<1>1. ASSUME NEW f \in Pipes
      PROVE  /\ IoShare(fl[f], l) \in Nat /\ IoShare(fl[f], l) <= MaxRead
             /\ OwedShare(fl[f], l) \in Nat /\ OwedShare(fl[f], l) <= Max(InitialData)
             /\ \A d \in Nat : /\ DueShare(fl[f], l, d) \in Nat
                               /\ DueShare(fl[f], l, d) <= OwedShare(fl[f], l)
  <2> DEFINE x == fl[f]
  <2>1. /\ x \in FlowRecord /\ x.initial \in Nat /\ x.want \in Nat
        /\ x.initial <= Max(InitialData) /\ x.want <= MaxRead
    BY DEF FlowsOK, FlowOK, FlowRecord
  <2>2. MaxRead \in Nat /\ Max(InitialData) \in Nat
    BY PipesCount, LongestInitial
  <2> HIDE DEF x
  <2>3. /\ IoShare(x, l) \in Nat /\ IoShare(x, l) <= MaxRead
        /\ OwedShare(x, l) \in Nat /\ OwedShare(x, l) <= Max(InitialData)
    BY <2>1, <2>2 DEF IoShare, OwedShare
  <2>4. \A d \in Nat : DueShare(x, l, d) \in Nat /\ DueShare(x, l, d) <= OwedShare(x, l)
    BY <2>1, <2>2 DEF DueShare, OwedShare
  <2> QED
    BY <2>3, <2>4 DEF x
<1> QED
  BY <1>1

LEMMA SumsBounded ==
    ASSUME NEW fl, FlowsOK(fl), NEW l, NEW d \in Nat
    PROVE  /\ IoOf(fl, l) \in Nat /\ OwedOf(fl, l) \in Nat /\ DueOf(fl, l, d) \in Nat
           /\ DueOf(fl, l, d) <= OwedOf(fl, l) /\ OwedOf(fl, l) <= InitialRoom
           /\ \A f \in Pipes : IoOf(fl, l) <= IoShare(fl[f], l) + ReadRoom
           /\ (\A f \in Pipes : fl[f].lim # l) => IoOf(fl, l) = 0 /\ OwedOf(fl, l) = 0
<1> DEFINE io == [f \in Pipes |-> IoShare(fl[f], l)]
           owed == [f \in Pipes |-> OwedShare(fl[f], l)]
           due == [f \in Pipes |-> DueShare(fl[f], l, d)]
<1>0. /\ io \in [Pipes -> Nat] /\ owed \in [Pipes -> Nat] /\ due \in [Pipes -> Nat]
      /\ \A f \in Pipes : io[f] <= MaxRead /\ owed[f] <= Max(InitialData) /\ due[f] <= owed[f]
      /\ \A f \in Pipes : io[f] = IoShare(fl[f], l) /\ owed[f] = OwedShare(fl[f], l)
  BY FlowSums
<1>1. IoOf(fl, l) = SumFunction(io) /\ OwedOf(fl, l) = SumFunction(owed)
      /\ DueOf(fl, l, d) = SumFunction(due)
  BY DEF IoOf, OwedOf, DueOf
<1>2. ASSUME \A f \in Pipes : fl[f].lim # l
      PROVE  \A f \in Pipes : io[f] = 0 /\ owed[f] = 0
  BY <1>2 DEF IoShare, OwedShare
<1> HIDE DEF io, owed, due
<1>3. IsFiniteSet(Pipes) /\ Cardinality(Pipes) \in Nat /\ MaxRead \in Nat /\ Max(InitialData) \in Nat
  BY PipesCount, LongestInitial
<1>4. SumFunction(io) \in Nat /\ SumFunction(owed) \in Nat /\ SumFunction(due) \in Nat
  BY <1>0, <1>3, SumIsNumber
<1>5. SumFunction(due) <= SumFunction(owed)
  BY <1>0, <1>3, SumMonotone
<1>6. SumFunction(owed) <= InitialRoom
  BY <1>0, <1>3, SumBound DEF InitialRoom
<1>7. ASSUME NEW f \in Pipes PROVE SumFunction(io) <= io[f] + ReadRoom
  <2> DEFINE S == Pipes \ {f}
             rest == [y \in S |-> io[y]]
  <2>1. IsFiniteSet(S) /\ Cardinality(S) = Cardinality(Pipes) - 1 /\ f \notin S /\ S \cup {f} = Pipes
    BY <1>3, FS_RemoveElement
  <2>2. io \in [S \cup {f} -> Nat] /\ rest \in [S -> Nat] /\ \A y \in S : rest[y] <= MaxRead
    BY <1>0, <2>1
  <2>3. SumFunction(rest) \in Nat /\ SumFunction(io) = SumFunction(rest) + io[f]
    <3> HIDE DEF S
    <3> QED
      BY <2>1, <2>2, SumWith
  <2>4. SumFunction(rest) <= ReadRoom
    <3> HIDE DEF S, rest
    <3>1. SumFunction(rest) <= Cardinality(S) * MaxRead
      BY <2>1, <2>2, <1>3, SumBound
    <3> QED
      BY <3>1, <2>1 DEF ReadRoom
  <2>5. ReadRoom \in Nat /\ io[f] \in Nat
    BY PipesCount, <1>0
  <2> HIDE DEF rest, S
  <2> QED
    BY <2>3, <2>4, <2>5
<1>8. (\A f \in Pipes : fl[f].lim # l) => SumFunction(io) = 0 /\ SumFunction(owed) = 0
  BY <1>0, <1>2, <1>3, SumOfNothing
<1> QED
  BY <1>0, <1>1, <1>4, <1>5, <1>6, <1>7, <1>8

LEMMA OneFlowChanges ==
    ASSUME NEW fl, FlowsOK(fl), NEW fl2, FlowsOK(fl2), NEW f \in Pipes,
           \A g \in Pipes \ {f} : fl2[g] = fl[g], NEW l, NEW d \in Nat
    PROVE  /\ IoOf(fl2, l) + IoShare(fl[f], l) = IoOf(fl, l) + IoShare(fl2[f], l)
           /\ OwedOf(fl2, l) + OwedShare(fl[f], l) = OwedOf(fl, l) + OwedShare(fl2[f], l)
           /\ DueOf(fl2, l, d) + DueShare(fl[f], l, d) = DueOf(fl, l, d) + DueShare(fl2[f], l, d)
<1>0. IsFiniteSet(Pipes)
  BY PipesCount
<1>1. IoOf(fl2, l) + IoShare(fl[f], l) = IoOf(fl, l) + IoShare(fl2[f], l)
  <2> DEFINE a == [g \in Pipes |-> IoShare(fl[g], l)]
             b == [g \in Pipes |-> IoShare(fl2[g], l)]
  <2>1. a \in [Pipes -> Nat] /\ b \in [Pipes -> Nat]
    BY FlowSums
  <2>2. \A g \in Pipes \ {f} : b[g] = a[g]
    OBVIOUS
  <2>3. SumFunction(b) + a[f] = SumFunction(a) + b[f]
    <3> HIDE DEF a, b
    <3> QED
      BY <1>0, <2>1, <2>2, SumChanges
  <2> QED
    BY <2>3 DEF IoOf
<1>2. OwedOf(fl2, l) + OwedShare(fl[f], l) = OwedOf(fl, l) + OwedShare(fl2[f], l)
  <2> DEFINE a == [g \in Pipes |-> OwedShare(fl[g], l)]
             b == [g \in Pipes |-> OwedShare(fl2[g], l)]
  <2>1. a \in [Pipes -> Nat] /\ b \in [Pipes -> Nat]
    BY FlowSums
  <2>2. \A g \in Pipes \ {f} : b[g] = a[g]
    OBVIOUS
  <2>3. SumFunction(b) + a[f] = SumFunction(a) + b[f]
    <3> HIDE DEF a, b
    <3> QED
      BY <1>0, <2>1, <2>2, SumChanges
  <2> QED
    BY <2>3 DEF OwedOf
<1>3. DueOf(fl2, l, d) + DueShare(fl[f], l, d) = DueOf(fl, l, d) + DueShare(fl2[f], l, d)
  <2> DEFINE a == [g \in Pipes |-> DueShare(fl[g], l, d)]
             b == [g \in Pipes |-> DueShare(fl2[g], l, d)]
  <2>1. a \in [Pipes -> Nat] /\ b \in [Pipes -> Nat]
    BY FlowSums
  <2>2. \A g \in Pipes \ {f} : b[g] = a[g]
    OBVIOUS
  <2>3. SumFunction(b) + a[f] = SumFunction(a) + b[f]
    <3> HIDE DEF a, b
    <3> QED
      BY <1>0, <2>1, <2>2, SumChanges
  <2> QED
    BY <2>3 DEF DueOf
<1> QED
  BY <1>1, <1>2, <1>3

-----------------------------------------------------------------------------
(* Which limiters are held. *)
LEMMA HeldLimiter ==
    ASSUME RateIInv, NEW f \in Pipes, flow[f].pc \notin {"closed", "unlimited"}
    PROVE  LET l == flow[f].lim
           IN  /\ l \in Limiters /\ l \notin Unused
               /\ bucket[l].rate \in Nat /\ bucket[l].rate # 0 /\ bucket[l].tokens \in Int
<1> DEFINE l == flow[f].lim
<1>1. flow[f] \in FlowRecord /\ l # 0
  BY DEF RateIInv, RateTypes, FlowsOK, FlowOK
<1>2. l \in Limiters
  BY <1>1 DEF FlowRecord
<1>3. l \notin Unused
  BY DEF Unused, Unheld
<1>4. bucket[l].rate \in SpeedLimits \ {0} /\ bucket[l] \in [rate : Nat, tokens : Int]
  BY <1>2, <1>3 DEF RateIInv, LimiterOK, RateTypes
<1> QED
  BY <1>2, <1>3, <1>4

(* A step that frees no limiter and changes one connection and its limiter keeps the
   others as they are. *)
LEMMA OtherLimiters ==
    ASSUME RateIInv, FlowsOK(flow'), NEW f \in Pipes, \A g \in Pipes \ {f} : flow'[g] = flow[g],
           NEW k \in Limiters, k \in Unused' <=> k \in Unused, flow[f].lim # k, flow'[f].lim # k,
           bucket'[k] = bucket[k], surge'[k] = surge[k], peak'[k] = peak[k], lowered'[k] = lowered[k]
    PROVE  LimiterOK(k)' /\ TokensCover(k)' /\ SleepsCover(k)'
<1>1. FlowsOK(flow) /\ LimiterOK(k) /\ TokensCover(k) /\ SleepsCover(k)
  BY DEF RateIInv, RateTypes
<1>2. /\ IoShare(flow[f], k) = 0 /\ IoShare(flow'[f], k) = 0
      /\ OwedShare(flow[f], k) = 0 /\ OwedShare(flow'[f], k) = 0
      /\ \A d \in Nat : DueShare(flow[f], k, d) = 0 /\ DueShare(flow'[f], k, d) = 0
  BY DEF IoShare, OwedShare, DueShare
<1>3. ASSUME NEW d \in Nat
      PROVE  /\ IoOf(flow', k) = IoOf(flow, k) /\ OwedOf(flow', k) = OwedOf(flow, k)
             /\ DueOf(flow', k, d) = DueOf(flow, k, d)
  <2>1. /\ IoOf(flow', k) + IoShare(flow[f], k) = IoOf(flow, k) + IoShare(flow'[f], k)
        /\ OwedOf(flow', k) + OwedShare(flow[f], k) = OwedOf(flow, k) + OwedShare(flow'[f], k)
        /\ DueOf(flow', k, d) + DueShare(flow[f], k, d) = DueOf(flow, k, d) + DueShare(flow'[f], k, d)
    BY <1>1, OneFlowChanges
  <2>2. /\ IoOf(flow, k) \in Nat /\ OwedOf(flow, k) \in Nat /\ DueOf(flow, k, d) \in Nat
        /\ IoOf(flow', k) \in Nat /\ OwedOf(flow', k) \in Nat /\ DueOf(flow', k, d) \in Nat
    BY <1>1, SumsBounded
  <2> QED
    BY <1>2, <2>1, <2>2
<1>4. \A g \in Pipes : IoShare(flow'[g], k) = IoShare(flow[g], k)
  BY <1>2
<1>5. LimiterOK(k)'
  BY <1>1, <1>4 DEF LimiterOK
<1>6. TokensCover(k)'
  <2>1. OwedOf(flow', k) = OwedOf(flow, k)
    BY <1>3
  <2> QED
    BY <1>1, <2>1 DEF TokensCover
<1>7. SleepsCover(k)'
  BY <1>1, <1>3 DEF SleepsCover
<1> QED
  BY <1>5, <1>6, <1>7

(* The same limiters are held when no connection changes its limiter. *)
LEMMA UnusedSame ==
    ASSUME entry' = entry, \A f \in Pipes : flow'[f].lim = flow[f].lim
    PROVE  Unused' = Unused
BY DEF Unused, Unheld

(* The parts of the invariant, in numbers, for one limiter. *)
LEMMA InNumbers ==
    ASSUME RateIInv, NEW l \in Limiters
    PROVE  /\ FlowsOK(flow) /\ LimiterOK(l) /\ TokensCover(l) /\ SleepsCover(l)
           /\ surge[l] \in Nat /\ peak[l] \in Nat /\ lowered[l] \in BOOLEAN
           /\ bucket[l] \in [rate : Nat, tokens : Int]
           /\ bucket[l].rate \in Nat /\ bucket[l].tokens \in Int
           /\ InitialRoom \in Nat /\ ReadRoom \in Nat /\ Burst(bucket[l].rate) \in Nat
<1>1. /\ FlowsOK(flow) /\ LimiterOK(l) /\ TokensCover(l) /\ SleepsCover(l)
      /\ surge[l] \in Nat /\ peak[l] \in Nat /\ lowered[l] \in BOOLEAN
      /\ bucket[l] \in [rate : Nat, tokens : Int]
  BY DEF RateIInv, RateTypes
<1>2. Pipes # {}
  <2>1. Pipes = {} => Cardinality(Pipes) = 0
    BY FS_EmptySet
  <2> QED
    BY <2>1 DEF Limiters
<1>3. Burst(bucket[l].rate) \in Nat
  BY <1>1, RateConstants DEF Burst
<1> QED
  BY <1>1, <1>2, <1>3, PipesCount

LEMMA OneLimiterStep ==
    ASSUME RateIInv, RateTypes', NEW f \in Pipes, NEW l \in Limiters,
           \A g \in Pipes \ {f} : flow'[g] = flow[g],
           \A k \in Limiters \ {l} : k \in Unused' <=> k \in Unused,
           flow[f].lim \in {0, l}, flow'[f].lim \in {0, l},
           \A k \in Limiters \ {l} : /\ bucket'[k] = bucket[k] /\ surge'[k] = surge[k]
                                     /\ peak'[k] = peak[k] /\ lowered'[k] = lowered[k],
           LimiterOK(l)', TokensCover(l)', SleepsCover(l)'
    PROVE  RateIInv'
<1>1. ASSUME NEW k \in Limiters, k # l PROVE LimiterOK(k)' /\ TokensCover(k)' /\ SleepsCover(k)'
  <2>1. 0 \notin Limiters
    BY DEF Limiters
  <2>2. flow[f].lim # k /\ flow'[f].lim # k
    BY <1>1, <2>1
  <2>3. FlowsOK(flow')
    BY DEF RateTypes
  <2> QED
    BY <1>1, <2>2, <2>3, OtherLimiters
<1>2. Limiters' = Limiters
  BY DEF Limiters
<1> QED
  BY <1>1, <1>2 DEF RateIInv

(* The sums of one limiter before and after a step of one connection. *)
LEMMA StepSums ==
    ASSUME FlowsOK(flow), FlowsOK(flow'), NEW f \in Pipes, \A g \in Pipes \ {f} : flow'[g] = flow[g],
           NEW l, NEW d \in Nat
    PROVE  /\ IoOf(flow, l) \in Nat /\ OwedOf(flow, l) \in Nat /\ DueOf(flow, l, d) \in Nat
           /\ IoOf(flow', l) \in Nat /\ OwedOf(flow', l) \in Nat /\ DueOf(flow', l, d) \in Nat
           /\ DueOf(flow', l, d) <= OwedOf(flow', l)
           /\ IoOf(flow', l) <= IoShare(flow'[f], l) + ReadRoom
           /\ IoOf(flow', l) + IoShare(flow[f], l) = IoOf(flow, l) + IoShare(flow'[f], l)
           /\ OwedOf(flow', l) + OwedShare(flow[f], l) = OwedOf(flow, l) + OwedShare(flow'[f], l)
           /\ DueOf(flow', l, d) + DueShare(flow[f], l, d) = DueOf(flow, l, d) + DueShare(flow'[f], l, d)
<1>1. /\ IoOf(flow, l) \in Nat /\ OwedOf(flow, l) \in Nat /\ DueOf(flow, l, d) \in Nat
  BY SumsBounded
<1>2. /\ IoOf(flow', l) \in Nat /\ OwedOf(flow', l) \in Nat /\ DueOf(flow', l, d) \in Nat
      /\ DueOf(flow', l, d) <= OwedOf(flow', l)
      /\ IoOf(flow', l) <= IoShare(flow'[f], l) + ReadRoom
  BY SumsBounded
<1>3. /\ IoOf(flow', l) + IoShare(flow[f], l) = IoOf(flow, l) + IoShare(flow'[f], l)
      /\ OwedOf(flow', l) + OwedShare(flow[f], l) = OwedOf(flow, l) + OwedShare(flow'[f], l)
      /\ DueOf(flow', l, d) + DueShare(flow[f], l, d) = DueOf(flow, l, d) + DueShare(flow'[f], l, d)
  BY OneFlowChanges
<1> QED
  BY <1>1, <1>2, <1>3

LEMMA AskKeeps ==
    ASSUME RateIInv, NEW f \in Pipes, NEW ask \in Nat, Ask(f, ask)
    PROVE  RateIInv'
<1> DEFINE x == flow[f]
           y == flow'[f]
<1>1. /\ x.pc = "idle" /\ flow' = [flow EXCEPT ![f].pc = "poll", ![f].want = ask]
      /\ ask <= MaxRead
      /\ entry' = entry /\ bucket' = bucket /\ surge' = surge /\ peak' = peak /\ lowered' = lowered
  <2>1. MaxDatagram \in Nat /\ MaxRead \in Nat /\ MaxDatagram <= MaxRead
    BY RateConstants
  <2> QED
    BY <2>1 DEF Ask
<1>2. PICK l \in Limiters : l = x.lim /\ l \notin Unused
  BY <1>1, HeldLimiter
<1>3. flow \in [Pipes -> FlowRecord] /\ x \in FlowRecord /\ FlowOK(x)
  BY DEF RateIInv, RateTypes, FlowsOK
<1>4. y = [x EXCEPT !.pc = "poll", !.want = ask] /\ \A g \in Pipes \ {f} : flow'[g] = flow[g]
  BY <1>1, <1>3
<1>5. y \in FlowRecord /\ FlowOK(y) /\ y.lim = l /\ y.pc = "poll"
  BY <1>1, <1>2, <1>3, <1>4 DEF FlowRecord, FlowOK, Limiters
<1>6. FlowsOK(flow')
  BY <1>1, <1>3, <1>4, <1>5 DEF FlowsOK, RateIInv, RateTypes
<1>7. RateTypes'
  BY <1>1, <1>6 DEF RateTypes, RateIInv, Limiters
<1>8. Unused' = Unused
  BY <1>1, <1>2, <1>4, <1>5, UnusedSame
<1>9. /\ IoShare(x, l) = 0 /\ IoShare(y, l) = 0 /\ OwedShare(x, l) = 0 /\ OwedShare(y, l) = 0
      /\ \A d \in Nat : DueShare(x, l, d) = 0 /\ DueShare(y, l, d) = 0
  BY <1>1, <1>2, <1>5 DEF IoShare, OwedShare, DueShare
<1>10. FlowsOK(flow) /\ LimiterOK(l) /\ TokensCover(l) /\ SleepsCover(l)
  BY <1>2, InNumbers
<1>11. ASSUME NEW d \in Nat
       PROVE  /\ IoOf(flow', l) = IoOf(flow, l) /\ OwedOf(flow', l) = OwedOf(flow, l)
              /\ DueOf(flow', l, d) = DueOf(flow, l, d)
  BY <1>4, <1>6, <1>9, <1>10, StepSums
<1>12. LimiterOK(l)'
  <2>1. \A g \in Pipes : IoShare(flow'[g], l) = IoShare(flow[g], l)
    BY <1>4, <1>9
  <2> HIDE DEF x, y
  <2> QED
    BY <2>1, <1>1, <1>8, <1>10 DEF LimiterOK
<1> HIDE DEF x, y
<1>13. TokensCover(l)'
  <2>1. OwedOf(flow', l) = OwedOf(flow, l)
    BY <1>11
  <2> QED
    BY <2>1, <1>1, <1>10 DEF TokensCover
<1>14. SleepsCover(l)'
  BY <1>1, <1>10, <1>11 DEF SleepsCover
<1> QED
  BY <1>1, <1>2, <1>4, <1>5, <1>7, <1>8, <1>12, <1>13, <1>14, OneLimiterStep DEF x, y

LEMMA SendReservedKeeps ==
    ASSUME RateIInv, NEW f \in Pipes, SendReserved(f)
    PROVE  RateIInv'
<1> DEFINE x == flow[f]
           y == flow'[f]
<1>1. /\ x.pc = "owing" /\ x.delay = 0
      /\ surge' = [surge EXCEPT ![x.lim] = @ + x.initial]
      /\ flow' = [flow EXCEPT ![f].pc = "idle", ![f].initial = 0]
      /\ entry' = entry /\ bucket' = bucket /\ peak' = peak /\ lowered' = lowered
  BY DEF SendReserved
<1>2. PICK l \in Limiters : l = x.lim /\ l \notin Unused
  BY <1>1, HeldLimiter
<1>3. flow \in [Pipes -> FlowRecord] /\ x \in FlowRecord /\ FlowOK(x)
  BY DEF RateIInv, RateTypes, FlowsOK
<1>4. y = [x EXCEPT !.pc = "idle", !.initial = 0] /\ \A g \in Pipes \ {f} : flow'[g] = flow[g]
  BY <1>1, <1>3
<1>5. y \in FlowRecord /\ FlowOK(y) /\ y.lim = l /\ y.pc = "idle"
  <2>1. /\ y \in FlowRecord /\ y.pc = "idle" /\ y.initial = 0 /\ y.lim = x.lim
        /\ y.want = x.want /\ y.delay = x.delay
    <3> HIDE DEF x, y
    <3> QED
      BY <1>3, <1>4 DEF FlowRecord
  <2> QED
    BY <2>1, <1>1, <1>2, <1>3, LongestInitial DEF FlowOK, Limiters
<1>6. FlowsOK(flow')
  BY <1>1, <1>3, <1>4, <1>5 DEF FlowsOK, RateIInv, RateTypes
<1>7. x.initial \in Nat
  BY <1>3 DEF FlowRecord
<1>8. RateTypes' /\ surge'[l] = surge[l] + x.initial /\ \A k \in Limiters \ {l} : surge'[k] = surge[k]
  BY <1>1, <1>2, <1>6, <1>7 DEF RateTypes, RateIInv, Limiters
<1>9. Unused' = Unused
  BY <1>1, <1>2, <1>4, <1>5, UnusedSame
<1>10. /\ IoShare(x, l) = 0 /\ IoShare(y, l) = 0
       /\ OwedShare(x, l) = x.initial /\ OwedShare(y, l) = 0
       /\ \A d \in Nat : DueShare(x, l, d) = x.initial /\ DueShare(y, l, d) = 0
  <2>1. x.delay = 0 /\ x.pc = "owing" /\ x.lim = l
    BY <1>1, <1>2
  <2> HIDE DEF x, y
  <2>2. \A d \in Nat : 0 <= d
    OBVIOUS
  <2> QED
    BY <2>1, <2>2, <1>5 DEF IoShare, OwedShare, DueShare
<1>11. /\ FlowsOK(flow) /\ LimiterOK(l) /\ TokensCover(l) /\ SleepsCover(l)
       /\ surge[l] \in Nat /\ peak[l] \in Nat /\ bucket[l].rate \in Nat /\ bucket[l].tokens \in Int
       /\ InitialRoom \in Nat /\ ReadRoom \in Nat
  BY <1>2, InNumbers
<1>12. ASSUME NEW d \in Nat
       PROVE  /\ IoOf(flow', l) = IoOf(flow, l) /\ OwedOf(flow', l) = OwedOf(flow, l) - x.initial
              /\ DueOf(flow', l, d) = DueOf(flow, l, d) - x.initial
              /\ IoOf(flow, l) \in Nat /\ OwedOf(flow, l) \in Nat /\ DueOf(flow, l, d) \in Nat
  BY <1>4, <1>6, <1>7, <1>10, <1>11, StepSums
<1>13. LimiterOK(l)'
  <2>1. \A g \in Pipes : IoShare(flow'[g], l) = IoShare(flow[g], l)
    BY <1>4, <1>10
  <2> HIDE DEF x, y
  <2> QED
    BY <2>1, <1>1, <1>2, <1>9, <1>11 DEF LimiterOK
<1> HIDE DEF x, y
<1>14. TokensCover(l)'
  <2>1. OwedOf(flow', l) = OwedOf(flow, l) - x.initial /\ OwedOf(flow, l) \in Nat
    BY <1>12
  <2> QED
    BY <2>1, <1>1, <1>7, <1>8, <1>11 DEF TokensCover
<1>15. SleepsCover(l)'
  <2> SUFFICES ASSUME ~lowered[l], NEW d \in Nat
               PROVE  surge'[l] + IoOf(flow', l) + DueOf(flow', l, d)
                        <= peak[l] + ReadRoom + InitialRoom + Paid(bucket[l].rate, d)
    BY <1>1 DEF SleepsCover
  <2>1. surge[l] + IoOf(flow, l) + DueOf(flow, l, d)
          <= peak[l] + ReadRoom + InitialRoom + Paid(bucket[l].rate, d)
    BY <1>11 DEF SleepsCover
  <2>2. Paid(bucket[l].rate, d) \in Nat
    BY <1>11, PaidFacts
  <2> QED
    BY <2>1, <2>2, <1>7, <1>8, <1>11, <1>12
<1> QED
  BY <1>1, <1>2, <1>4, <1>5, <1>8, <1>9, <1>13, <1>14, <1>15, OneLimiterStep DEF x, y

LEMMA MoveKeeps ==
    ASSUME RateIInv, NEW f \in Pipes, NEW n \in Nat, Move(f, n)
    PROVE  RateIInv'
<1> DEFINE x == flow[f]
           y == flow'[f]
<1>1. /\ x.pc = "io" /\ n <= x.want
      /\ bucket' = [bucket EXCEPT ![x.lim].tokens = @ - n]
      /\ surge' = [surge EXCEPT ![x.lim] = @ + n]
      /\ flow' = [flow EXCEPT ![f].pc = "idle", ![f].want = 0]
      /\ entry' = entry /\ peak' = peak /\ lowered' = lowered
  BY DEF Move
<1>2. PICK l \in Limiters : l = x.lim /\ l \notin Unused
  BY <1>1, HeldLimiter
<1>3. flow \in [Pipes -> FlowRecord] /\ x \in FlowRecord /\ FlowOK(x)
  BY DEF RateIInv, RateTypes, FlowsOK
<1>4. y = [x EXCEPT !.pc = "idle", !.want = 0] /\ \A g \in Pipes \ {f} : flow'[g] = flow[g]
  BY <1>1, <1>3
<1>5. y \in FlowRecord /\ FlowOK(y) /\ y.lim = l /\ y.pc = "idle"
  <2>1. /\ y \in FlowRecord /\ y.pc = "idle" /\ y.initial = x.initial /\ y.lim = x.lim
        /\ y.want = 0 /\ y.delay = x.delay
    <3> HIDE DEF x, y
    <3> QED
      BY <1>3, <1>4 DEF FlowRecord
  <2>2. x.delay \in Nat /\ x.pc # "owing" /\ MaxRead \in Nat
    BY <1>1, <1>3, RateConstants DEF FlowRecord
  <2> QED
    BY <2>1, <2>2, <1>1, <1>2, <1>3 DEF FlowOK, Limiters
<1>6. FlowsOK(flow')
  BY <1>1, <1>3, <1>4, <1>5 DEF FlowsOK, RateIInv, RateTypes
<1>7. x.want \in Nat
  BY <1>3 DEF FlowRecord
<1>8. /\ FlowsOK(flow) /\ LimiterOK(l) /\ TokensCover(l) /\ SleepsCover(l)
      /\ surge[l] \in Nat /\ peak[l] \in Nat /\ bucket[l].rate \in Nat /\ bucket[l].tokens \in Int
      /\ bucket[l] \in [rate : Nat, tokens : Int] /\ Burst(bucket[l].rate) \in Nat
      /\ InitialRoom \in Nat /\ ReadRoom \in Nat
  BY <1>2, InNumbers
<1>9. bucket \in [Limiters -> [rate : Nat, tokens : Int]] /\ surge \in [Limiters -> Nat]
  BY DEF RateIInv, RateTypes
<1>10. /\ bucket' \in [Limiters -> [rate : Nat, tokens : Int]] /\ surge' \in [Limiters -> Nat]
       /\ bucket'[l].tokens = bucket[l].tokens - n /\ bucket'[l].rate = bucket[l].rate
       /\ surge'[l] = surge[l] + n
       /\ \A k \in Limiters \ {l} : bucket'[k] = bucket[k] /\ surge'[k] = surge[k]
  BY <1>1, <1>2, <1>8, <1>9
<1>11. RateTypes'
  BY <1>1, <1>6, <1>10 DEF RateTypes, RateIInv, Limiters
<1>12. Unused' = Unused
  BY <1>1, <1>2, <1>4, <1>5, UnusedSame
<1> HIDE DEF x, y
<1>13. /\ IoShare(x, l) = x.want /\ IoShare(y, l) = 0
       /\ OwedShare(x, l) = 0 /\ OwedShare(y, l) = 0
       /\ \A d \in Nat : DueShare(x, l, d) = 0 /\ DueShare(y, l, d) = 0
  BY <1>1, <1>2, <1>5 DEF IoShare, OwedShare, DueShare
<1>14. ASSUME NEW d \in Nat
       PROVE  /\ IoOf(flow', l) = IoOf(flow, l) - x.want /\ OwedOf(flow', l) = OwedOf(flow, l)
              /\ DueOf(flow', l, d) = DueOf(flow, l, d)
              /\ IoOf(flow, l) \in Nat /\ OwedOf(flow, l) \in Nat /\ DueOf(flow, l, d) \in Nat
  BY <1>4, <1>6, <1>7, <1>8, <1>13, StepSums DEF x, y
<1>15. LimiterOK(l)'
  <2>1. \A g \in Pipes : IoShare(flow'[g], l) <= peak[l]
    BY <1>4, <1>8, <1>13 DEF LimiterOK, y
  <2>2. bucket'[l].tokens <= Burst(bucket[l].rate)
    BY <1>8, <1>10 DEF LimiterOK
  <2> QED
    BY <2>1, <2>2, <1>1, <1>2, <1>8, <1>10, <1>12 DEF LimiterOK
<1>16. TokensCover(l)'
  <2>1. OwedOf(flow', l) = OwedOf(flow, l) /\ OwedOf(flow, l) \in Nat
    BY <1>14
  <2> QED
    BY <2>1, <1>1, <1>8, <1>10 DEF TokensCover
<1>17. SleepsCover(l)'
  <2> SUFFICES ASSUME ~lowered[l], NEW d \in Nat
               PROVE  surge'[l] + IoOf(flow', l) + DueOf(flow', l, d)
                        <= peak[l] + ReadRoom + InitialRoom + Paid(bucket[l].rate, d)
    BY <1>1, <1>10 DEF SleepsCover
  <2>1. surge[l] + IoOf(flow, l) + DueOf(flow, l, d)
          <= peak[l] + ReadRoom + InitialRoom + Paid(bucket[l].rate, d)
    BY <1>8 DEF SleepsCover
  <2>2. Paid(bucket[l].rate, d) \in Nat
    BY <1>8, PaidFacts
  <2>3. /\ IoOf(flow', l) = IoOf(flow, l) - x.want /\ DueOf(flow', l, d) = DueOf(flow, l, d)
        /\ IoOf(flow, l) \in Nat /\ DueOf(flow, l, d) \in Nat
    BY <1>14
  <2>4. surge'[l] = surge[l] + n /\ n <= x.want
    BY <1>1, <1>10
  <2> QED
    BY <2>1, <2>2, <2>3, <2>4, <1>7, <1>8
<1> QED
  BY <1>1, <1>2, <1>4, <1>5, <1>10, <1>11, <1>12, <1>15, <1>16, <1>17, OneLimiterStep DEF x, y

LEMMA AllowKeeps ==
    ASSUME RateIInv, NEW f \in Pipes, Allow(f)
    PROVE  RateIInv'
<1> DEFINE x == flow[f]
           y == flow'[f]
           tokens == bucket[x.lim].tokens
           ask == IF Kind[f] = "stream" THEN Min({x.want, tokens}) ELSE x.want
<1>1. /\ x.pc = "poll" /\ tokens >= Needed(f)
      /\ flow' = [flow EXCEPT ![f].pc = "io",
                              ![f].want = IF Kind[f] = "stream" THEN Min({@, tokens}) ELSE @]
      /\ entry' = entry /\ bucket' = bucket /\ surge' = surge /\ peak' = peak /\ lowered' = lowered
  BY DEF Allow
<1>2. PICK l \in Limiters : l = x.lim /\ l \notin Unused
  BY <1>1, HeldLimiter
<1>3. flow \in [Pipes -> FlowRecord] /\ x \in FlowRecord /\ FlowOK(x)
  BY DEF RateIInv, RateTypes, FlowsOK
<1>4. y = [x EXCEPT !.pc = "io", !.want = ask] /\ \A g \in Pipes \ {f} : flow'[g] = flow[g]
  BY <1>1, <1>3
<1>5. /\ FlowsOK(flow) /\ LimiterOK(l) /\ TokensCover(l) /\ SleepsCover(l)
      /\ surge[l] \in Nat /\ peak[l] \in Nat /\ bucket[l].rate \in Nat /\ bucket[l].tokens \in Int
      /\ Burst(bucket[l].rate) \in Nat
      /\ InitialRoom \in Nat /\ ReadRoom \in Nat
  BY <1>2, InNumbers
<1>6. tokens = bucket[l].tokens
  BY <1>2
<1>7. ask \in Nat /\ ask <= x.want /\ ask <= tokens
  <2>1. x.want \in Nat /\ x.want <= MaxRead
    BY <1>3 DEF FlowRecord, FlowOK
  <2>2. CASE Kind[f] # "stream"
    BY <2>1, <2>2, <1>1, <1>5, <1>6 DEF Needed
  <2>3. CASE Kind[f] = "stream"
    <3>1. bucket[l].rate \in SpeedLimits \ {0}
      BY <1>2, <1>5 DEF LimiterOK
    <3>2. MinChunk \in Nat
      <4>1. bucket[l].rate * BurstSeconds \in Nat
        BY <1>5 DEF Burst
      <4>2. MinChunk \in 1..(bucket[l].rate * BurstSeconds)
        BY <3>1, RateConstants
      <4> QED
        BY <4>1, <4>2
    <3>3. Needed(f) = Min({MinChunk, Burst(bucket[l].rate), x.want})
      BY <2>3, <1>2 DEF Needed
    <3>4. Needed(f) \in Nat
      <4> DEFINE S == {MinChunk, Burst(bucket[l].rate), x.want}
      <4>1. S \in SUBSET Nat /\ S # {}
        BY <3>2, <2>1, <1>5
      <4>2. Min(S) \in S
        <5> HIDE DEF S
        <5> QED
          BY <4>1, MinIsMember
      <4> QED
        BY <4>1, <4>2, <3>3
    <3>5. tokens \in Nat
      BY <3>4, <1>1, <1>5, <1>6
    <3>6. ask = Min({x.want, tokens})
      BY <2>3
    <3> DEFINE a == x.want
    <3>7. a \in Int /\ tokens \in Int
      BY <3>5, <2>1
    <3> HIDE DEF tokens, a
    <3>8. Min({a, tokens}) \in {a, tokens} /\ Min({a, tokens}) <= a /\ Min({a, tokens}) <= tokens
      BY <3>7, MaxOfTwo
    <3> QED
      BY <3>5, <3>6, <3>8, <2>1 DEF a
  <2> QED
    BY <2>2, <2>3
<1> HIDE DEF ask, tokens
<1>8. y \in FlowRecord /\ FlowOK(y) /\ y.lim = l /\ y.pc = "io" /\ y.want = ask
  <2>1. /\ y \in FlowRecord /\ y.pc = "io" /\ y.initial = x.initial /\ y.lim = x.lim
        /\ y.want = ask /\ y.delay = x.delay
    <3> HIDE DEF x, y
    <3> QED
      BY <1>3, <1>4, <1>7 DEF FlowRecord
  <2>2. x.delay \in Nat /\ x.pc # "owing" /\ MaxRead \in Nat /\ x.want \in Nat
    BY <1>1, <1>3, RateConstants DEF FlowRecord
  <2> QED
    BY <2>1, <2>2, <1>1, <1>2, <1>3, <1>7 DEF FlowOK, Limiters
<1>9. FlowsOK(flow')
  BY <1>1, <1>3, <1>4, <1>8 DEF FlowsOK, RateIInv, RateTypes
<1>10. RateTypes'
  BY <1>1, <1>9 DEF RateTypes, RateIInv, Limiters
<1>11. Unused' = Unused
  BY <1>1, <1>2, <1>4, <1>8, UnusedSame
<1> HIDE DEF x, y
<1>12. /\ IoShare(x, l) = 0 /\ IoShare(y, l) = ask
       /\ OwedShare(x, l) = 0 /\ OwedShare(y, l) = 0
       /\ \A d \in Nat : DueShare(x, l, d) = 0 /\ DueShare(y, l, d) = 0
  BY <1>1, <1>2, <1>8 DEF IoShare, OwedShare, DueShare
<1>13. ASSUME NEW d \in Nat
       PROVE  /\ IoOf(flow', l) <= ask + ReadRoom /\ OwedOf(flow', l) = OwedOf(flow, l)
              /\ DueOf(flow', l, d) <= OwedOf(flow, l) /\ DueOf(flow', l, d) \in Nat
              /\ IoOf(flow', l) \in Nat /\ OwedOf(flow, l) \in Nat
  BY <1>4, <1>5, <1>7, <1>9, <1>12, StepSums DEF x, y
<1>14. LimiterOK(l)'
  <2>1. ask <= peak[l]
    BY <1>5, <1>6, <1>7 DEF LimiterOK
  <2>2. \A g \in Pipes : IoShare(flow'[g], l) <= peak[l]
    BY <2>1, <1>4, <1>5, <1>12 DEF LimiterOK, y
  <2> QED
    BY <2>2, <1>1, <1>5, <1>11 DEF LimiterOK
<1>15. TokensCover(l)'
  <2>1. OwedOf(flow', l) = OwedOf(flow, l)
    BY <1>13
  <2> QED
    BY <2>1, <1>1, <1>5 DEF TokensCover
<1>16. SleepsCover(l)'
  <2> SUFFICES ASSUME NEW d \in Nat
               PROVE  surge[l] + IoOf(flow', l) + DueOf(flow', l, d)
                        <= peak[l] + ReadRoom + InitialRoom + Paid(bucket[l].rate, d)
    BY <1>1 DEF SleepsCover
  <2>1. surge[l] + bucket[l].tokens + OwedOf(flow, l) <= peak[l] + InitialRoom
    BY <1>5 DEF TokensCover
  <2>2. Paid(bucket[l].rate, d) \in Nat
    BY <1>5, PaidFacts
  <2> QED
    BY <2>1, <2>2, <1>5, <1>6, <1>7, <1>13
<1> QED
  BY <1>1, <1>2, <1>4, <1>8, <1>10, <1>11, <1>14, <1>15, <1>16, OneLimiterStep DEF x, y

LEMMA ReserveKeeps ==
    ASSUME RateIInv, NEW f \in Pipes, Reserve(f)
    PROVE  RateIInv'
<1> DEFINE x == flow[f]
           y == flow'[f]
           left == bucket[x.lim].tokens - x.initial
           rate == bucket[x.lim].rate
           delay == IF left >= 0 THEN 0 ELSE (rate - left - 1) \div rate
<1>1. /\ x.pc = "idle"
      /\ bucket' = [bucket EXCEPT ![x.lim].tokens = left]
      /\ flow' = [flow EXCEPT ![f].pc = "owing", ![f].delay = delay]
      /\ entry' = entry /\ surge' = surge /\ peak' = peak /\ lowered' = lowered
  BY DEF Reserve
<1>2. PICK l \in Limiters : l = x.lim /\ l \notin Unused /\ bucket[l].rate # 0
  BY <1>1, HeldLimiter
<1>3. flow \in [Pipes -> FlowRecord] /\ x \in FlowRecord /\ FlowOK(x)
  BY DEF RateIInv, RateTypes, FlowsOK
<1>4. y = [x EXCEPT !.pc = "owing", !.delay = delay] /\ \A g \in Pipes \ {f} : flow'[g] = flow[g]
  BY <1>1, <1>3
<1>5. /\ FlowsOK(flow) /\ LimiterOK(l) /\ TokensCover(l) /\ SleepsCover(l)
      /\ surge[l] \in Nat /\ peak[l] \in Nat /\ bucket[l].rate \in Nat /\ bucket[l].tokens \in Int
      /\ bucket[l] \in [rate : Nat, tokens : Int] /\ Burst(bucket[l].rate) \in Nat
      /\ InitialRoom \in Nat /\ ReadRoom \in Nat
  BY <1>2, InNumbers
<1>6. x.initial \in Nat
  BY <1>3 DEF FlowRecord
<1>7. left = bucket[l].tokens - x.initial /\ left \in Int /\ rate = bucket[l].rate
  BY <1>2, <1>5, <1>6
<1>8. delay \in Nat /\ Paid(bucket[l].rate, delay) + left >= 0
  <2>1. CASE left >= 0
    <3>1. delay = 0 /\ Paid(bucket[l].rate, 0) = 0
      BY <2>1, <1>5, PaidFacts
    <3> QED
      BY <3>1, <2>1, <1>7
  <2>2. CASE left < 0
    <3>1. delay = (rate - left - 1) \div rate
      BY <2>2, <1>7
    <3> HIDE DEF left, rate, delay
    <3> QED
      BY <3>1, <2>2, <1>2, <1>5, <1>7, SleepPays
  <2> QED
    BY <2>1, <2>2, <1>7
<1> HIDE DEF delay, left, rate
<1>9. /\ y \in FlowRecord /\ FlowOK(y) /\ y.lim = l /\ y.pc = "owing" /\ y.initial = x.initial
      /\ y.delay = delay
  <2>1. /\ y \in FlowRecord /\ y.pc = "owing" /\ y.initial = x.initial /\ y.lim = x.lim
        /\ y.want = x.want /\ y.delay = delay
    <3> HIDE DEF x, y
    <3> QED
      BY <1>3, <1>4, <1>8 DEF FlowRecord
  <2> QED
    BY <2>1, <1>1, <1>2, <1>3 DEF FlowOK, Limiters
<1>10. FlowsOK(flow')
  BY <1>1, <1>3, <1>4, <1>9 DEF FlowsOK, RateIInv, RateTypes
<1>11. bucket \in [Limiters -> [rate : Nat, tokens : Int]]
  BY DEF RateIInv, RateTypes
<1>12. /\ bucket' \in [Limiters -> [rate : Nat, tokens : Int]]
       /\ bucket'[l].tokens = left /\ bucket'[l].rate = bucket[l].rate
       /\ \A k \in Limiters \ {l} : bucket'[k] = bucket[k]
  BY <1>1, <1>2, <1>5, <1>7, <1>11
<1>13. RateTypes'
  BY <1>1, <1>10, <1>12 DEF RateTypes, RateIInv, Limiters
<1>14. Unused' = Unused
  BY <1>1, <1>2, <1>4, <1>9, UnusedSame
<1> HIDE DEF x, y
<1>15. /\ IoShare(x, l) = 0 /\ IoShare(y, l) = 0
       /\ OwedShare(x, l) = 0 /\ OwedShare(y, l) = x.initial
       /\ \A d \in Nat : /\ DueShare(x, l, d) = 0
                         /\ DueShare(y, l, d) = IF delay <= d THEN x.initial ELSE 0
  BY <1>1, <1>2, <1>9 DEF IoShare, OwedShare, DueShare
<1>16. ASSUME NEW d \in Nat
       PROVE  /\ IoOf(flow', l) = IoOf(flow, l) /\ OwedOf(flow', l) = OwedOf(flow, l) + x.initial
              /\ DueOf(flow', l, d) = DueOf(flow, l, d) + (IF delay <= d THEN x.initial ELSE 0)
              /\ IoOf(flow, l) \in Nat /\ OwedOf(flow, l) \in Nat /\ DueOf(flow, l, d) \in Nat
              /\ IoOf(flow', l) <= ReadRoom /\ DueOf(flow', l, d) <= OwedOf(flow', l)
  <2>1. /\ IoOf(flow, l) \in Nat /\ OwedOf(flow, l) \in Nat /\ DueOf(flow, l, d) \in Nat
        /\ IoOf(flow', l) \in Nat /\ OwedOf(flow', l) \in Nat /\ DueOf(flow', l, d) \in Nat
        /\ DueOf(flow', l, d) <= OwedOf(flow', l)
        /\ IoOf(flow', l) <= IoShare(y, l) + ReadRoom
        /\ IoOf(flow', l) + IoShare(x, l) = IoOf(flow, l) + IoShare(y, l)
        /\ OwedOf(flow', l) + OwedShare(x, l) = OwedOf(flow, l) + OwedShare(y, l)
        /\ DueOf(flow', l, d) + DueShare(x, l, d) = DueOf(flow, l, d) + DueShare(y, l, d)
    BY <1>4, <1>5, <1>10, StepSums DEF x, y
  <2>2. DueShare(y, l, d) = (IF delay <= d THEN x.initial ELSE 0) /\ DueShare(x, l, d) = 0
    BY <1>15
  <2>3. DueShare(y, l, d) \in Nat
    BY <2>2, <1>6
  <2> QED
    BY <2>1, <2>2, <2>3, <1>5, <1>6, <1>15
<1>17. LimiterOK(l)'
  <2>1. \A g \in Pipes : IoShare(flow'[g], l) <= peak[l]
    BY <1>4, <1>5, <1>15 DEF LimiterOK, y
  <2>2. left <= Burst(bucket[l].rate)
    BY <1>5, <1>6, <1>7 DEF LimiterOK
  <2> QED
    BY <2>1, <2>2, <1>1, <1>2, <1>5, <1>12, <1>14 DEF LimiterOK
<1>18. TokensCover(l)'
  <2>1. OwedOf(flow', l) = OwedOf(flow, l) + x.initial /\ OwedOf(flow, l) \in Nat
    BY <1>16
  <2>2. surge[l] + bucket[l].tokens + OwedOf(flow, l) <= peak[l] + InitialRoom
    BY <1>5 DEF TokensCover
  <2>3. surge[l] + left + OwedOf(flow', l) <= peak[l] + InitialRoom
    BY <2>1, <2>2, <1>5, <1>6, <1>7
  <2> QED
    BY <2>3, <1>1, <1>12 DEF TokensCover
<1>19. SleepsCover(l)'
  <2> SUFFICES ASSUME ~lowered[l], NEW d \in Nat
               PROVE  surge[l] + IoOf(flow', l) + DueOf(flow', l, d)
                        <= peak[l] + ReadRoom + InitialRoom + Paid(bucket[l].rate, d)
    BY <1>1, <1>12 DEF SleepsCover
  <2>1. Paid(bucket[l].rate, d) \in Nat /\ Paid(bucket[l].rate, delay) \in Nat
    BY <1>5, <1>8, PaidFacts
  <2>2. CASE delay <= d
    <3>1. Paid(bucket[l].rate, delay) <= Paid(bucket[l].rate, d)
      BY <2>2, <1>5, <1>8, PaidFacts
    <3>2. surge[l] + bucket[l].tokens + OwedOf(flow, l) <= peak[l] + InitialRoom
      BY <1>5 DEF TokensCover
    <3> QED
      BY <3>1, <3>2, <2>1, <1>5, <1>6, <1>7, <1>8, <1>16
  <2>3. CASE ~(delay <= d)
    <3>1. surge[l] + IoOf(flow, l) + DueOf(flow, l, d)
            <= peak[l] + ReadRoom + InitialRoom + Paid(bucket[l].rate, d)
      BY <1>5 DEF SleepsCover
    <3>2. IoOf(flow', l) = IoOf(flow, l) /\ DueOf(flow', l, d) = DueOf(flow, l, d) + 0
      BY <2>3, <1>16
    <3>3. DueOf(flow, l, d) \in Nat
      BY <1>16
    <3> QED
      BY <3>1, <3>2, <3>3
  <2> QED
    BY <2>2, <2>3
<1> QED
  BY <1>1, <1>2, <1>4, <1>9, <1>12, <1>13, <1>14, <1>17, <1>18, <1>19, OneLimiterStep DEF x, y

(* A connection that closes, and an entry that is removed: what a limiter's
   connections may send only becomes less, and a freed limiter is as new. *)
LEMMA FreeKeeps ==
    ASSUME RateIInv, FlowsOK(flow'), entry' \in {entry, 0},
           \A f \in Pipes : flow'[f] = flow[f] \/ flow'[f].lim = 0, FreeUnheld
    PROVE  RateIInv'
<1>0. 0 \notin Limiters /\ Limiters' = Limiters
  BY DEF Limiters
<1>1. /\ bucket' = [l \in Limiters |-> IF l \in Unused' THEN NoBucket ELSE bucket[l]]
      /\ surge' = [l \in Limiters |-> IF l \in Unused' THEN 0 ELSE surge[l]]
      /\ peak' = [l \in Limiters |-> IF l \in Unused' THEN 0 ELSE peak[l]]
      /\ lowered' = [l \in Limiters |-> l \notin Unused' /\ lowered[l]]
  BY DEF FreeUnheld, Unused
<1>2. RateTypes /\ FlowsOK(flow)
  BY DEF RateIInv, RateTypes
<1>3. RateTypes'
  <2>1. entry' \in Limiters \cup {0}
    BY <1>2 DEF RateTypes
  <2>2. NoBucket \in [rate : Nat, tokens : Int]
    BY DEF NoBucket
  <2>3. /\ bucket' \in [Limiters -> [rate : Nat, tokens : Int]]
        /\ surge' \in [Limiters -> Nat] /\ peak' \in [Limiters -> Nat] /\ lowered' \in [Limiters -> BOOLEAN]
    BY <1>1, <1>2, <2>2 DEF RateTypes
  <2> QED
    BY <1>0, <2>1, <2>3 DEF RateTypes
<1>4. ASSUME NEW l \in Limiters PROVE LimiterOK(l)' /\ TokensCover(l)' /\ SleepsCover(l)'
  <2>0. InitialRoom \in Nat /\ ReadRoom \in Nat
    BY InNumbers
  <2>1. CASE l \in Unused'
    <3>1. bucket'[l] = NoBucket /\ surge'[l] = 0 /\ peak'[l] = 0 /\ ~lowered'[l]
      BY <1>1, <2>1
    <3>2. bucket'[l].rate = 0 /\ bucket'[l].tokens = 0 /\ Burst(0) = 0
      BY <3>1, RateConstants DEF NoBucket, Burst
    <3>3. \A f \in Pipes : flow'[f].lim # l
      BY <2>1 DEF Unused, Unheld
    <3>4. \A f \in Pipes : IoShare(flow'[f], l) = 0
      BY <3>3 DEF IoShare
    <3>5. ASSUME NEW d \in Nat
          PROVE  IoOf(flow', l) = 0 /\ OwedOf(flow', l) = 0 /\ DueOf(flow', l, d) = 0
      <4>1. /\ DueOf(flow', l, d) \in Nat /\ DueOf(flow', l, d) <= OwedOf(flow', l)
            /\ IoOf(flow', l) = 0 /\ OwedOf(flow', l) = 0
        BY <3>3, SumsBounded
      <4> QED
        BY <4>1
    <3>6. LimiterOK(l)'
      BY <2>1, <3>1, <3>2, <3>4 DEF LimiterOK
    <3>7. TokensCover(l)'
      <4>1. OwedOf(flow', l) = 0
        BY <3>5
      <4> QED
        BY <4>1, <2>0, <3>1, <3>2 DEF TokensCover
    <3>8. SleepsCover(l)'
      <4>1. \A d \in Nat : Paid(0, d) \in Nat
        BY PaidFacts
      <4> QED
        BY <4>1, <2>0, <3>1, <3>2, <3>5 DEF SleepsCover
    <3> QED
      BY <3>6, <3>7, <3>8
  <2>2. CASE l \notin Unused'
    <3>1. bucket'[l] = bucket[l] /\ surge'[l] = surge[l] /\ peak'[l] = peak[l] /\ lowered'[l] = lowered[l]
      BY <1>1, <1>2, <2>2 DEF RateTypes
    <3>2. l \notin Unused
      <4>1. l = entry' \/ \E f \in Pipes : flow'[f].lim = l
        BY <2>2 DEF Unused, Unheld
      <4>2. l = entry \/ \E f \in Pipes : flow[f].lim = l
        BY <4>1, <1>0
      <4> QED
        BY <4>2 DEF Unused, Unheld
    <3>3. /\ LimiterOK(l) /\ TokensCover(l) /\ SleepsCover(l) /\ surge[l] \in Nat /\ peak[l] \in Nat
          /\ bucket[l].rate \in Nat /\ bucket[l].tokens \in Int
      BY InNumbers
    <3>4. ASSUME NEW f \in Pipes
          PROVE  /\ IoShare(flow'[f], l) <= IoShare(flow[f], l)
                 /\ OwedShare(flow'[f], l) <= OwedShare(flow[f], l)
                 /\ \A d \in Nat : DueShare(flow'[f], l, d) <= DueShare(flow[f], l, d)
      <4>1. /\ IoShare(flow[f], l) \in Nat /\ OwedShare(flow[f], l) \in Nat
            /\ \A d \in Nat : DueShare(flow[f], l, d) \in Nat
        BY <1>2, FlowSums
      <4>2. CASE flow'[f] = flow[f]
        BY <4>1, <4>2
      <4>3. CASE flow'[f].lim = 0
        <5>1. /\ IoShare(flow'[f], l) = 0 /\ OwedShare(flow'[f], l) = 0
              /\ \A d \in Nat : DueShare(flow'[f], l, d) = 0
          BY <4>3, <1>0 DEF IoShare, OwedShare, DueShare
        <5> QED
          BY <4>1, <5>1
      <4> QED
        BY <4>2, <4>3
    <3>5. ASSUME NEW d \in Nat
          PROVE  /\ IoOf(flow', l) <= IoOf(flow, l) /\ OwedOf(flow', l) <= OwedOf(flow, l)
                 /\ DueOf(flow', l, d) <= DueOf(flow, l, d)
                 /\ IoOf(flow, l) \in Nat /\ OwedOf(flow, l) \in Nat /\ DueOf(flow, l, d) \in Nat
                 /\ IoOf(flow', l) \in Nat /\ OwedOf(flow', l) \in Nat /\ DueOf(flow', l, d) \in Nat
      <4> DEFINE io1 == [f \in Pipes |-> IoShare(flow[f], l)]
                 io2 == [f \in Pipes |-> IoShare(flow'[f], l)]
                 ow1 == [f \in Pipes |-> OwedShare(flow[f], l)]
                 ow2 == [f \in Pipes |-> OwedShare(flow'[f], l)]
                 du1 == [f \in Pipes |-> DueShare(flow[f], l, d)]
                 du2 == [f \in Pipes |-> DueShare(flow'[f], l, d)]
      <4>1. io1 \in [Pipes -> Nat] /\ ow1 \in [Pipes -> Nat] /\ du1 \in [Pipes -> Nat]
        BY <1>2, FlowSums
      <4>2. io2 \in [Pipes -> Nat] /\ ow2 \in [Pipes -> Nat] /\ du2 \in [Pipes -> Nat]
        BY FlowSums
      <4>3. \A f \in Pipes : io2[f] <= io1[f] /\ ow2[f] <= ow1[f] /\ du2[f] <= du1[f]
        BY <3>4
      <4>4. IsFiniteSet(Pipes)
        BY PipesCount
      <4> HIDE DEF io1, io2, ow1, ow2, du1, du2
      <4>5. SumFunction(io2) \in Nat /\ SumFunction(io1) \in Nat /\ SumFunction(io2) <= SumFunction(io1)
        BY <4>1, <4>2, <4>3, <4>4, SumMonotone
      <4>6. SumFunction(ow2) \in Nat /\ SumFunction(ow1) \in Nat /\ SumFunction(ow2) <= SumFunction(ow1)
        BY <4>1, <4>2, <4>3, <4>4, SumMonotone
      <4>7. SumFunction(du2) \in Nat /\ SumFunction(du1) \in Nat /\ SumFunction(du2) <= SumFunction(du1)
        BY <4>1, <4>2, <4>3, <4>4, SumMonotone
      <4> QED
        BY <4>5, <4>6, <4>7 DEF io1, io2, ow1, ow2, du1, du2, IoOf, OwedOf, DueOf
    <3>6. LimiterOK(l)'
      <4>1. \A f \in Pipes : IoShare(flow'[f], l) \in Nat /\ IoShare(flow[f], l) \in Nat
        BY <1>2, FlowSums
      <4>2. \A f \in Pipes : IoShare(flow'[f], l) <= peak[l]
        BY <4>1, <3>3, <3>4 DEF LimiterOK
      <4> QED
        BY <4>2, <2>2, <3>1, <3>2, <3>3 DEF LimiterOK
    <3>7. TokensCover(l)'
      <4>1. OwedOf(flow', l) <= OwedOf(flow, l) /\ OwedOf(flow', l) \in Nat /\ OwedOf(flow, l) \in Nat
        BY <3>5
      <4> QED
        BY <4>1, <2>0, <3>1, <3>3 DEF TokensCover
    <3>8. SleepsCover(l)'
      <4> SUFFICES ASSUME ~lowered[l], NEW d \in Nat
                   PROVE  surge[l] + IoOf(flow', l) + DueOf(flow', l, d)
                            <= peak[l] + ReadRoom + InitialRoom + Paid(bucket[l].rate, d)
        BY <3>1 DEF SleepsCover
      <4>1. surge[l] + IoOf(flow, l) + DueOf(flow, l, d)
              <= peak[l] + ReadRoom + InitialRoom + Paid(bucket[l].rate, d)
        BY <3>3 DEF SleepsCover
      <4>2. Paid(bucket[l].rate, d) \in Nat
        BY <3>3, PaidFacts
      <4> QED
        BY <4>1, <4>2, <2>0, <3>3, <3>5
    <3> QED
      BY <3>6, <3>7, <3>8
  <2> QED
    BY <2>1, <2>2
<1> QED
  BY <1>0, <1>3, <1>4 DEF RateIInv

LEMMA NoFlowOK ==
    /\ NoFlow \in FlowRecord /\ FlowOK(NoFlow) /\ NoFlow.lim = 0
    /\ LET x == [NoFlow EXCEPT !.pc = "unlimited"] IN x \in FlowRecord /\ FlowOK(x) /\ x.lim = 0
BY LongestInitial, PipesCount DEF NoFlow, FlowRecord, FlowOK

LEMMA HangupKeeps ==
    ASSUME RateIInv, NEW f \in Pipes, Hangup(f) PROVE RateIInv'
<1>1. flow' = [flow EXCEPT ![f] = NoFlow] /\ entry' = entry /\ FreeUnheld
  BY DEF Hangup
<1>2. FlowsOK(flow)
  BY DEF RateIInv, RateTypes
<1>3. FlowsOK(flow') /\ \A g \in Pipes : flow'[g] = flow[g] \/ flow'[g].lim = 0
  BY <1>1, <1>2, NoFlowOK DEF FlowsOK
<1> QED
  BY <1>1, <1>3, FreeKeeps

LEMMA ForgetKeeps ==
    ASSUME RateIInv, ForgetLimiter PROVE RateIInv'
<1>1. flow' = flow /\ entry' = 0 /\ FreeUnheld
  BY DEF ForgetLimiter
<1>2. FlowsOK(flow)
  BY DEF RateIInv, RateTypes
<1>3. FlowsOK(flow')
  BY <1>1, <1>2
<1> QED
  BY <1>1, <1>3, FreeKeeps

LEMMA ConnectUnlimited ==
    ASSUME RateIInv, NEW f \in Pipes, NEW initial, Connect(f, 0, initial) PROVE RateIInv'
<1>1. /\ entry' = 0 /\ FreeUnheld
      /\ flow' = [flow EXCEPT ![f] = [NoFlow EXCEPT !.pc = "unlimited"]]
  BY DEF Connect
<1>2. FlowsOK(flow)
  BY DEF RateIInv, RateTypes
<1>3. FlowsOK(flow') /\ \A g \in Pipes : flow'[g] = flow[g] \/ flow'[g].lim = 0
  BY <1>1, <1>2, NoFlowOK DEF FlowsOK
<1> QED
  BY <1>1, <1>3, FreeKeeps

(* There is a limiter for a connection that holds none: the others hold at most
   one each. *)
LEMMA SomeUnused ==
    ASSUME RateIInv, NEW f \in Pipes, flow[f].lim = 0, entry = 0
    PROVE  Min(Unused) \in Unused
<1> DEFINE others == Pipes \ {f}
           lims == [g \in others |-> flow[g].lim]
           held == {flow[g].lim : g \in others}
<1>1. IsFiniteSet(Pipes) /\ Cardinality(Pipes) \in Nat
  BY PipesCount
<1>2. IsFiniteSet(others) /\ Cardinality(others) = Cardinality(Pipes) - 1
  BY <1>1, FS_RemoveElement
<1>3. lims \in Surjection(others, held)
  BY DEF Surjection
<1>4. IsFiniteSet(held) /\ Cardinality(held) <= Cardinality(others)
  <2> HIDE DEF others, lims, held
  <2> QED
    BY <1>2, <1>3, FS_Surjection
<1>5. IsFiniteSet(Limiters) /\ Cardinality(Limiters) = Cardinality(Pipes)
  <2> DEFINE n == Cardinality(Pipes)
  <2>1. n \in Int /\ 1 \in Int
    BY <1>1
  <2> HIDE DEF n
  <2>2. IsFiniteSet(1..n) /\ Cardinality(1..n) = IF 1 > n THEN 0 ELSE n - 1 + 1
    BY <2>1, FS_Interval
  <2>3. n \in Nat
    BY <1>1 DEF n
  <2>4. Cardinality(1..n) = n
    BY <2>2, <2>3
  <2> QED
    BY <2>2, <2>4 DEF n, Limiters
<1>6. Cardinality(held) \in Nat
  BY <1>4, FS_CardinalityType
<1>7. ~(Limiters \subseteq held)
  <2> HIDE DEF held
  <2>1. Limiters \subseteq held => Cardinality(Limiters) <= Cardinality(held)
    BY <1>4, FS_Subset
  <2> QED
    BY <2>1, <1>1, <1>2, <1>4, <1>5, <1>6
<1>8. PICK l \in Limiters : l \notin held
  BY <1>7
<1>9. 0 \notin Limiters /\ Limiters \subseteq Nat
  BY <1>1 DEF Limiters
<1>10. l \in Unused
  BY <1>8, <1>9 DEF Unused, Unheld
<1>11. Unused \in SUBSET Nat
  BY <1>9 DEF Unused, Unheld
<1> QED
  BY <1>10, <1>11, MinIsMember

LEMMA ConnectLimited ==
    ASSUME RateIInv, NEW f \in Pipes, NEW limit \in SpeedLimits, limit # 0,
           NEW initial \in InitialData, Connect(f, limit, initial)
    PROVE  RateIInv'
<1> DEFINE x == flow[f]
           y == flow'[f]
           m == IF entry # 0 THEN entry ELSE Min(Unused)
           b == IF entry # 0 THEN Updated(bucket[m], limit) ELSE NewBucket(limit)
<1>0. 0 \notin Limiters /\ Limiters' = Limiters
  BY DEF Limiters
<1>1. /\ x.pc = "closed" /\ entry' = m
      /\ bucket' = [bucket EXCEPT ![m] = b]
      /\ peak' = [peak EXCEPT ![m] = Max({@, Burst(limit)})] /\ surge' = surge
      /\ lowered' = [lowered EXCEPT ![m] = @ \/ (Sleeping(m) /\ limit < bucket[m].rate)]
      /\ flow' = [flow EXCEPT ![f] =
             [NoFlow EXCEPT !.pc = "idle", !.lim = m, !.initial = initial]]
  BY DEF Connect
<1>2. RateTypes /\ FlowsOK(flow) /\ flow \in [Pipes -> FlowRecord] /\ FlowOK(x)
  BY DEF RateIInv, RateTypes, FlowsOK
<1>3. x.lim = 0
  BY <1>1, <1>2 DEF FlowOK
<1>4. m \in Limiters /\ (entry = 0 => m \in Unused) /\ (entry # 0 => m \notin Unused)
  <2>1. CASE entry # 0
    BY <2>1, <1>2 DEF RateTypes, Unused, Unheld
  <2>2. CASE entry = 0
    <3>1. Min(Unused) \in Unused
      BY <2>2, <1>3, SomeUnused
    <3> QED
      BY <2>2, <3>1 DEF Unused, Unheld
  <2> QED
    BY <2>1, <2>2
<1>5. PICK l \in Limiters : l = m
  BY <1>4
<1>6. limit \in Nat /\ Burst(limit) \in Nat /\ initial \in Nat /\ initial <= Max(InitialData)
  BY RateConstants, LongestInitial DEF Burst
<1>7. /\ LimiterOK(l) /\ TokensCover(l) /\ SleepsCover(l)
      /\ surge[l] \in Nat /\ peak[l] \in Nat /\ lowered[l] \in BOOLEAN
      /\ bucket[l].rate \in Nat /\ bucket[l].tokens \in Int
      /\ InitialRoom \in Nat /\ ReadRoom \in Nat
  BY InNumbers
<1>8. /\ y = [NoFlow EXCEPT !.pc = "idle", !.lim = l, !.initial = initial]
      /\ \A g \in Pipes \ {f} : flow'[g] = flow[g]
  BY <1>1, <1>2, <1>5
<1>9. /\ y \in FlowRecord /\ FlowOK(y) /\ y.lim = l /\ y.pc = "idle"
  <2>1. /\ y.pc = "idle" /\ y.lim = l /\ y.initial = initial /\ y.want = 0 /\ y.delay = 0
        /\ y \in FlowRecord
    <3> HIDE DEF y
    <3> QED
      BY <1>6, <1>8 DEF NoFlow, FlowRecord
  <2> QED
    BY <2>1, <1>0, <1>6, PipesCount DEF FlowOK
<1>10. FlowsOK(flow')
  BY <1>1, <1>2, <1>8, <1>9 DEF FlowsOK
<1>11. b \in [rate : Nat, tokens : Int] /\ b.rate = limit /\ b.tokens <= Burst(limit)
       /\ (entry # 0 => b.tokens <= bucket[l].tokens) /\ (entry = 0 => b.tokens = Burst(limit))
  <2>1. CASE entry # 0
    <3>1. b = [rate |-> limit, tokens |-> Min({bucket[l].tokens, Burst(limit)})]
      BY <2>1, <1>5 DEF Updated
    <3> DEFINE a == bucket[l].tokens
               c == Burst(limit)
    <3>2. a \in Int /\ c \in Int
      BY <1>6, <1>7
    <3> HIDE DEF a, c
    <3>3. Min({a, c}) \in {a, c} /\ Min({a, c}) <= a /\ Min({a, c}) <= c
      BY <3>2, MaxOfTwo
    <3> HIDE DEF b
    <3>4. b = [rate |-> limit, tokens |-> Min({a, c})]
      BY <3>1 DEF a, c
    <3>5. b.rate = limit /\ b.tokens = Min({a, c}) /\ b \in [rate : Nat, tokens : Int]
      BY <3>2, <3>3, <3>4, <1>6
    <3> QED
      BY <3>3, <3>5, <2>1 DEF a, c
  <2>2. CASE entry = 0
    BY <2>2, <1>6 DEF NewBucket
  <2> QED
    BY <2>1, <2>2
<1>12. Max({peak[l], Burst(limit)}) \in Nat /\ Max({peak[l], Burst(limit)}) >= peak[l]
       /\ Max({peak[l], Burst(limit)}) >= Burst(limit)
  <2> DEFINE a == peak[l]
             c == Burst(limit)
  <2>1. a \in Nat /\ c \in Nat
    BY <1>6, <1>7
  <2> HIDE DEF a, c
  <2>2. a \in Int /\ c \in Int
    BY <2>1
  <2>3. Max({a, c}) \in {a, c} /\ Max({a, c}) >= a /\ Max({a, c}) >= c
    BY <2>2, MaxOfTwo
  <2>4. Max({a, c}) \in Nat
    BY <2>1, <2>3
  <2> QED
    BY <2>3, <2>4 DEF a, c
<1> HIDE DEF b, m
<1>13. /\ bucket \in [Limiters -> [rate : Nat, tokens : Int]] /\ surge \in [Limiters -> Nat]
       /\ peak \in [Limiters -> Nat] /\ lowered \in [Limiters -> BOOLEAN]
  BY <1>2 DEF RateTypes
<1>14. /\ bucket' \in [Limiters -> [rate : Nat, tokens : Int]] /\ bucket'[l] = b
       /\ \A k \in Limiters \ {l} : bucket'[k] = bucket[k]
  BY <1>1, <1>5, <1>11, <1>13
<1>15. /\ peak' \in [Limiters -> Nat] /\ peak'[l] >= peak[l] /\ peak'[l] >= Burst(limit) /\ peak'[l] \in Nat
       /\ \A k \in Limiters \ {l} : peak'[k] = peak[k]
  <2>1. peak' = [peak EXCEPT ![l] = Max({peak[l], Burst(limit)})]
    BY <1>1, <1>5
  <2>2. peak'[l] = Max({peak[l], Burst(limit)})
    BY <2>1, <1>13
  <2> QED
    BY <2>1, <2>2, <1>12, <1>13
<1>16. /\ lowered' \in [Limiters -> BOOLEAN]
       /\ ~lowered'[l] => ~lowered[l] /\ ~(Sleeping(l) /\ limit < bucket[l].rate)
       /\ \A k \in Limiters \ {l} : lowered'[k] = lowered[k]
  BY <1>1, <1>5, <1>13
<1>17. RateTypes'
  BY <1>0, <1>1, <1>5, <1>10, <1>13, <1>14, <1>15, <1>16 DEF RateTypes
<1>18. \A k \in Limiters \ {l} : k \in Unused' <=> k \in Unused
  <2>1. entry' = l /\ entry \in {0, l}
    BY <1>1, <1>5 DEF m
  <2> QED
    BY <2>1, <1>0, <1>3, <1>5, <1>8, <1>9 DEF Unused, Unheld
<1>19. l \notin Unused'
  BY <1>1, <1>5 DEF Unused, Unheld
<1> HIDE DEF x, y
<1>20. /\ IoShare(x, l) = 0 /\ IoShare(y, l) = 0 /\ OwedShare(x, l) = 0 /\ OwedShare(y, l) = 0
       /\ \A d \in Nat : DueShare(x, l, d) = 0 /\ DueShare(y, l, d) = 0
  BY <1>1, <1>9 DEF IoShare, OwedShare, DueShare
<1>21. ASSUME NEW d \in Nat
       PROVE  /\ IoOf(flow', l) = IoOf(flow, l) /\ OwedOf(flow', l) = OwedOf(flow, l)
              /\ DueOf(flow', l, d) = DueOf(flow, l, d)
              /\ IoOf(flow, l) \in Nat /\ OwedOf(flow, l) \in Nat /\ DueOf(flow, l, d) \in Nat
  BY <1>2, <1>8, <1>10, <1>20, StepSums DEF x, y
<1>22. LimiterOK(l)'
  <2>1. \A g \in Pipes : IoShare(flow'[g], l) = IoShare(flow[g], l) /\ IoShare(flow[g], l) \in Nat
    BY <1>2, <1>8, <1>20, FlowSums DEF x, y
  <2>2. \A g \in Pipes : IoShare(flow'[g], l) <= peak'[l]
    BY <2>1, <1>7, <1>15 DEF LimiterOK
  <2>3. bucket'[l].rate = limit /\ bucket'[l].tokens <= Burst(limit)
    BY <1>11, <1>14
  <2> QED
    BY <2>2, <2>3, <1>15, <1>19 DEF LimiterOK
<1>23. entry = 0 => /\ surge[l] = 0 /\ OwedOf(flow, l) = 0 /\ IoOf(flow, l) = 0
                    /\ \A d \in Nat : DueOf(flow, l, d) = 0
  <2> SUFFICES ASSUME entry = 0
               PROVE  /\ surge[l] = 0 /\ OwedOf(flow, l) = 0 /\ IoOf(flow, l) = 0
                      /\ \A d \in Nat : DueOf(flow, l, d) = 0
    OBVIOUS
  <2>1. l \in Unused
    BY <1>4, <1>5
  <2>2. surge[l] = 0 /\ \A g \in Pipes : flow[g].lim # l
    BY <2>1, <1>7 DEF LimiterOK, Unused, Unheld
  <2>3. ASSUME NEW d \in Nat
        PROVE  /\ DueOf(flow, l, d) \in Nat /\ DueOf(flow, l, d) <= OwedOf(flow, l)
               /\ IoOf(flow, l) = 0 /\ OwedOf(flow, l) = 0
    BY <2>2, <1>2, SumsBounded
  <2> QED
    BY <2>2, <2>3
<1>24. TokensCover(l)'
  <2>1. OwedOf(flow', l) = OwedOf(flow, l) /\ OwedOf(flow, l) \in Nat
    BY <1>21
  <2>2. b.tokens \in Int
    BY <1>11
  <2>3. surge[l] + b.tokens + OwedOf(flow, l) <= peak'[l] + InitialRoom
    <3>1. CASE entry = 0
      BY <3>1, <1>6, <1>7, <1>11, <1>15, <1>23
    <3>2. CASE entry # 0
      <4>1. surge[l] + bucket[l].tokens + OwedOf(flow, l) <= peak[l] + InitialRoom
        BY <1>7 DEF TokensCover
      <4> QED
        BY <4>1, <3>2, <2>1, <2>2, <1>7, <1>11, <1>15
    <3> QED
      BY <3>1, <3>2
  <2> QED
    BY <2>1, <2>3, <1>1, <1>14 DEF TokensCover
<1>25. SleepsCover(l)'
  <2> SUFFICES ASSUME ~lowered'[l], NEW d \in Nat
               PROVE  surge[l] + IoOf(flow', l) + DueOf(flow', l, d)
                        <= peak'[l] + ReadRoom + InitialRoom + Paid(limit, d)
    <3>1. bucket'[l].rate = limit
      BY <1>11, <1>14
    <3> QED
      BY <3>1, <1>1 DEF SleepsCover
  <2>1. /\ Paid(limit, d) \in Nat /\ Paid(bucket[l].rate, d) \in Nat /\ Paid(bucket[l].rate, 0) = 0
        /\ bucket[l].rate <= limit => Paid(bucket[l].rate, d) <= Paid(limit, d)
    BY <1>6, <1>7, PaidFacts
  <2>2. \A e \in Nat : surge[l] + IoOf(flow, l) + DueOf(flow, l, e)
                         <= peak[l] + ReadRoom + InitialRoom + Paid(bucket[l].rate, e)
    BY <1>7, <1>16 DEF SleepsCover
  <2>3. CASE bucket[l].rate <= limit
    <3>1. surge[l] + IoOf(flow, l) + DueOf(flow, l, d)
            <= peak[l] + ReadRoom + InitialRoom + Paid(bucket[l].rate, d)
      BY <2>2
    <3> QED
      BY <3>1, <2>1, <2>3, <1>7, <1>15, <1>21
  <2>4. CASE ~Sleeping(l)
    <3>1. \A g \in Pipes : DueShare(flow[g], l, d) = DueShare(flow[g], l, 0)
      <4> SUFFICES ASSUME NEW g \in Pipes PROVE DueShare(flow[g], l, d) = DueShare(flow[g], l, 0)
        OBVIOUS
      <4>1. flow[g].delay \in Nat
        BY <1>2 DEF FlowRecord
      <4>2. flow[g].lim = l => flow[g].delay = 0
        BY <4>1, <2>4 DEF Sleeping
      <4>3. 0 <= d
        OBVIOUS
      <4> QED
        BY <4>2, <4>3 DEF DueShare
    <3>2. DueOf(flow, l, d) = DueOf(flow, l, 0)
      <4>1. [g \in Pipes |-> DueShare(flow[g], l, d)] = [g \in Pipes |-> DueShare(flow[g], l, 0)]
        BY <3>1
      <4> QED
        BY <4>1 DEF DueOf
    <3>3. surge[l] + IoOf(flow, l) + DueOf(flow, l, 0)
            <= peak[l] + ReadRoom + InitialRoom + Paid(bucket[l].rate, 0)
      BY <2>2
    <3> QED
      BY <3>2, <3>3, <2>1, <1>7, <1>15, <1>21
  <2> QED
    BY <2>3, <2>4, <1>6, <1>7, <1>16
<1> QED
  BY <1>1, <1>3, <1>8, <1>9, <1>14, <1>15, <1>16, <1>17, <1>18, <1>22, <1>24, <1>25,
     OneLimiterStep DEF x, y

(* A step of the clock.  A sleep that was due within d + 1 is due within d. *)
LEMMA RefillKeeps ==
    ASSUME RateIInv, Refill PROVE RateIInv'
<1>0. Limiters' = Limiters /\ RateTypes /\ FlowsOK(flow) /\ flow \in [Pipes -> FlowRecord]
  BY DEF Limiters, RateIInv, RateTypes, FlowsOK
<1>1. /\ bucket' = [l \in Limiters |->
             IF l \in Unused THEN bucket[l]
             ELSE [bucket[l] EXCEPT !.tokens = Min({@ + bucket[l].rate, Burst(bucket[l].rate)})]]
      /\ surge' = [l \in Limiters |->
             IF l \in Unused THEN surge[l] ELSE Max({surge[l] - bucket[l].rate, 0})]
      /\ flow' = [f \in Pipes |-> [flow[f] EXCEPT !.delay = Max({@ - 1, 0})]]
      /\ entry' = entry /\ peak' = peak /\ lowered' = lowered
  BY DEF Refill
<1>2. ASSUME NEW f \in Pipes
      PROVE  /\ flow'[f] \in FlowRecord /\ FlowOK(flow'[f]) /\ flow'[f].pc = flow[f].pc
             /\ flow'[f].lim = flow[f].lim /\ flow'[f].initial = flow[f].initial
             /\ flow'[f].want = flow[f].want
             /\ \A d \in Nat : flow'[f].delay <= d <=> flow[f].delay <= d + 1
  <2> DEFINE x == flow[f]
             y == flow'[f]
             n == x.delay - 1
             e == Max({n, 0})
  <2>1. x \in FlowRecord /\ FlowOK(x) /\ x.delay \in Nat
    BY <1>0 DEF FlowsOK, FlowRecord
  <2>2. y = [x EXCEPT !.delay = e]
    BY <1>1
  <2>3. n \in Int /\ 0 \in Int
    BY <2>1
  <2>4. e \in {n, 0} /\ e >= n /\ e >= 0
    <3> DEFINE z == 0
    <3> HIDE DEF n, z
    <3>1. Max({n, z}) \in {n, z} /\ Max({n, z}) >= n /\ Max({n, z}) >= z
      BY <2>3, MaxOfTwo DEF z
    <3> QED
      BY <3>1 DEF z
  <2>5. e \in Nat /\ (e > 0 => x.delay > 0) /\ \A d \in Nat : e <= d <=> x.delay <= d + 1
    <3> HIDE DEF e
    <3> QED
      BY <2>1, <2>3, <2>4
  <2> HIDE DEF x, y, e
  <2>6. /\ y \in FlowRecord /\ y.pc = x.pc /\ y.lim = x.lim /\ y.initial = x.initial
        /\ y.want = x.want /\ y.delay = e
    BY <2>1, <2>2, <2>5 DEF FlowRecord
  <2>7. FlowOK(y)
    BY <2>1, <2>5, <2>6 DEF FlowOK
  <2> QED
    BY <2>5, <2>6, <2>7 DEF x, y
<1>3. FlowsOK(flow')
  BY <1>1, <1>2 DEF FlowsOK
<1>4. Unused' = Unused
  BY <1>1, <1>2, UnusedSame
<1>5. ASSUME NEW l \in Limiters
      PROVE  /\ bucket'[l] \in [rate : Nat, tokens : Int] /\ bucket'[l].rate = bucket[l].rate
             /\ bucket'[l].tokens <= bucket[l].tokens + bucket[l].rate
             /\ bucket'[l].tokens <= Burst(bucket[l].rate)
             /\ surge'[l] \in Nat
             /\ surge'[l] = surge[l] - bucket[l].rate \/ surge'[l] = 0
             /\ l \in Unused => bucket'[l] = bucket[l] /\ surge'[l] = surge[l]
  <2>1. /\ LimiterOK(l) /\ surge[l] \in Nat /\ bucket[l] \in [rate : Nat, tokens : Int]
        /\ bucket[l].rate \in Nat /\ bucket[l].tokens \in Int /\ Burst(bucket[l].rate) \in Nat
    BY InNumbers
  <2>2. CASE l \in Unused
    <3>1. bucket'[l] = bucket[l] /\ surge'[l] = surge[l]
      BY <1>1, <2>2
    <3>2. bucket[l] = NoBucket /\ surge[l] = 0
      BY <2>1, <2>2 DEF LimiterOK
    <3>3. bucket[l].rate = 0 /\ bucket[l].tokens = 0 /\ Burst(0) = 0
      BY <3>2, RateConstants DEF NoBucket, Burst
    <3> QED
      BY <3>1, <3>2, <3>3, <2>1
  <2>3. CASE l \notin Unused
    <3> DEFINE a == bucket[l].tokens + bucket[l].rate
               c == Burst(bucket[l].rate)
               n == surge[l] - bucket[l].rate
               z == 0
    <3>1. a \in Int /\ c \in Int /\ n \in Int /\ z \in Int
      BY <2>1
    <3>2. bucket'[l] = [bucket[l] EXCEPT !.tokens = Min({a, c})] /\ surge'[l] = Max({n, z})
      BY <1>1, <2>3
    <3> HIDE DEF a, c, n, z
    <3>3. Min({a, c}) \in {a, c} /\ Min({a, c}) <= a /\ Min({a, c}) <= c
      BY <3>1, MaxOfTwo
    <3>4. Max({n, z}) \in {n, z} /\ Max({n, z}) >= n /\ Max({n, z}) >= z
      BY <3>1, MaxOfTwo
    <3>5. /\ bucket'[l] \in [rate : Nat, tokens : Int] /\ bucket'[l].rate = bucket[l].rate
          /\ bucket'[l].tokens = Min({a, c})
      BY <3>1, <3>2, <3>3, <2>1
    <3>6. surge'[l] \in Nat /\ (surge'[l] = n \/ surge'[l] = 0)
      BY <3>1, <3>2, <3>4 DEF z
    <3> QED
      BY <3>3, <3>5, <3>6, <2>3 DEF a, c, n
  <2> QED
    BY <2>2, <2>3
<1>6. RateTypes'
  <2>1. bucket' \in [Limiters -> [rate : Nat, tokens : Int]] /\ surge' \in [Limiters -> Nat]
    BY <1>1, <1>5
  <2> QED
    BY <2>1, <1>0, <1>1, <1>3 DEF RateTypes
<1>7. ASSUME NEW l \in Limiters PROVE LimiterOK(l)' /\ TokensCover(l)' /\ SleepsCover(l)'
  <2>1. /\ LimiterOK(l) /\ TokensCover(l) /\ SleepsCover(l)
        /\ surge[l] \in Nat /\ peak[l] \in Nat /\ bucket[l].rate \in Nat /\ bucket[l].tokens \in Int
        /\ InitialRoom \in Nat /\ ReadRoom \in Nat /\ Burst(bucket[l].rate) \in Nat
    BY InNumbers
  <2>2. bucket'[l].rate = bucket[l].rate /\ bucket'[l].tokens \in Int /\ surge'[l] \in Nat
    BY <1>5
  <2>3. \A f \in Pipes : /\ IoShare(flow'[f], l) = IoShare(flow[f], l)
                         /\ OwedShare(flow'[f], l) = OwedShare(flow[f], l)
                         /\ \A d \in Nat : DueShare(flow'[f], l, d) = DueShare(flow[f], l, d + 1)
    BY <1>2 DEF IoShare, OwedShare, DueShare
  <2>4. ASSUME NEW d \in Nat
        PROVE  /\ IoOf(flow', l) = IoOf(flow, l) /\ OwedOf(flow', l) = OwedOf(flow, l)
               /\ DueOf(flow', l, d) = DueOf(flow, l, d + 1)
               /\ IoOf(flow, l) \in Nat /\ OwedOf(flow, l) \in Nat /\ DueOf(flow, l, d + 1) \in Nat
               /\ OwedOf(flow, l) <= InitialRoom /\ DueOf(flow, l, d + 1) <= OwedOf(flow, l)
               /\ IoOf(flow, l) <= peak[l] + ReadRoom
    <3>1. /\ [f \in Pipes |-> IoShare(flow'[f], l)] = [f \in Pipes |-> IoShare(flow[f], l)]
          /\ [f \in Pipes |-> OwedShare(flow'[f], l)] = [f \in Pipes |-> OwedShare(flow[f], l)]
          /\ [f \in Pipes |-> DueShare(flow'[f], l, d)] = [f \in Pipes |-> DueShare(flow[f], l, d + 1)]
      BY <2>3
    <3>2. /\ IoOf(flow', l) = IoOf(flow, l) /\ OwedOf(flow', l) = OwedOf(flow, l)
          /\ DueOf(flow', l, d) = DueOf(flow, l, d + 1)
      BY <3>1 DEF IoOf, OwedOf, DueOf
    <3>3. d + 1 \in Nat
      OBVIOUS
    <3>4. /\ IoOf(flow, l) \in Nat /\ OwedOf(flow, l) \in Nat /\ DueOf(flow, l, d + 1) \in Nat
          /\ OwedOf(flow, l) <= InitialRoom /\ DueOf(flow, l, d + 1) <= OwedOf(flow, l)
          /\ \A f \in Pipes : IoOf(flow, l) <= IoShare(flow[f], l) + ReadRoom
      <4> DEFINE e == d + 1
      <4>1. e \in Nat
        BY <3>3
      <4> HIDE DEF e
      <4>2. /\ IoOf(flow, l) \in Nat /\ OwedOf(flow, l) \in Nat /\ DueOf(flow, l, e) \in Nat
            /\ OwedOf(flow, l) <= InitialRoom /\ DueOf(flow, l, e) <= OwedOf(flow, l)
            /\ \A f \in Pipes : IoOf(flow, l) <= IoShare(flow[f], l) + ReadRoom
        BY <4>1, <1>0, SumsBounded
      <4> QED
        BY <4>2 DEF e
    <3>5. PICK f \in Pipes : TRUE
      <4>1. Pipes = {} => Cardinality(Pipes) = 0
        BY FS_EmptySet
      <4>2. Pipes # {}
        BY <4>1 DEF Limiters
      <4> QED
        BY <4>2
    <3>6. IoShare(flow[f], l) \in Nat /\ IoShare(flow[f], l) <= peak[l]
      BY <1>0, <2>1, FlowSums DEF LimiterOK
    <3> QED
      BY <3>2, <3>4, <3>6, <2>1
  <2>5. LimiterOK(l)'
    BY <1>1, <1>4, <1>5, <2>1, <2>2, <2>3 DEF LimiterOK
  <2>6. TokensCover(l)'
    <3>1. OwedOf(flow', l) = OwedOf(flow, l) /\ OwedOf(flow, l) \in Nat /\ OwedOf(flow, l) <= InitialRoom
      BY <2>4
    <3>2. surge[l] + bucket[l].tokens + OwedOf(flow, l) <= peak[l] + InitialRoom
      BY <2>1 DEF TokensCover
    <3>3. Burst(bucket[l].rate) <= peak[l]
      BY <2>1 DEF LimiterOK
    <3>4. CASE surge'[l] = surge[l] - bucket[l].rate
      <4>1. bucket'[l].tokens <= bucket[l].tokens + bucket[l].rate
        BY <1>5
      <4>2. surge'[l] + bucket'[l].tokens + OwedOf(flow, l) <= peak[l] + InitialRoom
        BY <4>1, <3>1, <3>2, <3>4, <2>1, <2>2
      <4> QED
        BY <4>2, <3>1, <1>1 DEF TokensCover
    <3>5. CASE surge'[l] = 0
      <4>1. bucket'[l].tokens <= Burst(bucket[l].rate)
        BY <1>5
      <4>2. surge'[l] + bucket'[l].tokens + OwedOf(flow, l) <= peak[l] + InitialRoom
        BY <4>1, <3>1, <3>3, <3>5, <2>1, <2>2
      <4> QED
        BY <4>2, <3>1, <1>1 DEF TokensCover
    <3> QED
      BY <3>4, <3>5, <1>5
  <2>7. SleepsCover(l)'
    <3> SUFFICES ASSUME ~lowered[l], NEW d \in Nat
                 PROVE  surge'[l] + IoOf(flow', l) + DueOf(flow', l, d)
                          <= peak[l] + ReadRoom + InitialRoom + Paid(bucket[l].rate, d)
      BY <1>1, <2>2 DEF SleepsCover
    <3>1. Paid(bucket[l].rate, d) \in Nat /\ d + 1 \in Nat
          /\ Paid(bucket[l].rate, d + 1) = Paid(bucket[l].rate, d) + bucket[l].rate
      <4>1. \A e \in Nat : /\ Paid(bucket[l].rate, e) \in Nat
                           /\ Paid(bucket[l].rate, e + 1) = Paid(bucket[l].rate, e) + bucket[l].rate
        BY <2>1, PaidFacts
      <4> QED
        BY <4>1
    <3>2. surge[l] + IoOf(flow, l) + DueOf(flow, l, d + 1)
            <= peak[l] + ReadRoom + InitialRoom + Paid(bucket[l].rate, d + 1)
      BY <3>1, <2>1 DEF SleepsCover
    <3>3. /\ IoOf(flow', l) = IoOf(flow, l) /\ DueOf(flow', l, d) = DueOf(flow, l, d + 1)
          /\ IoOf(flow, l) \in Nat /\ OwedOf(flow, l) \in Nat /\ DueOf(flow, l, d + 1) \in Nat
          /\ OwedOf(flow, l) <= InitialRoom /\ DueOf(flow, l, d + 1) <= OwedOf(flow, l)
          /\ IoOf(flow, l) <= peak[l] + ReadRoom
      BY <2>4
    <3>4. CASE surge'[l] = surge[l] - bucket[l].rate
      BY <3>1, <3>2, <3>3, <3>4, <2>1
    <3>5. CASE surge'[l] = 0
      BY <3>1, <3>3, <3>5, <2>1
    <3> QED
      BY <3>4, <3>5, <1>5
  <2> QED
    BY <2>5, <2>6, <2>7
<1> QED
  BY <1>0, <1>6, <1>7 DEF RateIInv

LEMMA RateInitially == RateInit => RateIInv
<1> SUFFICES ASSUME RateInit PROVE RateIInv
  OBVIOUS
<1>1. /\ entry = 0 /\ bucket = [l \in Limiters |-> NoBucket] /\ flow = [f \in Pipes |-> NoFlow]
      /\ surge = [l \in Limiters |-> 0] /\ peak = [l \in Limiters |-> 0]
      /\ lowered = [l \in Limiters |-> FALSE]
  BY DEF RateInit
<1>2. FlowsOK(flow)
  BY <1>1, NoFlowOK DEF FlowsOK
<1>3. RateTypes
  BY <1>1, <1>2 DEF RateTypes, NoBucket
<1>4. ASSUME NEW l \in Limiters PROVE LimiterOK(l) /\ TokensCover(l) /\ SleepsCover(l)
  <2>1. 0 \notin Limiters /\ \A f \in Pipes : flow[f].lim # l
    BY <1>1, NoFlowOK DEF Limiters
  <2>2. l \in Unused
    BY <2>1, <1>1 DEF Unused, Unheld
  <2>3. bucket[l] = NoBucket /\ surge[l] = 0 /\ peak[l] = 0 /\ ~lowered[l]
        /\ bucket[l].rate = 0 /\ bucket[l].tokens = 0 /\ Burst(0) = 0
    BY <1>1, RateConstants DEF NoBucket, Burst
  <2>4. \A f \in Pipes : IoShare(flow[f], l) = 0
    BY <2>1 DEF IoShare
  <2>5. ASSUME NEW d \in Nat
        PROVE  IoOf(flow, l) = 0 /\ OwedOf(flow, l) = 0 /\ DueOf(flow, l, d) = 0
    <3>1. /\ DueOf(flow, l, d) \in Nat /\ DueOf(flow, l, d) <= OwedOf(flow, l)
          /\ IoOf(flow, l) = 0 /\ OwedOf(flow, l) = 0
      BY <2>1, <1>2, SumsBounded
    <3> QED
      BY <3>1
  <2>6. InitialRoom \in Nat /\ ReadRoom \in Nat
    <3>1. Pipes = {} => Cardinality(Pipes) = 0
      BY FS_EmptySet
    <3>2. Pipes # {}
      BY <3>1 DEF Limiters
    <3> QED
      BY <3>2, PipesCount
  <2>7. LimiterOK(l)
    BY <2>2, <2>3, <2>4 DEF LimiterOK
  <2>8. TokensCover(l)
    <3>1. OwedOf(flow, l) = 0
      BY <2>5
    <3> QED
      BY <3>1, <2>3, <2>6 DEF TokensCover
  <2>9. SleepsCover(l)
    <3>1. \A d \in Nat : Paid(0, d) \in Nat
      BY PaidFacts
    <3> QED
      BY <3>1, <2>3, <2>5, <2>6 DEF SleepsCover
  <2> QED
    BY <2>7, <2>8, <2>9
<1> QED
  BY <1>3, <1>4 DEF RateIInv

LEMMA RateStep == RateIInv /\ [RateNext]_rateVars => RateIInv'
<1> SUFFICES ASSUME RateIInv, [RateNext]_rateVars PROVE RateIInv'
  OBVIOUS
<1>1. ASSUME NEW f \in Pipes, NEW limit \in SpeedLimits, NEW i \in InitialData, Connect(f, limit, i)
      PROVE  RateIInv'
  BY <1>1, ConnectLimited, ConnectUnlimited
<1>2. ASSUME NEW f \in Pipes, Reserve(f) \/ SendReserved(f) \/ Allow(f) \/ Hangup(f)
      PROVE  RateIInv'
  BY <1>2, ReserveKeeps, SendReservedKeeps, AllowKeeps, HangupKeeps
<1>3. ASSUME NEW f \in Pipes, NEW n \in 0..Max({MaxRead, MaxDatagram}), Ask(f, n) \/ Move(f, n)
      PROVE  RateIInv'
  <2>1. n \in Nat
    <3> DEFINE a == MaxRead
               c == MaxDatagram
    <3>1. a \in Int /\ c \in Int
      BY RateConstants
    <3> HIDE DEF a, c
    <3>2. Max({a, c}) \in {a, c}
      BY <3>1, MaxOfTwo
    <3>3. Max({a, c}) \in Int
      BY <3>1, <3>2
    <3>4. n \in 0..Max({a, c})
      BY DEF a, c
    <3> QED
      BY <3>3, <3>4
  <2> QED
    BY <1>3, <2>1, AskKeeps, MoveKeeps
<1>4. CASE ForgetLimiter \/ Refill
  BY <1>4, ForgetKeeps, RefillKeeps
<1>5. CASE UNCHANGED rateVars
  BY <1>5 DEF rateVars, RateIInv, RateTypes, LimiterOK, TokensCover, SleepsCover, Unused, Unheld,
              FlowsOK, Limiters
<1>6. \A n \in 1..Max({MaxRead, MaxDatagram}) : n \in 0..Max({MaxRead, MaxDatagram})
  OBVIOUS
<1> QED
  BY <1>1, <1>2, <1>3, <1>4, <1>5, <1>6 DEF RateNext

LEMMA RateIInvHolds == RateIInv => RateHeld
<1> SUFFICES ASSUME RateIInv, NEW l \in Limiters, ~lowered[l]
             PROVE  surge[l] <= peak[l] + ReadRoom + InitialRoom
  BY DEF RateHeld, ReadRoom, InitialRoom
<1>1. /\ FlowsOK(flow) /\ SleepsCover(l) /\ surge[l] \in Nat /\ peak[l] \in Nat /\ bucket[l].rate \in Nat
      /\ InitialRoom \in Nat /\ ReadRoom \in Nat
  BY InNumbers
<1>2. Paid(bucket[l].rate, 0) = 0
  BY <1>1, PaidFacts
<1>3. surge[l] + IoOf(flow, l) + DueOf(flow, l, 0)
        <= peak[l] + ReadRoom + InitialRoom + Paid(bucket[l].rate, 0)
  BY <1>1 DEF SleepsCover
<1>4. IoOf(flow, l) \in Nat /\ DueOf(flow, l, 0) \in Nat
  BY <1>1, SumsBounded
<1> QED
  BY <1>1, <1>2, <1>3, <1>4

(* For any number of connections, any limits and any lengths: the connections of a
   user send no more ahead of the limit than the burst, the initial data and one read
   of each but one, unless the limit fell while a connection slept off a debt. *)
THEOREM RateAlwaysHeld == RateSpec => []RateHeld
BY RateInitially, RateStep, RateIInvHolds, PTL DEF RateSpec


-----------------------------------------------------------------------------
(* TrafficTracker.  Traffic is counted in one place (CountedOnce), none vanishes
   (Accounted), a process bills a unit at most once (BilledOncePerLife), and a
   process with one snapshot writer replays nothing that is settled
   (SettledNotReplayed).  The later parts build on the invariant IInv of the first. *)

(* What every step but the moves of traffic relies on: an action changes the
   variables of its own part only.  The grouped tuples are expanded once. *)
USE DEF conns, pushing, writing, history, Keys, Writers, TrafficMap, NoTraffic

LEMMA OwnerType == \A c \in Conns : Owner[c] \in Keys
BY TrackerConstants

LEMMA TypeInit == Init => TypeOK
BY TrackerConstants DEF Init, TypeOK, Types, Control, Phases, Persisting

LEMMA TypesStep == Types /\ [Next]_vars => Types'
<1> SUFFICES ASSUME Types, [Next]_vars PROVE Types'
  OBVIOUS
<1> USE TrackerConstants DEF Types, Phases
<1>1. ASSUME NEW c \in Conns, Open(c) PROVE Types'
  BY <1>1 DEF Open
<1>2. ASSUME NEW c \in Conns, NEW b \in Units, Carry(c, b) PROVE Types'
  BY <1>2 DEF Carry
<1>3. ASSUME NEW c \in Conns, SweepSwap(c) PROVE Types'
  BY <1>3 DEF SweepSwap
<1>4. CASE SweepAdd
  BY <1>4, OwnerType DEF SweepAdd
<1>5. ASSUME NEW c \in Conns, DropDeregister(c) PROVE Types'
  BY <1>5 DEF DropDeregister
<1>6. ASSUME NEW c \in Conns, DropRecord(c) PROVE Types'
  BY <1>6, OwnerType DEF DropRecord, FlushPending
<1>7. ASSUME NEW n \in Nodes, NEW last \in BOOLEAN, StartPush(n, last)
      PROVE  Types'
  <2>1. todo' \in [Nodes -> SUBSET Users]
    BY <1>7 DEF StartPush
  <2>2. push' \in [Nodes -> Phases]
    BY <1>7 DEF StartPush
  <2>3. final' \in [Nodes -> BOOLEAN]
    BY <1>7, Zenon DEF StartPush
  <2> QED
    BY <1>7, <2>1, <2>2, <2>3 DEF StartPush
<1>8. ASSUME NEW n \in Nodes, NEW u \in Users, TakeShard(n, u) PROVE Types'
  <2>1. todo' \in [Nodes -> SUBSET Users]
    BY <1>8 DEF TakeShard
  <2>2. pending' \in TrafficMap /\ payload' \in TrafficMap
    <3>1. <<n, u>> \in Keys
      OBVIOUS
    <3>2. CASE Reportable(<<n, u>>)
      <4>1. /\ payload' = [payload EXCEPT ![<<n, u>>] = pending[<<n, u>>]]
            /\ pending' = [pending EXCEPT ![<<n, u>>] = {}]
        BY <1>8, <3>2 DEF TakeShard
      <4>2. pending[<<n, u>>] \in SUBSET Units
        BY <3>1
      <4> HIDE DEF Keys
      <4>3. payload' \in [Keys -> SUBSET Units]
        BY <4>1, <4>2 
      <4>4. pending' \in [Keys -> SUBSET Units]
        BY <4>1
      <4> QED
        BY <4>3, <4>4
    <3>3. CASE ~Reportable(<<n, u>>)
      BY <1>8, <3>3 DEF TakeShard
    <3> QED
      BY <3>2, <3>3
  <2> QED
    BY <1>8, <2>1, <2>2 DEF TakeShard
<1>9. ASSUME NEW n \in Nodes, NEW u \in Users, RestoreShard(n, u) PROVE Types'
  BY <1>9 DEF RestoreShard
<1>10. ASSUME NEW n \in Nodes, NEW u \in Users, RemoveUser(n, u) PROVE Types'
  BY <1>10 DEF RemoveUser
<1>11. ASSUME NEW n \in Nodes, Taken(n) PROVE Types'
  BY <1>11 DEF Taken
<1>12. ASSUME NEW n \in Nodes, PanelApply(n) PROVE Types'
  <2> DEFINE p == PayloadOf(n)
  <2> HIDE DEF p
  <2>1. billed' = [b \in Units |-> IF b \in p /\ billed[b] < MaxBill
                                   THEN billed[b] + 1 ELSE billed[b]]
    BY <1>12 DEF PanelApply, p
  <2>2. billed' \in [Units -> Nat]
    BY <2>1
  <2> QED
    BY <1>12, <2>2 DEF PanelApply
<1>13. ASSUME NEW n \in Nodes, PushOk(n) PROVE Types'
  <2>1. PayloadOf(n) \in SUBSET Units
    BY DEF PayloadOf
  <2>2. payload' \in TrafficMap
    BY <1>13 DEF PushOk
  <2> QED
    BY <1>13, <2>1, <2>2 DEF PushOk
<1>14. ASSUME NEW n \in Nodes, PushErr(n) PROVE Types'
  BY <1>14 DEF PushErr
<1>15. ASSUME NEW n \in Nodes, Restored(n) PROVE Types'
  BY <1>15 DEF Restored
<1>16. ASSUME NEW n \in Nodes, AliveReported(n) PROVE Types'
  BY <1>16 DEF AliveReported
<1>17. ASSUME NEW n \in Nodes, AliveFailed(n) PROVE Types'
  BY <1>17 DEF AliveFailed, EndPush
<1>18. ASSUME NEW w \in Writers, Capture(w) PROVE Types'
  BY <1>18 DEF Capture
<1>19. ASSUME NEW w \in Writers, NEW ok \in BOOLEAN, WriteDone(w, ok)
       PROVE  Types'
  <2>1. /\ job' \in [Writers -> {"none", "queued", "captured"}]
        /\ image' \in [Writers -> TrafficMap]
        /\ disk' \in TrafficMap
    BY <1>19 DEF WriteDone
  <2>2. life' \in {"running", "stopping", "exiting", "failed", "halted"}
    BY <1>19 DEF WriteDone
  <2>3. /\ push' \in [Nodes -> Phases]
        /\ acked' \in [Nodes -> SUBSET Units]
        /\ settled' \in SUBSET Units
    <3>1. CASE w \in Nodes
      <4>1. AfterPersist(w, ok) \in {"alive", "stopped", "idle"}
        BY DEF AfterPersist, EndPush
      <4> QED
        BY <1>19, <3>1, <4>1 DEF WriteDone
    <3>2. CASE w \notin Nodes
      BY <1>19, <3>2 DEF WriteDone
    <3> QED
      BY <3>1, <3>2
  <2> QED
    BY <1>19, <2>1, <2>2, <2>3 DEF WriteDone
<1>20. CASE Signal
  BY <1>20 DEF Signal
<1>21. CASE JoinAll
  BY <1>21 DEF JoinAll
<1>22. CASE Exit \/ ExitFailed \/ Crash
  <2>1. Stop
    BY <1>22 DEF Exit, ExitFailed, Crash
  <2>2. InMemory \in SUBSET Units
    BY DEF InMemory
  <2> QED
    BY <2>1, <2>2 DEF Stop
<1>23. CASE Restart
  BY <1>23 DEF Restart
<1>24. CASE UNCHANGED vars
  BY <1>24 DEF vars
<1> QED
  BY ZenonT(40), <1>1, <1>2, <1>3, <1>4, <1>5, <1>6, <1>7, <1>8, <1>9, <1>10, <1>11,
     <1>12, <1>13, <1>14, <1>15, <1>16, <1>17, <1>18, <1>19, <1>20, <1>21,
     <1>22, <1>23, <1>24
  DEF Next, DataPlane, PushLoop, Snapshots, Process

LEMMA ControlStep == TypeOK /\ [Next]_vars => Control'
<1> SUFFICES ASSUME Types, Control, [Next]_vars,
                    NEW m \in Nodes
             PROVE  /\ push'[m] # "taking" => todo'[m] = {}
                    /\ job'[m] # "none" <=> push'[m] \in Persisting
  BY DEF TypeOK, Control
<1> DEFINE G == /\ push'[m] # "taking" => todo'[m] = {}
                /\ job'[m] # "none" <=> push'[m] \in Persisting
<1>0. /\ push[m] # "taking" => todo[m] = {}
      /\ job[m] # "none" <=> push[m] \in Persisting
      /\ push \in [Nodes -> Phases]
      /\ todo \in [Nodes -> SUBSET Users]
      /\ job \in [Writers -> {"none", "queued", "captured"}]
      /\ m \in Writers /\ m \notin Flushers /\ m # App
  BY TrackerConstants DEF Control, Types
<1> USE <1>0 DEF Persisting, Phases
<1>1. CASE DataPlane
  BY <1>1 DEF DataPlane, Open, Carry, SweepSwap, SweepAdd, DropDeregister,
              DropRecord, FlushPending
<1>2. CASE PushLoop
  <2>1. PICK n \in Nodes : PushLoop!2!(n)
    BY <1>2 DEF PushLoop
  <2>2. ASSUME NEW last \in BOOLEAN, StartPush(n, last) PROVE G
    BY <2>2 DEF StartPush
  <2>3. ASSUME NEW u \in Users, TakeShard(n, u) PROVE G
    BY <2>3 DEF TakeShard
  <2>4. ASSUME NEW u \in Users, RestoreShard(n, u) \/ RemoveUser(n, u) PROVE G
    BY <2>4 DEF RestoreShard, RemoveUser
  <2>5. CASE Taken(n)
    BY <2>5 DEF Taken
  <2>6. CASE PanelApply(n) \/ PushErr(n)
    BY <2>6 DEF PanelApply, PushErr
  <2>7. CASE PushOk(n) \/ Restored(n) \/ AliveReported(n)
    BY <2>7 DEF PushOk, Restored, AliveReported
  <2>8. CASE AliveFailed(n)
    BY <2>8 DEF AliveFailed, EndPush
  <2> QED
    BY <2>1, <2>2, <2>3, <2>4, <2>5, <2>6, <2>7, <2>8
<1>3. CASE Snapshots
  <2>1. ASSUME NEW w \in Writers, Capture(w) PROVE G
    BY <2>1 DEF Capture
  <2>2. ASSUME NEW w \in Writers, NEW ok \in BOOLEAN, WriteDone(w, ok) PROVE G
    BY <2>2 DEF WriteDone, AfterPersist, EndPush
  <2> QED
    BY <1>3, <2>1, <2>2 DEF Snapshots
<1>4. CASE Process
  BY <1>4 DEF Process, Signal, JoinAll, Exit, ExitFailed, Crash, Stop, Restart
<1>5. CASE UNCHANGED vars
  BY <1>5 DEF vars
<1> QED
  BY <1>1, <1>2, <1>3, <1>4, <1>5 DEF Next

LEMMA TypeStep == TypeOK /\ [Next]_vars => TypeOK'
BY TypesStep, ControlStep DEF TypeOK

(* Type correctness, and that snapshot_traffic has visited every shard before
   push() goes on. *)
THEOREM TypeCorrect == Spec => []TypeOK
BY TypeInit, TypeStep, PTL DEF Spec

-----------------------------------------------------------------------------
(* CountedOnce, with the strengthening Stored. *)

LEMMA CountInit == Init => CountedOnce /\ Stored
BY DEF Init, CountedOnce, Stored, Known, SnapshotsKnown, HaltedHoldsNothing

(* A step that moves no traffic. *)
LEMMA CountSame ==
    CountedOnce /\ Stored /\ life' # "halted"
    /\ UNCHANGED <<meter, hand, sweepHand, pending, payload, image, disk, carried>>
    => CountedOnce' /\ Stored'
BY DEF CountedOnce, Stored, Known, SnapshotsKnown, HaltedHoldsNothing

(* A step of a running process that leaves the snapshots alone. *)
LEMMA SnapshotsSame ==
    Stored /\ Known' /\ life' # "halted" /\ carried \subseteq carried'
    /\ UNCHANGED <<image, disk>>
    => Stored'
BY DEF Stored, SnapshotsKnown, HaltedHoldsNothing

LEMMA CountStep == IInv /\ [Next]_vars => CountedOnce' /\ Stored'
<1> SUFFICES ASSUME TypeOK, Types, CountedOnce, Stored, Known, [Next]_vars
             PROVE  CountedOnce' /\ Stored'
  BY DEF IInv, TypeOK, Stored
<1> DEFINE G == CountedOnce' /\ Stored'
<1>1. ASSUME NEW c \in Conns, NEW b \in Units, Carry(c, b) PROVE G
  <2>1. /\ meter' = [meter EXCEPT ![c] = @ \cup {b}]
        /\ b \notin carried
        /\ carried' = carried \cup {b}
        /\ UNCHANGED <<life, hand, sweepHand, pending, payload, image, disk>>
        /\ life # "halted"
    BY <1>1 DEF Carry
  <2>2. \A d \in Conns : meter'[d] = IF d = c THEN meter[c] \cup {b} ELSE meter[d]
    BY <2>1 DEF Types
  <2> HIDE DEF Keys, Writers
  <2>3. CountedOnce'
    BY <2>1, <2>2 DEF CountedOnce, Known
  <2>4. Known'
    BY <2>1, <2>2 DEF Known
  <2> QED
    BY <2>1, <2>3, <2>4, SnapshotsSame
<1>2. ASSUME NEW c \in Conns, SweepSwap(c) PROVE G
  <2>1. /\ sweepHand' = meter[c]
        /\ UNCHANGED <<life, hand, carried, pending, payload, image, disk>>
        /\ life # "halted"
    BY <1>2 DEF SweepSwap, Alive
  <2>2. \A d \in Conns : meter'[d] = IF d = c THEN {} ELSE meter[d]
    BY <1>2 DEF Types, SweepSwap
  <2> HIDE DEF Keys, Writers
  <2>3. CountedOnce'
    BY <2>1, <2>2 DEF CountedOnce
  <2>4. Known'
    BY <2>1, <2>2 DEF Known
  <2> QED
    BY <2>1, <2>3, <2>4, SnapshotsSame
<1>3. CASE SweepAdd
  <2>1. /\ sweepHand' = {}
        /\ UNCHANGED <<life, meter, hand, carried, payload, image, disk>>
        /\ life # "halted"
    BY <1>3 DEF SweepAdd, Alive
  <2>2. /\ Owner[sweepAt] \in Keys
        /\ \A k \in Keys : pending'[k] = IF k = Owner[sweepAt]
                                           THEN pending[k] \cup sweepHand
                                           ELSE pending[k]
    BY <1>3, TrackerConstants DEF Types, SweepAdd, Alive
  <2> HIDE DEF Keys, Writers
  <2>3. CountedOnce'
    BY <2>1, <2>2 DEF CountedOnce
  <2>4. Known'
    BY <2>1, <2>2 DEF Known
  <2> QED
    BY <2>1, <2>3, <2>4, SnapshotsSame
<1>4. ASSUME NEW c \in Conns, DropDeregister(c) PROVE G
  <2>1. /\ UNCHANGED <<life, sweepHand, carried, pending, payload, image, disk>>
        /\ life # "halted"
    BY <1>4 DEF DropDeregister, Alive
  <2>2. \A d \in Conns :
           /\ meter'[d] = IF d = c THEN {} ELSE meter[d]
           /\ hand'[d] = IF d = c THEN meter[c] ELSE hand[d]
    BY <1>4, TrackerConstants DEF Types, DropDeregister, Alive
  <2> HIDE DEF Keys, Writers
  <2>3. CountedOnce'
    BY <2>1, <2>2 DEF CountedOnce
  <2>4. Known'
    BY <2>1, <2>2 DEF Known
  <2> QED
    BY <2>1, <2>3, <2>4, SnapshotsSame
<1>5. ASSUME NEW c \in Conns, DropRecord(c) PROVE G
  <2>1. /\ UNCHANGED <<life, meter, sweepHand, carried, payload, image, disk>>
        /\ life # "halted"
    BY <1>5 DEF DropRecord, Alive
  <2>2. /\ \A d \in Conns : hand'[d] = IF d = c THEN {} ELSE hand[d]
        /\ Owner[c] \in Keys
        /\ \A k \in Keys : pending'[k] = IF k = Owner[c]
                                           THEN pending[k] \cup hand[c]
                                           ELSE pending[k]
    BY <1>5, TrackerConstants DEF Types, DropRecord, Alive
  <2> HIDE DEF Keys, Writers
  <2>3. CountedOnce'
    <3>1. /\ \A d \in Conns : hand'[d] \subseteq hand[d]
          /\ \A d \in Conns : hand'[d] \cap hand[c] = {}
          /\ \A d \in Conns : meter[d] \cap hand[c] = {}
          /\ sweepHand \cap hand[c] = {}
      BY <2>2 DEF CountedOnce
    <3>2. \A k \in Keys : /\ pending'[k] \subseteq pending[k] \cup hand[c]
                          /\ k # Owner[c] => pending'[k] = pending[k]
      BY <2>2
    <3>3. \A k \in Keys : /\ hand[c] \cap pending[k] = {}
                          /\ hand[c] \cap payload[k] = {}
      BY DEF CountedOnce
    <3>4. \A k, l \in Keys : k # l => pending'[k] \cap pending'[l] = {}
      <4>1. \A k, l \in Keys : k # l => pending[k] \cap pending[l] = {}
        BY DEF CountedOnce
      <4> SUFFICES ASSUME NEW k \in Keys, NEW l \in Keys, k # l,
                          NEW b \in pending'[k], b \in pending'[l]
                   PROVE  FALSE
        OBVIOUS
      <4>2. \/ k # Owner[c] /\ b \in pending[k] /\ b \in pending[l] \cup hand[c]
            \/ l # Owner[c] /\ b \in pending[l] /\ b \in pending[k] \cup hand[c]
        BY <3>2
      <4> QED
        BY <4>2, <3>3, <4>1
    <3>5. \A k, l \in Keys : pending'[k] \cap payload[l] = {}
      <4>1. \A k, l \in Keys : pending[k] \cap payload[l] = {}
        BY DEF CountedOnce
      <4> SUFFICES ASSUME NEW k \in Keys, NEW l \in Keys,
                          NEW b \in pending'[k], b \in payload[l]
                   PROVE  FALSE
        OBVIOUS
      <4>2. b \in pending[k] \/ b \in hand[c]
        BY <3>2
      <4> QED
        BY <4>2, <3>3, <4>1
    <3>6. \A d \in Conns, k \in Keys : (meter[d] \cup hand'[d]) \cap pending'[k] = {}
      <4>1. \A d \in Conns, k \in Keys : (meter[d] \cup hand[d]) \cap pending[k] = {}
        BY DEF CountedOnce
      <4> SUFFICES ASSUME NEW d \in Conns, NEW k \in Keys,
                          NEW b \in meter[d] \cup hand'[d], b \in pending'[k]
                   PROVE  FALSE
        OBVIOUS
      <4>2. b \in pending[k] \/ b \in hand[c]
        BY <3>2
      <4> QED
        BY <4>2, <3>1, <4>1
    <3>7. \A k \in Keys : sweepHand \cap pending'[k] = {}
      <4>1. \A k \in Keys : sweepHand \cap pending[k] = {}
        BY DEF CountedOnce
      <4> SUFFICES ASSUME NEW k \in Keys, NEW b \in sweepHand, b \in pending'[k]
                   PROVE  FALSE
        OBVIOUS
      <4>2. b \in pending[k] \/ b \in hand[c]
        BY <3>2
      <4> QED
        BY <4>2, <3>1, <4>1
    <3> QED
      BY <2>1, <3>1, <3>4, <3>5, <3>6, <3>7 DEF CountedOnce
  <2>4. Known'
    BY <2>1, <2>2 DEF Known
  <2> QED
    BY <2>1, <2>3, <2>4, SnapshotsSame
<1>6. ASSUME NEW n \in Nodes, NEW u \in Users, Alive, TakeShard(n, u) PROVE G
  <2>1. /\ UNCHANGED <<life, meter, hand, sweepHand, carried, image, disk>>
        /\ life' # "halted"
    BY <1>6 DEF TakeShard, Alive
  <2>2. CASE ~Reportable(<<n, u>>)
    BY <1>6, <2>1, <2>2, CountSame DEF TakeShard
  <2>3. CASE Reportable(<<n, u>>)
    <3>1. <<n, u>> \in Keys
      OBVIOUS
    <3> HIDE DEF Keys, Writers
    <3>2. \A k \in Keys :
             /\ payload'[k] = IF k = <<n, u>> THEN pending[k] ELSE payload[k]
             /\ pending'[k] = IF k = <<n, u>> THEN {} ELSE pending[k]
      BY ZenonT(40), <1>6, <2>3, <3>1 DEF TakeShard, Types
    <3>3. CountedOnce'
      BY <2>1, <3>1, <3>2 DEF CountedOnce
    <3>4. Known'
      BY <2>1, <3>1, <3>2 DEF Known
    <3> QED
      BY <2>1, <3>3, <3>4, SnapshotsSame
  <2> QED
    BY <2>2, <2>3
<1>7. ASSUME NEW n \in Nodes, NEW u \in Users, Alive, RestoreShard(n, u) PROVE G
  <2>1. /\ UNCHANGED <<life, meter, hand, sweepHand, carried, image, disk>>
        /\ life # "halted"
        /\ <<n, u>> \in Keys
    BY <1>7 DEF RestoreShard, Alive
  <2>2. \A k \in Keys :
           /\ pending'[k] = IF k = <<n, u>> THEN pending[k] \cup payload[k]
                                            ELSE pending[k]
           /\ payload'[k] = IF k = <<n, u>> THEN {} ELSE payload[k]
    BY <1>7, TrackerConstants DEF Types, RestoreShard
  <2> HIDE DEF Keys, Writers
  <2>3. CountedOnce'
    BY <2>1, <2>2 DEF CountedOnce
  <2>4. Known'
    BY <2>1, <2>2 DEF Known
  <2> QED
    BY <2>1, <2>3, <2>4, SnapshotsSame
<1>8. ASSUME NEW n \in Nodes, NEW u \in Users, RemoveUser(n, u) PROVE G
  <2>1. /\ UNCHANGED <<life, meter, hand, sweepHand, carried, payload, image, disk>>
        /\ life # "halted"
    BY <1>8 DEF RemoveUser
  <2>2. \A k \in Keys : pending'[k] = IF k = <<n, u>> THEN {} ELSE pending[k]
    BY <1>8, TrackerConstants DEF Types, RemoveUser
  <2> HIDE DEF Keys, Writers
  <2>3. CountedOnce'
    BY <2>1, <2>2 DEF CountedOnce
  <2>4. Known'
    BY <2>1, <2>2 DEF Known
  <2> QED
    BY <2>1, <2>3, <2>4, SnapshotsSame
<1>9. ASSUME NEW n \in Nodes, Alive, PushOk(n) PROVE G
  <2>1. /\ UNCHANGED <<life, meter, hand, sweepHand, carried, pending, image, disk>>
        /\ life # "halted"
    BY <1>9 DEF PushOk, Alive
  <2>2. \A k \in Keys : payload'[k] = {} \/ payload'[k] = payload[k]
    BY <1>9, TrackerConstants DEF Types, PushOk
  <2> HIDE DEF Keys, Writers
  <2>3. CountedOnce'
    BY <2>1, <2>2 DEF CountedOnce
  <2>4. Known'
    BY <2>1, <2>2 DEF Known
  <2> QED
    BY <2>1, <2>3, <2>4, SnapshotsSame
<1>10. ASSUME NEW w \in Writers, Capture(w) PROVE G
  <2>1. /\ UNCHANGED <<life, meter, hand, sweepHand, carried, pending, payload, disk>>
        /\ life # "halted"
    BY <1>10 DEF Capture, Alive
  <2>2. \A v \in Writers : image'[v] = IF v = w THEN pending ELSE image[v]
    BY <1>10, TrackerConstants DEF Types, Capture, Alive
  <2> HIDE DEF Keys, Writers
  <2>3. CountedOnce'
    BY <2>1, <2>2 DEF CountedOnce
  <2>4. Stored'
    BY <2>1, <2>2 DEF Stored, Known, SnapshotsKnown, HaltedHoldsNothing, CountedOnce
  <2> QED
    BY <2>3, <2>4
<1>11. ASSUME NEW w \in Writers, NEW ok \in BOOLEAN, WriteDone(w, ok) PROVE G
  <2>1. /\ UNCHANGED <<meter, hand, sweepHand, carried, pending, payload>>
        /\ life' # "halted"
        /\ disk' = image[w] \/ disk' = disk
    BY <1>11 DEF WriteDone, Alive
  <2>2. \A v \in Writers : image'[v] = NoTraffic \/ image'[v] = image[v]
    BY <1>11 DEF Types, WriteDone
  <2>3. \A k \in Keys : NoTraffic[k] = {}
    OBVIOUS
  <2> HIDE DEF Keys, Writers, NoTraffic
  <2>4. CountedOnce'
    BY <2>1 DEF CountedOnce
  <2>5. Stored'
    BY <2>1, <2>2, <2>3 DEF Stored, Known, SnapshotsKnown, HaltedHoldsNothing
  <2> QED
    BY <2>4, <2>5
<1>12. CASE Exit \/ ExitFailed \/ Crash
  <2>1. Stop
    BY <1>12 DEF Exit, ExitFailed, Crash
  <2>2. /\ \A c \in Conns : meter'[c] = {} /\ hand'[c] = {}
        /\ sweepHand' = {}
        /\ \A k \in Keys : pending'[k] = {} /\ payload'[k] = {}
        /\ \A w \in Writers, k \in Keys : image'[w][k] = {}
        /\ UNCHANGED <<carried, disk>>
    BY <2>1 DEF Stop
  <2> HIDE DEF Keys, Writers
  <2>3. CountedOnce'
    BY <2>2 DEF CountedOnce
  <2>4. Stored'
    BY <2>2 DEF Stored, Known, SnapshotsKnown, HaltedHoldsNothing
  <2> QED
    BY <2>3, <2>4
<1>13. CASE Restart
  <2>1. /\ life = "halted" /\ life' = "running"
        /\ pending' = disk
        /\ UNCHANGED <<meter, hand, sweepHand, payload, carried, image, disk>>
    BY <1>13 DEF Restart
  <2> HIDE DEF Keys, Writers
  <2>2. CountedOnce'
    BY <2>1 DEF CountedOnce, Stored, SnapshotsKnown, HaltedHoldsNothing
  <2>3. Stored'
    BY <2>1 DEF Stored, Known, SnapshotsKnown, HaltedHoldsNothing
  <2> QED
    BY <2>2, <2>3
<1>14. CASE UNCHANGED vars
  BY <1>14 DEF vars, CountedOnce, Stored, Known, SnapshotsKnown, HaltedHoldsNothing
<1>15. ASSUME NEW c \in Conns, Open(c) PROVE G
  BY <1>15, CountSame DEF Open
<1>16. ASSUME NEW n \in Nodes, Alive,
              \/ \E last \in BOOLEAN : StartPush(n, last)
              \/ Taken(n) \/ PanelApply(n) \/ PushErr(n)
              \/ Restored(n) \/ AliveReported(n) \/ AliveFailed(n)
       PROVE  G
  <2>1. /\ UNCHANGED <<life, meter, hand, sweepHand, pending, payload, image,
                       disk, carried>>
        /\ life # "halted"
    BY <1>16 DEF StartPush, Taken, PanelApply, PushErr, Restored,
                 AliveReported, AliveFailed, Alive
  <2> QED
    BY <2>1, CountSame
<1>17. CASE Signal \/ JoinAll
  BY <1>17, CountSame DEF Signal, JoinAll
<1> QED
  BY <1>1, <1>2, <1>3, <1>4, <1>5, <1>6, <1>7, <1>8, <1>9, <1>10, <1>11,
     <1>12, <1>13, <1>14, <1>15, <1>16, <1>17
  DEF Next, DataPlane, PushLoop, Snapshots, Process

(* No unit of traffic is ever counted in two places of the running process. *)
THEOREM CountedOnceAlways == Spec => []CountedOnce
<1>1. Init => IInv
  BY TypeInit, CountInit DEF IInv
<1>2. IInv /\ [Next]_vars => IInv'
  BY TypeStep, CountStep DEF IInv
<1>3. IInv => CountedOnce
  BY DEF IInv
<1> QED
  BY <1>1, <1>2, <1>3, PTL DEF Spec

-----------------------------------------------------------------------------
(* Billing.  From here on the sets of keys and writers stay closed. *)
HIDE DEF Keys, Writers, TrafficMap, NoTraffic

LEMMA PairInKeys == \A n \in Nodes, u \in Users : <<n, u>> \in Keys
BY DEF Keys

LEMMA KeyIsPair == \A k \in Keys : \E n \in Nodes, u \in Users : k = <<n, u>>
BY DEF Keys

(* The sweeper and a drop never take a second counter in a full hand. *)
LEMMA HandsFreeStep == Types /\ HandsFree /\ [Next]_vars => HandsFree'
<1> SUFFICES ASSUME Types, HandsFree, [Next]_vars PROVE HandsFree'
  OBVIOUS
<1>0. /\ conn \in [Conns -> {"closed", "open", "dropping"}]
      /\ hand \in [Conns -> SUBSET Units]
      /\ None \notin Conns
  BY TrackerConstants DEF Types
<1>1. ASSUME NEW c \in Conns, Open(c) \/ DropDeregister(c) \/ DropRecord(c)
      PROVE  HandsFree'
  BY <1>0, <1>1 DEF HandsFree, Open, DropDeregister, DropRecord
<1>2. ASSUME NEW c \in Conns, SweepSwap(c) PROVE HandsFree'
  BY <1>0, <1>2 DEF HandsFree, SweepSwap
<1>3. CASE SweepAdd
  BY <1>3 DEF HandsFree, SweepAdd
<1>4. CASE Exit \/ ExitFailed \/ Crash
  BY <1>4 DEF HandsFree, Exit, ExitFailed, Crash, Stop
<1>5. CASE UNCHANGED conns
  BY <1>5 DEF HandsFree
<1>6. CASE \E c \in Conns, b \in Units : Carry(c, b)
  BY <1>6 DEF HandsFree, Carry
<1>7. CASE PushLoop
  BY ZenonT(40), <1>7, <1>5 DEF PushLoop, StartPush, TakeShard, RestoreShard, RemoveUser,
        Taken, PanelApply, PushOk, PushErr, Restored, AliveReported, AliveFailed
<1>8. CASE Snapshots
  BY <1>8, <1>5 DEF Snapshots, Capture, WriteDone
<1>9. CASE Signal \/ JoinAll \/ Restart \/ UNCHANGED vars
  BY <1>9, <1>5 DEF Signal, JoinAll, Restart, vars
<1> QED
  BY <1>1, <1>2, <1>3, <1>4, <1>6, <1>7, <1>8, <1>9 DEF Next, DataPlane, Process

(* Outside the push loop, what a push holds changes only by the end of the
   process, and its phase only by the end of a write. *)
LEMMA PayloadInPhaseStep ==
    TypeOK /\ PayloadInPhase /\ [Next]_vars => PayloadInPhase'
<1> SUFFICES ASSUME Types, Control, PayloadInPhase, [Next]_vars,
                    NEW m \in Nodes, NEW v \in Users
             PROVE  /\ push'[m] \notin {"taking", "posting", "applied", "restoring"}
                          => payload'[<<m, v>>] = {}
                    /\ v \in todo'[m] => payload'[<<m, v>>] = {}
                    /\ push'[m] = "applied"
                          => \A b \in payload'[<<m, v>>] : billed'[b] > 0
  BY DEF TypeOK, PayloadInPhase
<1> DEFINE G == /\ push'[m] \notin {"taking", "posting", "applied", "restoring"}
                      => payload'[<<m, v>>] = {}
                /\ v \in todo'[m] => payload'[<<m, v>>] = {}
                /\ push'[m] = "applied"
                      => \A b \in payload'[<<m, v>>] : billed'[b] > 0
<1>0. /\ push \in [Nodes -> Phases]
      /\ todo \in [Nodes -> SUBSET Users]
      /\ payload \in [Keys -> SUBSET Units]
      /\ billed \in [Units -> Nat]
      /\ <<m, v>> \in Keys
      /\ push[m] \notin {"taking", "posting", "applied", "restoring"}
             => payload[<<m, v>>] = {}
      /\ v \in todo[m] => payload[<<m, v>>] = {}
      /\ push[m] = "applied" => \A b \in payload[<<m, v>>] : billed[b] > 0
      /\ push[m] # "taking" => todo[m] = {}
      /\ job[m] # "none" <=> push[m] \in Persisting
  BY PairInKeys DEF Types, TrafficMap, PayloadInPhase, Control
<1> USE <1>0
<1> HIDE DEF Keys
<1>1. CASE UNCHANGED <<push, todo, payload, billed>>
  BY <1>1
<1>2. CASE DataPlane
  BY <1>1, <1>2 DEF DataPlane, Open, Carry, SweepSwap, SweepAdd, DropDeregister,
                    DropRecord
<1>3. CASE PushLoop
  <2>1. PICK n \in Nodes : PushLoop!2!(n)
    BY <1>3 DEF PushLoop
  <2>2. ASSUME NEW last \in BOOLEAN, StartPush(n, last) PROVE G
    BY <2>2 DEF StartPush
  <2>3. ASSUME NEW u \in Users, TakeShard(n, u) PROVE G
    <3>1. /\ push[n] = "taking" /\ UNCHANGED <<push, billed>>
          /\ todo'[m] = IF n = m THEN todo[m] \ {u} ELSE todo[m]
      BY <2>3 DEF TakeShard
    <3>2. payload'[<<m, v>>] = payload[<<m, v>>] \/ <<m, v>> = <<n, u>>
      BY <2>3, PairInKeys DEF TakeShard
    <3> QED
      BY <3>1, <3>2
  <2>4. ASSUME NEW u \in Users, RestoreShard(n, u) PROVE G
    <3>1. payload'[<<m, v>>] = payload[<<m, v>>] \/ payload'[<<m, v>>] = {}
      BY <2>4, PairInKeys DEF RestoreShard
    <3> QED
      BY <2>4, <3>1 DEF RestoreShard
  <2>5. ASSUME NEW u \in Users, RemoveUser(n, u) PROVE G
    BY <2>5, <1>1 DEF RemoveUser
  <2>6. CASE Taken(n)
    <3>1. UNCHANGED <<todo, payload, billed>> /\ push[n] = "taking" /\ todo[n] = {}
      BY <2>6 DEF Taken
    <3>2. CASE n # m
      BY <2>6, <3>1, <3>2 DEF Taken
    <3>3. CASE n = m
      BY <2>6, <3>1, <3>3 DEF Taken
    <3> QED
      BY <3>2, <3>3
  <2>7. CASE PanelApply(n)
    <3>1. UNCHANGED <<todo, payload>> /\ push[n] = "posting"
      BY <2>7 DEF PanelApply
    <3>2. \A b \in payload[<<m, v>>] : b \in Units
      OBVIOUS
    <3>3. CASE n # m
      <4>1. \A b \in Units : billed'[b] = billed[b] \/ billed'[b] = billed[b] + 1
        BY <2>7 DEF PanelApply
      <4>2. push'[m] = push[m]
        BY <2>7, <3>3 DEF PanelApply
      <4>3. \A b \in Units : billed[b] > 0 => billed'[b] > 0
        BY <4>1
      <4> QED
        BY <3>1, <3>2, <4>2, <4>3
    <3>4. CASE n = m
      <4>1. \A b \in payload[<<m, v>>] : b \in PayloadOf(n)
        BY <3>2, <3>4 DEF PayloadOf
      <4> DEFINE p == PayloadOf(n)
      <4> HIDE DEF p
      <4>2. \A b \in Units : billed'[b] = IF b \in p /\ billed[b] < MaxBill
                                          THEN billed[b] + 1 ELSE billed[b]
        BY <2>7 DEF PanelApply, p
      <4>3. \A b \in p \cap Units : billed'[b] > 0
        BY <4>2, TrackerConstants
      <4>4. push'[m] = "applied"
        BY <2>7, <3>4 DEF PanelApply
      <4> QED
        BY <3>1, <3>2, <4>1, <4>3, <4>4 DEF p
    <3> QED
      BY <3>3, <3>4
  <2>8. CASE PushOk(n)
    <3>1. /\ UNCHANGED <<todo, billed>>
          /\ push[n] = "applied"
          /\ payload'[<<m, v>>] = IF m = n THEN {} ELSE payload[<<m, v>>]
      BY <2>8 DEF PushOk
    <3>2. push'[m] = IF m = n THEN "persistAccepted" ELSE push[m]
      BY <2>8 DEF PushOk
    <3> QED
      BY <3>1, <3>2
  <2>9. CASE PushErr(n)
    BY <2>9 DEF PushErr
  <2>10. CASE Restored(n)
    BY <2>10 DEF Restored
  <2>11. CASE AliveReported(n)
    BY <2>11 DEF AliveReported
  <2>12. CASE AliveFailed(n)
    BY <2>12 DEF AliveFailed, EndPush
  <2> QED
    BY <2>1, <2>2, <2>3, <2>4, <2>5, <2>6, <2>7, <2>8, <2>9, <2>10, <2>11, <2>12
<1>4. CASE Snapshots
  <2>1. ASSUME NEW w \in Writers, Capture(w) PROVE G
    BY <2>1, <1>1 DEF Capture
  <2>2. ASSUME NEW w \in Writers, NEW ok \in BOOLEAN, WriteDone(w, ok) PROVE G
    <3>1. UNCHANGED <<todo, payload, billed>>
      BY <2>2 DEF WriteDone
    <3>2. push'[m] = push[m] \/ (m = w /\ push'[m] \in {"alive", "stopped", "idle"})
      BY <2>2 DEF WriteDone, AfterPersist, EndPush
    <3>3. m = w => push[m] \in Persisting
      BY <2>2 DEF WriteDone
    <3> QED
      BY <3>1, <3>2, <3>3 DEF Persisting
  <2> QED
    BY <1>4, <2>1, <2>2 DEF Snapshots
<1>5. CASE Exit \/ ExitFailed \/ Crash
  BY <1>5 DEF Exit, ExitFailed, Crash, Stop, NoTraffic
<1>6. CASE Signal \/ JoinAll \/ Restart \/ UNCHANGED vars
  BY <1>6, <1>1 DEF Signal, JoinAll, Restart, vars
<1> QED
  BY <1>2, <1>3, <1>4, <1>5, <1>6 DEF Next, Process

-----------------------------------------------------------------------------
(* Accounted. *)

(* The histories only grow, and so do the bills. *)
LEMMA BillsGrow ==
    Types /\ [Next]_vars => \A b \in Units : billed'[b] \in Nat /\ billed'[b] >= billed[b]
<1> SUFFICES ASSUME Types, [Next]_vars
             PROVE  \A b \in Units : billed'[b] \in Nat /\ billed'[b] >= billed[b]
  OBVIOUS
<1>0. billed \in [Units -> Nat]
  BY DEF Types
<1>1. CASE UNCHANGED billed
  BY <1>0, <1>1
<1>2. ASSUME NEW n \in Nodes, PanelApply(n)
      PROVE  \A b \in Units : billed'[b] \in Nat /\ billed'[b] >= billed[b]
  <2>1. \A b \in Units : billed'[b] = billed[b] \/ billed'[b] = billed[b] + 1
    BY <1>2 DEF PanelApply
  <2> QED
    BY <1>0, <2>1
<1>3. (\E n \in Nodes : PanelApply(n)) \/ UNCHANGED billed
  BY ZenonT(40) DEF Next, vars, DataPlane, Open, Carry, SweepSwap, SweepAdd, DropDeregister,
         DropRecord, PushLoop, StartPush, TakeShard, RestoreShard, RemoveUser,
         Taken, PushOk, PushErr, Restored, AliveReported, AliveFailed,
         Snapshots, Capture, WriteDone, Process, Signal, JoinAll, Exit,
         ExitFailed, Crash, Stop, Restart
<1> QED
  BY <1>1, <1>2, <1>3

LEMMA GoneStays ==
    ASSUME Types, [Next]_vars, NEW b \in Units, Gone(b) PROVE Gone(b)'
<1>1. removed \subseteq removed' /\ lost \subseteq lost'
  BY ZenonT(40) DEF Next, vars, DataPlane, Open, Carry, SweepSwap, SweepAdd, DropDeregister,
         DropRecord, PushLoop, StartPush, TakeShard, RestoreShard, RemoveUser,
         Taken, PanelApply, PushOk, PushErr, Restored, AliveReported,
         AliveFailed, Snapshots, Capture, WriteDone, Process, Signal, JoinAll,
         Exit, ExitFailed, Crash, Stop, Restart
<1>2. billed[b] \in Nat /\ billed'[b] \in Nat /\ billed'[b] >= billed[b]
  BY BillsGrow DEF Types
<1>3. billed[b] > 0 => billed'[b] > 0
  BY <1>2
<1> QED
  BY <1>1, <1>3 DEF Gone

LEMMA TracedStep == TInv /\ [Next]_vars => Traced'
<1> SUFFICES ASSUME Types, HandsFree, PayloadInPhase, Traced, HaltedHoldsNothing,
                    [Next]_vars, NEW b \in carried', ~Gone(b)'
             PROVE  \/ Alive' /\ Held(b)'
                    \/ ~Alive' /\ \E k \in Keys : b \in disk'[k]
  BY DEF TInv, IInv, TypeOK, Stored, Traced
<1> DEFINE G == \/ Alive' /\ Held(b)'
                \/ ~Alive' /\ \E k \in Keys : b \in disk'[k]
<1> HIDE DEF Keys, Writers
<1>0. /\ carried \in SUBSET Units
      /\ meter \in [Conns -> SUBSET Units]
      /\ hand \in [Conns -> SUBSET Units]
      /\ conn \in [Conns -> {"closed", "open", "dropping"}]
      /\ pending \in [Keys -> SUBSET Units]
      /\ payload \in [Keys -> SUBSET Units]
      /\ billed \in [Units -> Nat]
  BY DEF Types, TrafficMap
(* A unit that is carried for the first time is in its connection's counter. *)
<1>1. ASSUME NEW c \in Conns, NEW a \in Units, Carry(c, a) PROVE G
  <2>1. /\ Alive /\ Alive'
        /\ carried' = carried \cup {a}
        /\ UNCHANGED <<hand, sweepHand, pending, payload>>
        /\ \A d \in Conns : meter'[d] = IF d = c THEN meter[d] \cup {a} ELSE meter[d]
    BY <1>0, <1>1 DEF Carry, Alive
  <2>2. CASE b = a
    BY <2>1, <2>2 DEF Held
  <2>3. CASE b # a
    <3>1. b \in carried /\ ~Gone(b)
      BY <1>0, <2>1, <2>3, GoneStays
    <3> QED
      BY <2>1, <3>1 DEF Held, Traced
  <2> QED
    BY <2>2, <2>3
(* Any other step finds the unit where Traced says. *)
<1>2. SUFFICES ASSUME b \in carried PROVE G
  <2>1. (\E c \in Conns, a \in Units : Carry(c, a)) \/ carried' = carried
    BY ZenonT(40) DEF Next, vars, DataPlane, Open, SweepSwap, SweepAdd, DropDeregister,
           DropRecord, PushLoop, StartPush, TakeShard, RestoreShard, RemoveUser,
           Taken, PanelApply, PushOk, PushErr, Restored, AliveReported,
           AliveFailed, Snapshots, Capture, WriteDone, Process, Signal, JoinAll,
           Exit, ExitFailed, Crash, Stop, Restart
  <2> QED
    BY <1>1, <1>2, <2>1
<1>3. /\ b \in Units /\ ~Gone(b)
      /\ Alive => Held(b)
      /\ ~Alive => \E k \in Keys : b \in disk[k]
  BY <1>0, <1>2, GoneStays DEF Traced
<1>4. CASE UNCHANGED <<meter, hand, sweepHand, pending, payload>> /\ Alive /\ Alive'
  BY <1>3, <1>4 DEF Held
<1>5. ASSUME NEW c \in Conns, SweepSwap(c) PROVE G
  <2>1. /\ Alive /\ Alive' /\ sweepHand = {} /\ sweepHand' = meter[c]
        /\ UNCHANGED <<hand, pending, payload>>
        /\ \A d \in Conns : meter'[d] = IF d = c THEN {} ELSE meter[d]
    BY <1>0, <1>5 DEF SweepSwap, Alive, HandsFree
  <2> QED
    BY <1>3, <2>1 DEF Held
<1>6. CASE SweepAdd
  <2>1. /\ Alive /\ Alive' /\ Owner[sweepAt] \in Keys
        /\ UNCHANGED <<meter, hand, payload>>
        /\ \A k \in Keys : pending[k] \subseteq pending'[k]
        /\ sweepHand \subseteq pending'[Owner[sweepAt]]
    BY <1>0, <1>6, OwnerType DEF SweepAdd, Alive, Types
  <2> QED
    BY <1>3, <2>1 DEF Held
<1>7. ASSUME NEW c \in Conns, DropDeregister(c) PROVE G
  <2>1. /\ Alive /\ Alive' /\ hand[c] = {} /\ hand'[c] = meter[c]
        /\ UNCHANGED <<sweepHand, pending, payload>>
        /\ \A d \in Conns : d # c => meter'[d] = meter[d] /\ hand'[d] = hand[d]
    BY <1>0, <1>7 DEF DropDeregister, Alive, HandsFree
  <2> QED
    BY <1>3, <2>1 DEF Held
<1>8. ASSUME NEW c \in Conns, DropRecord(c) PROVE G
  <2>1. /\ Alive /\ Alive' /\ Owner[c] \in Keys
        /\ UNCHANGED <<meter, sweepHand, payload>>
        /\ \A k \in Keys : pending[k] \subseteq pending'[k]
        /\ hand[c] \subseteq pending'[Owner[c]]
        /\ \A d \in Conns : d # c => hand'[d] = hand[d]
    BY <1>0, <1>8, OwnerType DEF DropRecord, Alive
  <2> QED
    BY <1>3, <2>1 DEF Held
<1>9. ASSUME NEW n \in Nodes, NEW u \in Users, Alive, TakeShard(n, u) PROVE G
  <2>1. Alive' /\ UNCHANGED <<meter, hand, sweepHand>>
    BY <1>9 DEF TakeShard, Alive
  <2>2. CASE ~Reportable(<<n, u>>)
    BY <1>9, <2>2, <1>4, <2>1 DEF TakeShard
  <2>3. CASE Reportable(<<n, u>>)
    <3>1. <<n, u>> \in Keys /\ payload[<<n, u>>] = {}
      BY <1>9, PairInKeys DEF TakeShard, PayloadInPhase
    <3>2. /\ payload'[<<n, u>>] = pending[<<n, u>>]
          /\ \A k \in Keys : k # <<n, u>> => /\ payload'[k] = payload[k]
                                             /\ pending'[k] = pending[k]
      BY <1>0, <1>9, <2>3, <3>1 DEF TakeShard
    <3> QED
      BY <1>3, <1>9, <2>1, <3>1, <3>2 DEF Held
  <2> QED
    BY <2>2, <2>3
<1>10. ASSUME NEW n \in Nodes, NEW u \in Users, Alive, RestoreShard(n, u) PROVE G
  <2>1. /\ Alive' /\ UNCHANGED <<meter, hand, sweepHand>>
        /\ <<n, u>> \in Keys
    BY <1>10, PairInKeys DEF RestoreShard, Alive
  <2>2. /\ payload[<<n, u>>] \subseteq pending'[<<n, u>>]
        /\ \A k \in Keys : pending[k] \subseteq pending'[k]
        /\ \A k \in Keys : k # <<n, u>> => payload'[k] = payload[k]
    BY <1>0, <1>10, <2>1 DEF RestoreShard
  <2> QED
    BY <1>3, <1>10, <2>1, <2>2 DEF Held
<1>11. ASSUME NEW n \in Nodes, NEW u \in Users, RemoveUser(n, u) PROVE G
  <2>1. /\ Alive /\ Alive' /\ UNCHANGED <<meter, hand, sweepHand, payload>>
        /\ removed' = removed \cup pending[<<n, u>>]
        /\ <<n, u>> \in Keys
    BY <1>11, PairInKeys DEF RemoveUser, Alive
  <2>2. \A k \in Keys : k # <<n, u>> => pending'[k] = pending[k]
    BY <1>0, <1>11, <2>1 DEF RemoveUser
  <2>3. b \notin pending[<<n, u>>]
    BY <2>1 DEF Gone
  <2> QED
    BY <1>3, <2>1, <2>2, <2>3 DEF Held
(* An accepted payload has been billed. *)
<1>12. ASSUME NEW n \in Nodes, Alive, PushOk(n) PROVE G
  <2>1. Alive' /\ UNCHANGED <<meter, hand, sweepHand, pending>> /\ push[n] = "applied"
    BY <1>12 DEF PushOk, Alive
  <2>2. \A m \in Nodes, u \in Users :
           payload'[<<m, u>>] = IF m = n THEN {} ELSE payload[<<m, u>>]
    BY <1>12, PairInKeys DEF PushOk
  <2>3. \A u \in Users : b \notin payload[<<n, u>>]
    BY <1>3, <2>1 DEF PayloadInPhase, Gone
  <2>4. \A k \in Keys : b \in payload[k] => b \in payload'[k]
    BY <2>2, <2>3, KeyIsPair
  <2> QED
    BY <1>3, <1>12, <2>1, <2>4 DEF Held
(* What was in memory alone is recorded as lost, and only that. *)
<1>13. CASE Exit \/ ExitFailed \/ Crash
  <2>1. Stop /\ Alive
    BY <1>13 DEF Exit, ExitFailed, Crash, Alive
  <2>2. b \in InMemory
    BY <1>3, <2>1 DEF Held, InMemory
  <2>3. b \notin Billed
    BY <1>3 DEF Gone, Billed
  <2>4. b \in OnDisk
    BY <2>1, <2>2, <2>3 DEF Stop, Gone
  <2> QED
    BY <2>1, <2>4 DEF Stop, OnDisk, Alive
<1>14. CASE Restart
  BY <1>3, <1>14 DEF Restart, Alive, Held
<1>15. ASSUME NEW c \in Conns, Open(c) PROVE G
  BY <1>15, <1>4 DEF Open, Alive
<1>16. ASSUME NEW n \in Nodes, Alive,
              \/ \E last \in BOOLEAN : StartPush(n, last)
              \/ Taken(n) \/ PanelApply(n) \/ PushErr(n)
              \/ Restored(n) \/ AliveReported(n) \/ AliveFailed(n)
       PROVE  G
  BY <1>16, <1>4 DEF StartPush, Taken, PanelApply, PushErr, Restored,
                     AliveReported, AliveFailed, Alive
<1>17. CASE Snapshots \/ Signal \/ JoinAll
  BY <1>17, <1>4 DEF Snapshots, Capture, WriteDone, Signal, JoinAll, Alive
<1>18. CASE UNCHANGED vars
  BY <1>3, <1>18 DEF vars, Held, Alive
<1> QED
  BY <1>1, <1>5, <1>6, <1>7, <1>8, <1>9, <1>10, <1>11, <1>12, <1>13, <1>14,
     <1>15, <1>16, <1>17, <1>18
  DEF Next, DataPlane, PushLoop, Process

LEMMA TracedInductive == Spec => []TInv
<1>1. Init => IInv
  BY TypeInit, CountInit DEF IInv
<1>2. Init => HandsFree /\ PayloadInPhase /\ Traced
  BY DEF Init, HandsFree, PayloadInPhase, Traced, Keys, NoTraffic
<1>3. IInv /\ [Next]_vars => IInv'
  BY TypeStep, CountStep DEF IInv
<1>4. TInv /\ [Next]_vars => TInv'
  BY <1>3, HandsFreeStep, PayloadInPhaseStep, TracedStep DEF TInv, IInv, TypeOK
<1> QED
  BY <1>1, <1>2, <1>4, PTL DEF Spec, TInv

(* Traffic never vanishes from a running process: what the connections have
   carried is still in a counter, a hand, the tracker or a payload, was billed,
   belonged to a deleted user, or died with an earlier process. *)
THEOREM AlwaysAccounted == Spec => []Accounted
<1>1. TInv => Accounted
  <2> SUFFICES ASSUME Types, Traced, Alive, NEW b \in carried
               PROVE  b \in InMemory \cup Billed \cup removed \cup lost
    BY DEF TInv, IInv, TypeOK, Accounted
  <2>1. b \in Units
    BY DEF Types
  <2>2. Gone(b) \/ Held(b)
    BY DEF Traced
  <2>3. Gone(b) => b \in Billed \cup removed \cup lost
    BY <2>1 DEF Gone, Billed
  <2>4. Held(b) => b \in InMemory
    BY DEF Held, InMemory
  <2> QED
    BY <2>2, <2>3, <2>4
<1> QED
  BY <1>1, TracedInductive, PTL

-----------------------------------------------------------------------------
(* BilledOncePerLife. *)

(* A step that bills nothing and ends nothing keeps the bound when what may
   still be billed afterwards could be billed before. *)
LEMMA BillsKept ==
    ASSUME NEW b \in Units, BillsBounded, stops \in Nat,
           UNCHANGED <<billed, stops>>, carried \subseteq carried',
           Alive', MayStillBill(b)' => MayStillBill(b) \/ ~Alive \/ b \notin carried
    PROVE  /\ billed'[b] <= 1 + stops'
           /\ ~Alive' \/ MayStillBill(b)' => billed'[b] <= stops'
           /\ b \notin carried' => billed'[b] = 0
<1>1. /\ billed[b] <= 1 + stops
      /\ ~Alive \/ MayStillBill(b) => billed[b] <= stops
      /\ b \notin carried => billed[b] = 0
  BY DEF BillsBounded
<1>2. MayStillBill(b)' => billed[b] <= stops
  BY <1>1
<1>3. b \notin carried' => b \notin carried
  OBVIOUS
<1> QED
  BY <1>1, <1>2, <1>3

LEMMA BillsBoundedStep ==
    ~LossyReply /\ IInv /\ BillsBounded /\ [Next]_vars => BillsBounded'
<1> SUFFICES ASSUME ~LossyReply, Types, Control, CountedOnce, Known, BillsBounded,
                    [Next]_vars, NEW b \in Units
             PROVE  /\ billed'[b] <= 1 + stops'
                    /\ ~Alive' \/ MayStillBill(b)' => billed'[b] <= stops'
                    /\ b \notin carried' => billed'[b] = 0
  BY DEF IInv, TypeOK, Stored, BillsBounded
<1> DEFINE G == /\ billed'[b] <= 1 + stops'
                /\ ~Alive' \/ MayStillBill(b)' => billed'[b] <= stops'
                /\ b \notin carried' => billed'[b] = 0
<1> HIDE DEF Keys, Writers
<1>0. /\ stops \in Nat /\ billed[b] \in Nat
      /\ meter \in [Conns -> SUBSET Units]
      /\ hand \in [Conns -> SUBSET Units]
      /\ pending \in [Keys -> SUBSET Units]
      /\ payload \in [Keys -> SUBSET Units]
      /\ push \in [Nodes -> Phases]
      /\ billed \in [Units -> Nat]
  BY DEF Types, TrafficMap
<1>00. /\ billed[b] <= 1 + stops
       /\ ~Alive \/ MayStillBill(b) => billed[b] <= stops
       /\ b \notin carried => billed[b] = 0
  BY DEF BillsBounded
<1>1. ASSUME NEW c \in Conns, NEW a \in Units, Carry(c, a) PROVE G
  <2>1. /\ Alive' /\ a \notin carried /\ carried' = carried \cup {a}
        /\ UNCHANGED <<billed, stops, hand, sweepHand, pending, payload, push>>
        /\ \A d \in Conns : meter'[d] \subseteq meter[d] \cup {a}
    BY <1>0, <1>1 DEF Carry, Alive
  <2>2. MayStillBill(b)' => MayStillBill(b) \/ b \notin carried
    BY <2>1 DEF MayStillBill
  <2> QED
    BY <1>0, <2>1, <2>2, BillsKept
<1>2. ASSUME NEW c \in Conns, SweepSwap(c) \/ DropDeregister(c) \/ Open(c) PROVE G
  <2>1. /\ Alive'
        /\ UNCHANGED <<carried, billed, stops, pending, payload, push>>
        /\ \A d \in Conns : meter'[d] \subseteq meter[d]
        /\ \A d \in Conns : hand'[d] = hand[d] \/ hand'[d] = meter[c]
        /\ sweepHand' = sweepHand \/ sweepHand' = meter[c]
    BY <1>0, <1>2 DEF SweepSwap, DropDeregister, Open, Alive
  <2>2. MayStillBill(b)' => MayStillBill(b)
    BY <2>1 DEF MayStillBill
  <2> QED
    BY <1>0, <2>1, <2>2, BillsKept
<1>3. CASE SweepAdd
  <2>1. /\ Alive' /\ sweepHand' = {}
        /\ UNCHANGED <<carried, billed, stops, meter, hand, payload, push>>
        /\ \A k \in Keys : pending'[k] \subseteq pending[k] \cup sweepHand
    BY <1>0, <1>3 DEF SweepAdd, Alive
  <2>2. MayStillBill(b)' => MayStillBill(b)
    BY <2>1 DEF MayStillBill
  <2> QED
    BY <1>0, <2>1, <2>2, BillsKept
<1>4. ASSUME NEW c \in Conns, DropRecord(c) PROVE G
  <2>1. /\ Alive'
        /\ UNCHANGED <<carried, billed, stops, meter, sweepHand, payload, push>>
        /\ \A d \in Conns : hand'[d] \subseteq hand[d]
        /\ \A k \in Keys : pending'[k] \subseteq pending[k] \cup hand[c]
    BY <1>0, <1>4 DEF DropRecord, Alive
  <2>2. MayStillBill(b)' => MayStillBill(b)
    BY <2>1 DEF MayStillBill
  <2> QED
    BY <1>0, <2>1, <2>2, BillsKept
<1>5. ASSUME NEW n \in Nodes, NEW u \in Users, Alive,
             TakeShard(n, u) \/ RestoreShard(n, u) \/ RemoveUser(n, u)
      PROVE  G
  <2>1. /\ Alive'
        /\ UNCHANGED <<carried, billed, stops, meter, hand, sweepHand, push>>
        /\ push[n] # "applied"
        /\ <<n, u>> \in Keys
    BY <1>5, PairInKeys DEF TakeShard, RestoreShard, RemoveUser, Alive
  <2>2. /\ \A k \in Keys : pending'[k] \subseteq pending[k] \cup payload[<<n, u>>]
        /\ \A k \in Keys : payload'[k] \subseteq payload[k] \cup pending[<<n, u>>]
    <3>1. ASSUME NEW k \in Keys
          PROVE  /\ pending'[k] \subseteq pending[k] \cup payload[<<n, u>>]
                 /\ payload'[k] \subseteq payload[k] \cup pending[<<n, u>>]
      <4>1. CASE TakeShard(n, u)
        BY <1>0, <2>1, <4>1 DEF TakeShard
      <4>2. CASE RestoreShard(n, u) \/ RemoveUser(n, u)
        BY <1>0, <2>1, <4>2 DEF RestoreShard, RemoveUser
      <4> QED
        BY <1>5, <4>1, <4>2
    <3> QED
      BY <3>1
  <2>3. MayStillBill(b)' => MayStillBill(b)
    BY <2>1, <2>2, PairInKeys DEF MayStillBill
  <2> QED
    BY <1>0, <2>1, <2>3, BillsKept
<1>6. ASSUME NEW n \in Nodes, Alive, PanelApply(n) PROVE G
  <2>1. /\ Alive' /\ push[n] = "posting"
        /\ UNCHANGED <<carried, stops, meter, hand, sweepHand, pending, payload>>
        /\ \A m \in Nodes : push'[m] = IF m = n THEN "applied" ELSE push[m]
    BY <1>0, <1>6 DEF PanelApply, Alive
  <2>2. CASE b \notin PayloadOf(n)
    <3>1. billed'[b] = billed[b]
      BY <1>6, <2>2 DEF PanelApply
    <3>2. MayStillBill(b)' => MayStillBill(b)
      BY <2>1 DEF MayStillBill
    <3>3. MayStillBill(b)' => billed[b] <= stops
      BY <1>00, <3>2
    <3> QED
      BY <1>00, <2>1, <3>1, <3>3
  <2>3. CASE b \in PayloadOf(n)
    <3>1. PICK u \in Users : b \in payload[<<n, u>>]
      BY <2>3 DEF PayloadOf
    <3>2. MayStillBill(b)
      BY <2>1, <3>1 DEF MayStillBill
    <3>3. billed'[b] = billed[b] \/ billed'[b] = billed[b] + 1
      BY <1>6 DEF PanelApply
    <3>4. <<n, u>> \in Keys /\ b \in carried
      BY <3>1, PairInKeys DEF Known
    <3>5. ~MayStillBill(b)'
      <4>1. \A c \in Conns : b \notin meter[c] /\ b \notin hand[c]
        BY <3>1, <3>4 DEF CountedOnce
      <4>2. b \notin sweepHand
        BY <3>1, <3>4 DEF CountedOnce
      <4>3. \A k \in Keys : b \notin pending[k]
        BY <3>1, <3>4 DEF CountedOnce
      <4>4. \A m \in Nodes, v \in Users : m # n => b \notin payload[<<m, v>>]
        <5> SUFFICES ASSUME NEW m \in Nodes, NEW v \in Users, m # n
                     PROVE  b \notin payload[<<m, v>>]
          OBVIOUS
        <5>1. <<m, v>> \in Keys /\ <<m, v>> # <<n, u>>
          BY PairInKeys
        <5>2. payload[<<m, v>>] \cap payload[<<n, u>>] = {}
          BY <3>4, <5>1 DEF CountedOnce
        <5> QED
          BY <3>1, <5>2
      <4> QED
        BY <2>1, <4>1, <4>2, <4>3, <4>4 DEF MayStillBill
    <3>6. billed[b] <= stops
      BY <1>00, <3>2
    <3> QED
      BY <1>0, <2>1, <3>3, <3>4, <3>5, <3>6
  <2> QED
    BY <2>2, <2>3
<1>7. ASSUME NEW n \in Nodes, Alive, PushOk(n) PROVE G
  <2>1. /\ Alive' /\ push[n] = "applied"
        /\ UNCHANGED <<carried, billed, stops, meter, hand, sweepHand, pending>>
        /\ \A m \in Nodes : m # n => push'[m] = push[m]
    BY <1>0, <1>7 DEF PushOk, Alive
  <2>2. \A m \in Nodes, u \in Users :
           payload'[<<m, u>>] = IF m = n THEN {} ELSE payload[<<m, u>>]
    BY <1>7, PairInKeys DEF PushOk
  <2>3. MayStillBill(b)' => MayStillBill(b)
    BY <2>1, <2>2 DEF MayStillBill
  <2> QED
    BY <1>0, <2>1, <2>3, BillsKept
(* A payload the panel has counted leaves that phase only by PushOk, as no
   reply is lost. *)
<1>8. ASSUME NEW n \in Nodes, Alive,
             \/ \E last \in BOOLEAN : StartPush(n, last)
             \/ Taken(n) \/ PushErr(n)
             \/ Restored(n) \/ AliveReported(n) \/ AliveFailed(n)
      PROVE  G
  <2>1. /\ Alive' /\ push[n] # "applied"
        /\ UNCHANGED <<carried, billed, stops, meter, hand, sweepHand, pending,
                       payload>>
    BY <1>8 DEF StartPush, Taken, PushErr, Restored, AliveReported, AliveFailed,
                Alive
  <2>2. \A m \in Nodes : m # n => push'[m] = push[m]
    BY <1>0, <1>8 DEF StartPush, Taken, PushErr, Restored, AliveReported,
                      AliveFailed
  <2>3. MayStillBill(b)' => MayStillBill(b)
    BY <2>1, <2>2 DEF MayStillBill
  <2> QED
    BY <1>0, <2>1, <2>3, BillsKept
<1>9. ASSUME NEW w \in Writers, NEW ok \in BOOLEAN, Capture(w) \/ WriteDone(w, ok)
      PROVE  G
  <2>1. /\ Alive'
        /\ UNCHANGED <<carried, billed, stops, meter, hand, sweepHand, pending,
                       payload>>
    BY <1>9 DEF Capture, WriteDone, Alive
  <2>2. \A m \in Nodes : push'[m] = push[m] \/ push[m] # "applied"
    <3>1. CASE Capture(w)
      BY <3>1 DEF Capture
    <3>2. CASE WriteDone(w, ok)
      <4>1. w \in Nodes => push[w] # "applied"
        BY <3>2 DEF WriteDone, Control, Persisting
      <4>2. \A m \in Nodes : push'[m] = push[m] \/ m = w
        BY <1>0, <3>2 DEF WriteDone
      <4> QED
        BY <4>1, <4>2
    <3> QED
      BY <1>9, <3>1, <3>2
  <2>3. MayStillBill(b)' => MayStillBill(b)
    BY <2>1, <2>2 DEF MayStillBill
  <2> QED
    BY <1>0, <2>1, <2>3, BillsKept
<1>10. CASE Exit \/ ExitFailed \/ Crash
  <2>1. UNCHANGED <<billed, carried>> /\ stops' = stops + 1
    BY <1>10 DEF Exit, ExitFailed, Crash, Stop
  <2> QED
    BY <1>0, <1>00, <2>1
<1>11. CASE Restart
  <2>1. /\ Alive' /\ ~Alive
        /\ UNCHANGED <<carried, billed, stops>>
    BY <1>11 DEF Restart, Alive
  <2> QED
    BY <1>0, <2>1, BillsKept
<1>12. CASE Signal \/ JoinAll \/ UNCHANGED vars
  <2>1. /\ UNCHANGED <<carried, billed, stops, meter, hand, sweepHand, pending,
                       payload, push>>
        /\ Alive' <=> Alive
    BY <1>12 DEF Signal, JoinAll, vars, Alive
  <2>2. MayStillBill(b)' => MayStillBill(b)
    BY <2>1 DEF MayStillBill
  <2> QED
    BY <1>00, <2>1, <2>2
<1> QED
  BY <1>1, <1>2, <1>3, <1>4, <1>5, <1>6, <1>7, <1>8, <1>9, <1>10, <1>11, <1>12
  DEF Next, DataPlane, PushLoop, Snapshots, Process

(* Unless an accepted push is reported as failed, one run of the process bills
   a unit at most once, so after so many process ends it was billed at most
   that many times and once more. *)
THEOREM OneBillPerLife == Spec => []BilledOncePerLife
<1> DEFINE J == IInv /\ (~LossyReply => BillsBounded)
<1>1. Init => J
  <2>1. Init => IInv
    BY TypeInit, CountInit DEF IInv
  <2>2. Init => BillsBounded
    BY DEF Init, BillsBounded, MayStillBill, Alive, Keys, NoTraffic
  <2> QED
    BY <2>1, <2>2
<1>2. IInv /\ [Next]_vars => IInv'
  BY TypeStep, CountStep DEF IInv
<1>3. J /\ [Next]_vars => J'
  BY <1>2, BillsBoundedStep, TrackerConstants
<1>4. J => BilledOncePerLife
  BY DEF BillsBounded, BilledOncePerLife
<1> QED
  BY <1>1, <1>3, <1>4, PTL DEF Spec
-----------------------------------------------------------------------------
(* SettledNotReplayed.  Two snapshot writers can finish in the other order
   than they captured, so it takes a process with one node and without a
   writer at the close of a connection. *)

OneWriter == Flushers = {} /\ \A m, n \in Nodes : m = n

Answered(b) == b \in settled \/ \E n \in Nodes : b \in acked[n]

(* What the panel has accepted is not held any more. *)
AnsweredNotHeld == \A b \in Units : Answered(b) => b \in carried /\ ~Held(b)

(* No snapshot, written or on its way, has what is settled, and the one being
   written for an accepted payload does not have that payload. *)
SnapshotsWithoutSettled ==
    /\ \A k \in Keys : settled \cap disk[k] = {}
    /\ \A w \in Writers, k \in Keys : job[w] = "captured" => settled \cap image[w][k] = {}
    /\ \A n \in Nodes, k \in Keys : job[n] = "captured" => acked[n] \cap image[n][k] = {}

(* A payload is accepted and not settled only during its persist, and the last
   persist of the process runs beside none of a controller. *)
PersistsAlone ==
    /\ \A n \in Nodes : acked[n] # {} => Alive /\ push[n] = "persistAccepted"
    /\ job[App] # "none" => \A n \in Nodes : push[n] = "stopped"

SInv == AnsweredNotHeld /\ SnapshotsWithoutSettled /\ PersistsAlone

(* What a step leaves in memory was there, is new or comes from the snapshot. *)
LEMMA HeldStep ==
    ASSUME Types, [Next]_vars, NEW b \in Units, Held(b)'
    PROVE  Held(b) \/ b \notin carried \/ (~Alive /\ \E k \in Keys : b \in disk[k])
<1> DEFINE G == Held(b) \/ b \notin carried \/ (~Alive /\ \E k \in Keys : b \in disk[k])
<1> HIDE DEF Keys, Writers
<1>0. /\ meter \in [Conns -> SUBSET Units]
      /\ hand \in [Conns -> SUBSET Units]
      /\ pending \in [Keys -> SUBSET Units]
      /\ payload \in [Keys -> SUBSET Units]
  BY DEF Types, TrafficMap
<1>1. ASSUME NEW c \in Conns, NEW a \in Units, Carry(c, a) PROVE G
  <2>1. /\ a \notin carried
        /\ UNCHANGED <<hand, sweepHand, pending, payload>>
        /\ \A d \in Conns : meter'[d] \subseteq meter[d] \cup {a}
    BY <1>0, <1>1 DEF Carry
  <2> QED
    BY <2>1 DEF Held
<1>2. ASSUME NEW c \in Conns, SweepSwap(c) \/ DropDeregister(c) \/ Open(c) PROVE G
  <2>1. /\ UNCHANGED <<pending, payload>>
        /\ \A d \in Conns : meter'[d] \subseteq meter[d]
        /\ \A d \in Conns : hand'[d] = hand[d] \/ hand'[d] = meter[c]
        /\ sweepHand' = sweepHand \/ sweepHand' = meter[c]
    BY <1>0, <1>2 DEF SweepSwap, DropDeregister, Open
  <2> QED
    BY <2>1 DEF Held
<1>3. CASE SweepAdd
  <2>1. /\ sweepHand' = {} /\ UNCHANGED <<meter, hand, payload>>
        /\ \A k \in Keys : pending'[k] \subseteq pending[k] \cup sweepHand
    BY <1>0, <1>3 DEF SweepAdd
  <2> QED
    BY <2>1 DEF Held
<1>4. ASSUME NEW c \in Conns, DropRecord(c) PROVE G
  <2>1. /\ UNCHANGED <<meter, sweepHand, payload>>
        /\ \A d \in Conns : hand'[d] \subseteq hand[d]
        /\ \A k \in Keys : pending'[k] \subseteq pending[k] \cup hand[c]
    BY <1>0, <1>4 DEF DropRecord
  <2> QED
    BY <2>1 DEF Held
<1>5. ASSUME NEW n \in Nodes, NEW u \in Users,
             TakeShard(n, u) \/ RestoreShard(n, u) \/ RemoveUser(n, u)
      PROVE  G
  <2>1. UNCHANGED <<meter, hand, sweepHand>> /\ <<n, u>> \in Keys
    BY <1>5, PairInKeys DEF TakeShard, RestoreShard, RemoveUser
  <2>2. ASSUME NEW k \in Keys
        PROVE  /\ pending'[k] \subseteq pending[k] \cup payload[<<n, u>>]
               /\ payload'[k] \subseteq payload[k] \cup pending[<<n, u>>]
    <3>1. CASE TakeShard(n, u)
      BY <1>0, <2>1, <3>1 DEF TakeShard
    <3>2. CASE RestoreShard(n, u) \/ RemoveUser(n, u)
      BY <1>0, <2>1, <3>2 DEF RestoreShard, RemoveUser
    <3> QED
      BY <1>5, <3>1, <3>2
  <2> QED
    BY <2>1, <2>2 DEF Held
<1>6. ASSUME NEW n \in Nodes, PushOk(n) PROVE G
  <2>1. UNCHANGED <<meter, hand, sweepHand, pending>>
    BY <1>6 DEF PushOk
  <2>2. \A k \in Keys : payload'[k] \subseteq payload[k]
    BY <1>0, <1>6 DEF PushOk
  <2> QED
    BY <2>1, <2>2 DEF Held
<1>7. ASSUME NEW n \in Nodes,
             \/ \E last \in BOOLEAN : StartPush(n, last)
             \/ Taken(n) \/ PanelApply(n) \/ PushErr(n)
             \/ Restored(n) \/ AliveReported(n) \/ AliveFailed(n)
      PROVE  G
  <2>1. UNCHANGED <<meter, hand, sweepHand, pending, payload>>
    BY <1>7 DEF StartPush, Taken, PanelApply, PushErr, Restored, AliveReported, AliveFailed
  <2> QED
    BY <2>1 DEF Held
<1>8. ASSUME NEW w \in Writers, NEW ok \in BOOLEAN, Capture(w) \/ WriteDone(w, ok) PROVE G
  <2>1. UNCHANGED <<meter, hand, sweepHand, pending, payload>>
    BY <1>8 DEF Capture, WriteDone
  <2> QED
    BY <2>1 DEF Held
<1>9. CASE Exit \/ ExitFailed \/ Crash
  <2>1. Stop
    BY <1>9 DEF Exit, ExitFailed, Crash
  <2>2. /\ \A c \in Conns : meter'[c] = {} /\ hand'[c] = {}
        /\ sweepHand' = {} /\ \A k \in Keys : pending'[k] = {} /\ payload'[k] = {}
    BY <2>1 DEF Stop, NoTraffic
  <2> QED
    BY <2>2 DEF Held
<1>10. CASE Restart
  <2>1. /\ ~Alive /\ pending' = disk /\ UNCHANGED <<meter, hand, sweepHand, payload>>
    BY <1>10 DEF Restart, Alive
  <2> QED
    BY <2>1 DEF Held
<1>11. CASE Signal \/ JoinAll \/ UNCHANGED vars
  <2>1. UNCHANGED <<meter, hand, sweepHand, pending, payload>>
    BY <1>11 DEF Signal, JoinAll, vars
  <2> QED
    BY <2>1 DEF Held
<1> QED
  BY ZenonT(40), <1>1, <1>2, <1>3, <1>4, <1>5, <1>6, <1>7, <1>8, <1>9, <1>10, <1>11
  DEF Next, DataPlane, PushLoop, Snapshots, Process

LEMMA PersistsAloneStep ==
    Types /\ Control /\ PersistsAlone /\ [Next]_vars => PersistsAlone'
<1> SUFFICES ASSUME Types, Control, PersistsAlone, [Next]_vars PROVE PersistsAlone'
  OBVIOUS
<1> HIDE DEF Keys, Writers
<1>0. /\ push \in [Nodes -> Phases] /\ acked \in [Nodes -> SUBSET Units]
      /\ job \in [Writers -> {"none", "queued", "captured"}]
      /\ App \in Writers /\ App \notin Nodes /\ Nodes \subseteq Writers
  BY TrackerConstants DEF Types, Writers
<1>1. CASE /\ UNCHANGED <<push, acked>> /\ job'[App] = job[App]
           /\ Alive => Alive'
  BY <1>1 DEF PersistsAlone
(* A controller moves that has not stopped and awaits no accepted persist. *)
<1>2. ASSUME NEW n \in Nodes, push[n] \notin {"stopped", "persistAccepted"}, Alive',
             \A m \in Nodes : m # n => push'[m] = push[m] /\ acked'[m] = acked[m],
             acked'[n] = acked[n] \/ push'[n] = "persistAccepted", job'[App] = job[App]
      PROVE  PersistsAlone'
  <2>1. acked[n] = {} /\ job[App] = "none"
    BY <1>2 DEF PersistsAlone
  <2> QED
    BY <1>2, <2>1 DEF PersistsAlone
<1>3. ASSUME NEW c \in Conns, Open(c) \/ SweepSwap(c) \/ DropDeregister(c) \/ DropRecord(c)
      PROVE  PersistsAlone'
  <2>1. UNCHANGED <<push, acked>> /\ (Alive => Alive')
    BY <1>3 DEF Open, SweepSwap, DropDeregister, DropRecord, Alive
  <2>2. job'[App] = job[App]
    <3>1. CASE DropRecord(c)
      <4>1. UNCHANGED job \/ \E f \in Flushers : job' = [job EXCEPT ![f] = "queued"]
        BY <3>1 DEF DropRecord, FlushPending
      <4>2. App \notin Flushers
        BY TrackerConstants
      <4> QED
        BY <1>0, <4>1, <4>2
    <3>2. CASE Open(c) \/ SweepSwap(c) \/ DropDeregister(c)
      BY <3>2 DEF Open, SweepSwap, DropDeregister
    <3> QED
      BY <1>3, <3>1, <3>2
  <2> QED
    BY <1>1, <2>1, <2>2
<1>4. CASE SweepAdd \/ (\E c \in Conns, b \in Units : Carry(c, b)) \/ Signal \/ UNCHANGED vars
           \/ Restart
  <2>1. UNCHANGED <<push, acked, job>> /\ (Alive => Alive')
    BY <1>4 DEF SweepAdd, Carry, Signal, Restart, vars, Alive
  <2> QED
    BY <1>1, <2>1
<1>5. ASSUME NEW n \in Nodes, NEW u \in Users,
             TakeShard(n, u) \/ RestoreShard(n, u) \/ RemoveUser(n, u)
      PROVE  PersistsAlone'
  <2>1. UNCHANGED <<push, acked, job, life>>
    BY <1>5 DEF TakeShard, RestoreShard, RemoveUser
  <2> QED
    BY <1>1, <2>1 DEF Alive
<1>6. ASSUME NEW n \in Nodes, NEW last \in BOOLEAN, Alive,
             \/ StartPush(n, last) \/ Taken(n) \/ PanelApply(n) \/ PushErr(n)
             \/ Restored(n) \/ AliveReported(n) \/ AliveFailed(n)
      PROVE  PersistsAlone'
  <2>1. push[n] \notin {"stopped", "persistAccepted"} /\ Alive' /\ UNCHANGED acked
    BY <1>6 DEF StartPush, Taken, PanelApply, PushErr, Restored, AliveReported, AliveFailed, Alive
  <2>2. \A m \in Nodes : m # n => push'[m] = push[m]
    BY <1>0, <1>6 DEF StartPush, Taken, PanelApply, PushErr, Restored, AliveReported, AliveFailed
  <2>3. UNCHANGED job \/ job' = [job EXCEPT ![n] = "queued"]
    BY <1>6 DEF StartPush, Taken, PanelApply, PushErr, Restored, AliveReported, AliveFailed
  <2>4. job'[App] = job[App]
    BY <1>0, <2>3
  <2> QED
    BY <1>2, <2>1, <2>2, <2>4
<1>7. ASSUME NEW n \in Nodes, Alive, PushOk(n) PROVE PersistsAlone'
  <2>1. /\ push[n] \notin {"stopped", "persistAccepted"} /\ Alive'
        /\ push' = [push EXCEPT ![n] = "persistAccepted"]
        /\ acked' = [acked EXCEPT ![n] = PayloadOf(n)]
        /\ job' = [job EXCEPT ![n] = "queued"]
    BY <1>7 DEF PushOk, Alive
  <2>2. /\ \A m \in Nodes : m # n => push'[m] = push[m] /\ acked'[m] = acked[m]
        /\ push'[n] = "persistAccepted" /\ job'[App] = job[App]
    BY <1>0, <2>1
  <2> QED
    BY <1>2, <2>1, <2>2
<1>8. ASSUME NEW w \in Writers, Capture(w) PROVE PersistsAlone'
  <2>1. /\ UNCHANGED <<push, acked, life>> /\ job[w] = "queued"
        /\ job' = [job EXCEPT ![w] = "captured"]
    BY <1>8 DEF Capture
  <2>2. job'[App] # "none" => job[App] # "none"
    BY <1>0, <2>1
  <2> QED
    BY <2>1, <2>2 DEF PersistsAlone, Alive
<1>9. ASSUME NEW w \in Writers, NEW ok \in BOOLEAN, WriteDone(w, ok) PROVE PersistsAlone'
  <2>1. /\ job' = [job EXCEPT ![w] = "none"] /\ job[w] = "captured" /\ Alive'
    BY <1>9 DEF WriteDone, Alive
  <2>2. job'[App] # "none" => job[App] # "none"
    BY <1>0, <2>1
  <2>3. CASE w \in Nodes
    <3>1. push' = [push EXCEPT ![w] = AfterPersist(w, ok)] /\ acked' = [acked EXCEPT ![w] = {}]
      BY <1>9, <2>3 DEF WriteDone
    <3>2. /\ \A m \in Nodes : m # w => push'[m] = push[m] /\ acked'[m] = acked[m]
          /\ acked'[w] = {}
      BY <1>0, <2>3, <3>1
    <3>3. push[w] \in Persisting
      BY <2>1, <2>3 DEF Control
    <3>4. job[App] = "none"
      BY <2>3, <3>3 DEF PersistsAlone, Persisting
    <3> QED
      BY <2>1, <2>2, <3>2, <3>4 DEF PersistsAlone
  <2>4. CASE w \notin Nodes
    <3>1. UNCHANGED <<push, acked>>
      BY <1>9, <2>4 DEF WriteDone
    <3> QED
      BY <2>1, <2>2, <3>1 DEF PersistsAlone
  <2> QED
    BY <2>3, <2>4
<1>10. CASE JoinAll
  <2>1. (\A n \in Nodes : push'[n] = "stopped") /\ UNCHANGED <<push, acked, life>>
    BY <1>10 DEF JoinAll
  <2> QED
    BY <2>1 DEF PersistsAlone, Alive
<1>11. CASE Exit \/ ExitFailed \/ Crash
  <2>1. Stop
    BY <1>11 DEF Exit, ExitFailed, Crash
  <2>2. (\A n \in Nodes : acked'[n] = {}) /\ job'[App] = "none"
    BY <1>0, <2>1 DEF Stop
  <2> QED
    BY <2>2 DEF PersistsAlone
<1> QED
  BY ZenonT(40), <1>3, <1>4, <1>5, <1>6, <1>7, <1>8, <1>9, <1>10, <1>11
  DEF Next, DataPlane, PushLoop, Snapshots, Process

(* What is accepted and what is settled grow by PushOk and by the end of the
   write that a controller awaits, and by nothing else. *)
LEMMA AnsweredStep ==
    ASSUME Types, [Next]_vars, NEW b \in Units, Answered(b)'
    PROVE  Answered(b) \/ \E n \in Nodes : PushOk(n) /\ b \in PayloadOf(n)
<1> HIDE DEF Keys, Writers
<1>0. acked \in [Nodes -> SUBSET Units]
  BY DEF Types
<1>1. CASE UNCHANGED <<acked, settled>>
  BY <1>1 DEF Answered
<1>2. ASSUME NEW n \in Nodes, PushOk(n)
      PROVE  Answered(b) \/ \E m \in Nodes : PushOk(m) /\ b \in PayloadOf(m)
  <2>1. UNCHANGED settled /\ \A m \in Nodes : acked'[m] = IF m = n THEN PayloadOf(n) ELSE acked[m]
    BY <1>0, <1>2 DEF PushOk
  <2> QED
    BY <1>2, <2>1 DEF Answered
<1>3. ASSUME NEW w \in Writers, NEW ok \in BOOLEAN, WriteDone(w, ok) PROVE Answered(b)
  <2>1. CASE w \in Nodes
    <3>1. /\ acked' = [acked EXCEPT ![w] = {}]
          /\ settled' = IF ok THEN settled \cup acked[w] ELSE settled
      BY <1>3, <2>1 DEF WriteDone
    <3>2. \A m \in Nodes : acked'[m] \subseteq acked[m]
      BY <1>0, <3>1
    <3> QED
      BY <2>1, <3>1, <3>2 DEF Answered
  <2>2. CASE w \notin Nodes
    BY <1>1, <1>3, <2>2 DEF WriteDone, Answered
  <2> QED
    BY <2>1, <2>2
<1>4. CASE Exit \/ ExitFailed \/ Crash
  <2>1. Stop
    BY <1>4 DEF Exit, ExitFailed, Crash
  <2>2. (\A n \in Nodes : acked'[n] = {}) /\ UNCHANGED settled
    BY <2>1 DEF Stop
  <2> QED
    BY <2>2 DEF Answered
<1>5. ASSUME NEW n \in Nodes, NEW u \in Users,
             TakeShard(n, u) \/ RestoreShard(n, u) \/ RemoveUser(n, u)
      PROVE  UNCHANGED <<acked, settled>>
  BY <1>5 DEF TakeShard, RestoreShard, RemoveUser
<1>6. ASSUME NEW n \in Nodes, NEW last \in BOOLEAN,
             \/ StartPush(n, last) \/ Taken(n) \/ PanelApply(n) \/ PushErr(n)
             \/ Restored(n) \/ AliveReported(n) \/ AliveFailed(n)
      PROVE  UNCHANGED <<acked, settled>>
  BY <1>6 DEF StartPush, Taken, PanelApply, PushErr, Restored, AliveReported, AliveFailed
<1>7. ASSUME NEW c \in Conns, Open(c) \/ SweepSwap(c) \/ DropDeregister(c) \/ DropRecord(c)
      PROVE  UNCHANGED <<acked, settled>>
  BY <1>7 DEF Open, SweepSwap, DropDeregister, DropRecord
<1>8. CASE SweepAdd \/ (\E c \in Conns, a \in Units : Carry(c, a)) \/ Signal \/ UNCHANGED vars
           \/ Restart \/ JoinAll \/ (\E w \in Writers : Capture(w))
  BY <1>1, <1>8 DEF SweepAdd, Carry, Signal, Restart, JoinAll, Capture, vars
<1> QED
  BY ZenonT(40), <1>1, <1>2, <1>3, <1>4, <1>5, <1>6, <1>7, <1>8
  DEF Next, DataPlane, PushLoop, Snapshots, Process

LEMMA CarriedGrows == Types /\ [Next]_vars => carried \subseteq carried'
<1> SUFFICES ASSUME [Next]_vars PROVE carried \subseteq carried'
  OBVIOUS
<1>1. (\E c \in Conns, b \in Units : Carry(c, b)) \/ carried' = carried
  BY ZenonT(40) DEF Next, vars, DataPlane, Open, SweepSwap, SweepAdd, DropDeregister, DropRecord,
     PushLoop, StartPush, TakeShard, RestoreShard, RemoveUser, Taken, PanelApply, PushOk, PushErr,
     Restored, AliveReported, AliveFailed, Snapshots, Capture, WriteDone, Process, Signal,
     JoinAll, Exit, ExitFailed, Crash, Stop, Restart
<1> QED
  BY <1>1 DEF Carry

LEMMA AnsweredNotHeldStep ==
    IInv /\ SInv /\ [Next]_vars => AnsweredNotHeld'
<1> SUFFICES ASSUME Types, CountedOnce, Known, AnsweredNotHeld, SnapshotsWithoutSettled,
                    PersistsAlone, [Next]_vars, NEW b \in Units, Answered(b)'
             PROVE  b \in carried' /\ ~Held(b)'
  BY DEF IInv, TypeOK, Stored, SInv, AnsweredNotHeld
<1> HIDE DEF Keys, Writers
<1>1. CASE Answered(b)
  <2>1. b \in carried /\ ~Held(b)
    BY <1>1 DEF AnsweredNotHeld
  <2>2. ASSUME ~Alive, NEW k \in Keys PROVE b \notin disk[k]
    <3>1. b \in settled
      BY <1>1, <2>2 DEF PersistsAlone, Answered
    <3> QED
      BY <3>1 DEF SnapshotsWithoutSettled
  <2> QED
    BY <2>1, <2>2, HeldStep, CarriedGrows
<1>2. ASSUME NEW n \in Nodes, PushOk(n), b \in PayloadOf(n) PROVE b \in carried' /\ ~Held(b)'
  <2>1. PICK u \in Users : b \in payload[<<n, u>>]
    BY <1>2 DEF PayloadOf
  <2>2. <<n, u>> \in Keys /\ b \in carried
    BY <2>1, PairInKeys DEF Known
  <2>3. UNCHANGED <<carried, meter, hand, sweepHand, pending>>
    BY <1>2 DEF PushOk
  <2>4. /\ \A c \in Conns : b \notin meter[c] /\ b \notin hand[c]
        /\ b \notin sweepHand
        /\ \A k \in Keys : b \notin pending[k]
    BY <2>1, <2>2 DEF CountedOnce
  <2>5. ASSUME NEW k \in Keys PROVE b \notin payload'[k]
    <3>1. payload'[k] = IF k[1] = n THEN {} ELSE payload[k]
      BY <1>2 DEF PushOk
    <3>2. CASE k[1] # n
      <4>1. k # <<n, u>>
        BY <3>2
      <4>2. payload[k] \cap payload[<<n, u>>] = {}
        BY <2>2, <4>1 DEF CountedOnce
      <4> QED
        BY <2>1, <3>1, <3>2, <4>2
    <3> QED
      BY <3>1, <3>2
  <2> QED
    BY <2>2, <2>3, <2>4, <2>5 DEF Held
<1> QED
  BY <1>1, <1>2, AnsweredStep

LEMMA SnapshotsStep ==
    OneWriter /\ IInv /\ SInv /\ [Next]_vars => SnapshotsWithoutSettled'
<1> SUFFICES ASSUME OneWriter, Types, Control, AnsweredNotHeld, SnapshotsWithoutSettled,
                    PersistsAlone, [Next]_vars
             PROVE  SnapshotsWithoutSettled'
  BY DEF IInv, TypeOK, SInv
<1> HIDE DEF Keys, Writers
<1>0. /\ job \in [Writers -> {"none", "queued", "captured"}]
      /\ image \in [Writers -> TrafficMap] /\ disk \in TrafficMap
      /\ acked \in [Nodes -> SUBSET Units] /\ settled \subseteq Units
      /\ pending \in [Keys -> SUBSET Units] /\ Nodes \subseteq Writers
  BY DEF Types, Writers, TrafficMap
(* A step that writes nothing and captures nothing. *)
<1>1. ASSUME UNCHANGED <<settled, disk, image>>,
             \A w \in Writers : job'[w] = "captured" => job[w] = "captured",
             \A n \in Nodes : job'[n] = "captured" => acked'[n] = acked[n]
      PROVE  SnapshotsWithoutSettled'
  BY <1>0, <1>1 DEF SnapshotsWithoutSettled
<1>2. ASSUME NEW c \in Conns, Open(c) \/ SweepSwap(c) \/ DropDeregister(c) \/ DropRecord(c)
      PROVE  SnapshotsWithoutSettled'
  <2>1. UNCHANGED <<settled, disk, image, acked>>
    BY <1>2 DEF Open, SweepSwap, DropDeregister, DropRecord
  <2>2. UNCHANGED job
    BY <1>2 DEF Open, SweepSwap, DropDeregister, DropRecord, FlushPending, OneWriter
  <2> QED
    BY <1>1, <2>1, <2>2
<1>3. CASE SweepAdd \/ (\E c \in Conns, b \in Units : Carry(c, b)) \/ Signal \/ UNCHANGED vars
           \/ Restart
  <2>1. UNCHANGED <<settled, disk, image, acked, job>>
    BY <1>3 DEF SweepAdd, Carry, Signal, Restart, vars
  <2> QED
    BY <1>1, <2>1
<1>4. ASSUME NEW n \in Nodes, NEW u \in Users,
             TakeShard(n, u) \/ RestoreShard(n, u) \/ RemoveUser(n, u)
      PROVE  SnapshotsWithoutSettled'
  <2>1. UNCHANGED <<settled, disk, image, acked, job>>
    BY <1>4 DEF TakeShard, RestoreShard, RemoveUser
  <2> QED
    BY <1>1, <2>1
<1>5. ASSUME NEW n \in Nodes, NEW last \in BOOLEAN,
             \/ StartPush(n, last) \/ Taken(n) \/ PanelApply(n) \/ PushErr(n)
             \/ Restored(n) \/ AliveReported(n) \/ AliveFailed(n)
      PROVE  SnapshotsWithoutSettled'
  <2>1. UNCHANGED <<settled, disk, image, acked>>
    BY <1>5 DEF StartPush, Taken, PanelApply, PushErr, Restored, AliveReported, AliveFailed
  <2>2. UNCHANGED job \/ job' = [job EXCEPT ![n] = "queued"]
    BY <1>5 DEF StartPush, Taken, PanelApply, PushErr, Restored, AliveReported, AliveFailed
  <2>3. \A w \in Writers : job'[w] = "captured" => job[w] = "captured"
    BY <1>0, <2>2
  <2> QED
    BY <1>1, <2>1, <2>3
<1>6. ASSUME NEW n \in Nodes, PushOk(n) PROVE SnapshotsWithoutSettled'
  <2>1. /\ UNCHANGED <<settled, disk, image>> /\ acked' = [acked EXCEPT ![n] = PayloadOf(n)]
        /\ job' = [job EXCEPT ![n] = "queued"]
    BY <1>6 DEF PushOk
  <2>2. /\ \A w \in Writers : job'[w] = "captured" => job[w] = "captured"
        /\ \A m \in Nodes : job'[m] = "captured" => acked'[m] = acked[m]
    BY <1>0, <2>1
  <2> QED
    BY <1>1, <2>1, <2>2
<1>7. ASSUME NEW w \in Writers, Capture(w) PROVE SnapshotsWithoutSettled'
  <2>1. /\ UNCHANGED <<settled, disk, acked>>
        /\ job' = [job EXCEPT ![w] = "captured"] /\ image' = [image EXCEPT ![w] = pending]
    BY <1>7 DEF Capture
  <2>2. \A k \in Keys : /\ settled \cap pending[k] = {}
                        /\ \A n \in Nodes : acked[n] \cap pending[k] = {}
    BY <1>0 DEF AnsweredNotHeld, Answered, Held
  <2>3. \A x \in Writers : /\ x # w => job'[x] = job[x] /\ image'[x] = image[x]
                           /\ x = w => image'[x] = pending
    BY <1>0, <2>1
  <2> QED
    BY <1>0, <2>1, <2>2, <2>3 DEF SnapshotsWithoutSettled
<1>8. ASSUME NEW w \in Writers, NEW ok \in BOOLEAN, WriteDone(w, ok)
      PROVE  SnapshotsWithoutSettled'
  <2>1. /\ job[w] = "captured" /\ job' = [job EXCEPT ![w] = "none"]
        /\ image' = [image EXCEPT ![w] = NoTraffic]
        /\ disk' = IF ok THEN image[w] ELSE disk
    BY <1>8 DEF WriteDone
  <2>2. \A x \in Writers : job'[x] = "captured" => x # w /\ job[x] = "captured" /\ image'[x] = image[x]
    BY <1>0, <2>1
  <2>3. CASE w \in Nodes
    <3>1. /\ settled' = IF ok THEN settled \cup acked[w] ELSE settled
      BY <1>8, <2>3 DEF WriteDone
    <3>2. push[w] \in Persisting
      BY <2>1, <2>3 DEF Control
    <3>3. job[App] = "none"
      BY <2>3, <3>2 DEF PersistsAlone, Persisting
    <3>4. \A x \in Writers : job'[x] # "captured"
      <4>1. ASSUME NEW x \in Writers PROVE x = w \/ x = App
        BY <2>3 DEF Writers, OneWriter
      <4> QED
        BY <2>2, <3>3, <4>1
    <3>5. \A k \in Keys : settled' \cap disk'[k] = {}
      BY <2>1, <2>3, <3>1 DEF SnapshotsWithoutSettled
    <3> QED
      BY <1>0, <3>4, <3>5 DEF SnapshotsWithoutSettled
  <2>4. CASE w \notin Nodes
    <3>1. UNCHANGED <<settled, acked>>
      BY <1>8, <2>4 DEF WriteDone
    <3>2. \A k \in Keys : settled' \cap disk'[k] = {}
      BY <2>1, <3>1 DEF SnapshotsWithoutSettled
    <3> QED
      BY <1>0, <2>2, <3>1, <3>2 DEF SnapshotsWithoutSettled
  <2> QED
    BY <2>3, <2>4
<1>9. CASE JoinAll
  <2>1. UNCHANGED <<settled, disk, image, acked>> /\ job' = [job EXCEPT ![App] = "queued"]
    BY <1>9 DEF JoinAll
  <2>2. \A w \in Writers : job'[w] = "captured" => job[w] = "captured"
    BY <1>0, <2>1
  <2> QED
    BY <1>1, <2>1, <2>2
<1>10. CASE Exit \/ ExitFailed \/ Crash
  <2>1. Stop
    BY <1>10 DEF Exit, ExitFailed, Crash
  <2>2. UNCHANGED <<settled, disk>> /\ \A w \in Writers : job'[w] = "none"
    BY <2>1 DEF Stop
  <2> QED
    BY <1>0, <2>2 DEF SnapshotsWithoutSettled
<1> QED
  BY ZenonT(40), <1>2, <1>3, <1>4, <1>5, <1>6, <1>7, <1>8, <1>9, <1>10
  DEF Next, DataPlane, PushLoop, Snapshots, Process

(* A process with one node that does not write at the close of a connection
   never counts again what the panel has accepted and a snapshot has settled:
   not in the process that was answered, and not after a restart from whatever
   snapshot is on disk, whichever writes failed and wherever it was killed. *)
THEOREM SettledStaysSettled == Spec => [](OneWriter => SettledNotReplayed)
<1> DEFINE J == IInv /\ (OneWriter => SInv)
<1>1. Init => J
  <2>1. Init => IInv
    BY TypeInit, CountInit DEF IInv
  <2>2. ASSUME Init PROVE SInv
    <3>1. settled = {} /\ (\A n \in Nodes : acked[n] = {}) /\ \A w \in Writers : job[w] = "none"
      BY <2>2 DEF Init
    <3>2. job[App] = "none"
      BY <3>1 DEF Writers
    <3>3. Nodes \subseteq Writers
      BY DEF Writers
    <3> QED
      BY <3>1, <3>2, <3>3
      DEF SInv, AnsweredNotHeld, Answered, SnapshotsWithoutSettled, PersistsAlone
  <2> QED
    BY <2>1, <2>2
<1>2. IInv /\ [Next]_vars => IInv'
  BY TypeStep, CountStep DEF IInv
<1>3. OneWriter' = OneWriter
  BY DEF OneWriter
<1>4. J /\ [Next]_vars => J'
  <2> SUFFICES ASSUME IInv, OneWriter => SInv, [Next]_vars PROVE J'
    OBVIOUS
  <2>1. ASSUME OneWriter PROVE SInv'
    BY <2>1, AnsweredNotHeldStep, SnapshotsStep, PersistsAloneStep DEF IInv, TypeOK, SInv
  <2> QED
    BY <1>2, <1>3, <2>1
<1>5. J => (OneWriter => SettledNotReplayed)
  <2> SUFFICES ASSUME Types, SInv PROVE SettledNotReplayed
    BY DEF IInv, TypeOK
  <2> QED
    BY DEF Types, SInv, AnsweredNotHeld, Answered, Held, SettledNotReplayed
<1> QED
  BY <1>1, <1>4, <1>5, PTL DEF Spec
=============================================================================
