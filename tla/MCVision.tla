------------------------------ MODULE MCVision ------------------------------
(***************************************************************************)
(* Instances of Vision for TLC.                                            *)
(***************************************************************************)
EXTENDS Vision

TlsRecord(kind) == <<<<kind, 1>>, <<kind, 2>>>>
RawBytes == <<"raw", 0>>
HelloLike == <<"like", 0>>
Stream(who, what) == [role |-> who, data |-> what]

(* TLS 1.3 both ways, TLS 1.2, other bytes behind a handshake, no TLS at all and
   too much for one packet, and bytes that look like the beginning of a handshake,
   at the end and before one. *)
Direct13 == Stream("server", TlsRecord("sh13") \o TlsRecord("app") \o TlsRecord("app"))
SixStreams ==
    {Direct13,
     Stream("client", TlsRecord("ch") \o TlsRecord("app") \o <<<<"app", 1>>>>),
     Stream("server", TlsRecord("sh12") \o TlsRecord("app")),
     Stream("client", TlsRecord("ch") \o <<RawBytes, RawBytes>>),
     Stream("client", <<RawBytes, RawBytes, RawBytes, HelloLike>>),
     Stream("client", <<RawBytes, HelloLike>> \o TlsRecord("ch"))}

(* The components that do not stream have one initial state. *)
OneStream == Direct13
Only13 == {Direct13}
=============================================================================
