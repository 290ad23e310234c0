--------------------------- MODULE MCRuntimeGraph ---------------------------
(***************************************************************************)
(* Instances of RuntimeGraph for TLC.                                      *)
(***************************************************************************)
EXTENDS RuntimeGraph

Listener(bind, tcp, quic) == [bind |-> bind, tcp |-> tcp, quic |-> quic]
Gen(proto, nodes) == [proto |-> proto, nodes |-> nodes]

(* A public port that resolves to two addresses; the same port with a loopback
   ingress before it; another port and another protocol. *)
PlainGenerations ==
    {Gen("vless", <<Listener("pub", <<"p4", "p6">>, <<>>)>>),
     Gen("vless", <<Listener("loop", <<"lo">>, <<>>), Listener("pub", <<"p4", "p6">>, <<>>)>>),
     Gen("ss", <<Listener("alt", <<>>, <<"q4">>)>>)}

PlainAddresses == {"p4", "p6", "lo", "q4"}

(* NaiveProxy over TCP and HTTP/3 on one port. *)
CombinedGenerations ==
    {Gen("vless", <<Listener("pub", <<"p4">>, <<>>)>>),
     Gen("naive", <<Listener("pub", <<"p4">>, <<"q4">>)>>)}

CombinedAddresses == {"p4", "q4"}
=============================================================================
