----------------------------- MODULE MCForward -----------------------------
(***************************************************************************)
(* Instances for TLC of what forwards bytes and datagrams: the relay of    *)
(* two streams, the UDP sessions of the QUIC protocols, the UDP router,    *)
(* the upload sessions of XHTTP and the sessions of a kcptun server.  They *)
(* share no state in the program: a behaviour is one of one component,     *)
(* chosen in the initial state, and the others stay in theirs.             *)
(***************************************************************************)
EXTENDS Relay, QuicUdp, UdpRouter, Xhttp, Kcptun

VARIABLE which

forwardVars ==
    <<which, relayVars, quicVars, routerVars, xhttpVars, kcpVars>>

relayStays == UNCHANGED relayVars
quicStays == UNCHANGED quicVars
routerStays == UNCHANGED routerVars
xhttpStays == UNCHANGED xhttpVars
kcpStays == UNCHANGED kcpVars

(* One direction carries three bytes, the other one ends at once. *)
ThreeBytes == <<3, 0>>

(* Two requests send the same packet; packets come in the wrong order. *)
TwoPlans == {<<<<0, 1>>, <<1>>>>, <<<<2>>, <<1>>>>}
AnyPlan == CHOOSE p \in UploadPlans : TRUE

OneIp == [p \in Peers |-> "ip"]

(* The components that stay have one initial state. *)
ForwardInit ==
    /\ which \in {"relay", "quic", "router", "xhttp", "kcptun"}
    /\ RelayInit /\ QuicInit /\ RouterInit /\ XhttpInit /\ KcpInit
    /\ which # "relay" => \A d \in Dirs : ~dir[d].needFlush
    /\ which # "quic" => quic = "tuic"
    /\ which # "router" => ~needsFlush
    /\ which # "xhttp" => upload = AnyPlan

ForwardNext ==
    /\ UNCHANGED which
    /\ \/ which = "relay" /\ RelayNext
       \/ which # "relay" /\ relayStays
    /\ \/ which = "quic" /\ QuicNext
       \/ which # "quic" /\ quicStays
    /\ \/ which = "router" /\ RouterNext
       \/ which # "router" /\ routerStays
    /\ \/ which = "xhttp" /\ XhttpNext
       \/ which # "xhttp" /\ xhttpStays
    /\ \/ which = "kcptun" /\ KcpNext
       \/ which # "kcptun" /\ kcpStays

(* The component that runs is scheduled fairly. *)
ForwardSpec ==
    /\ ForwardInit /\ [][ForwardNext]_forwardVars
    /\ \/ which = "relay" /\ RelayFair
       \/ which = "quic" /\ QuicFair
       \/ which = "router" /\ RouterFair
       \/ which = "xhttp" /\ XhttpFair
       \/ which = "kcptun" /\ KcpFair
=============================================================================
