------------------------------ MODULE MCTables ------------------------------
(***************************************************************************)
(* Instances for TLC of the components that are judged by their safety     *)
(* alone: the device limit, the store of snapshots, the delta algorithms,  *)
(* the reassembly of datagrams, the UDP router, the refreshing resolver,   *)
(* the routing rules with their cache, the speed limit and the Vision      *)
(* streams.  They share no state in the program: a behaviour is one of one *)
(* component, chosen in the initial state, and the others stay in theirs.  *)
(***************************************************************************)
EXTENDS DeviceLimit, LkgStore, UserDelta, Reassembly, UdpRouter, Resolver, MCSelector,
        RateLimit, MCVision

VARIABLE which

deviceStays == UNCHANGED vars
lkgStays == UNCHANGED lkgVars
deltaStays == UNCHANGED deltaVars
reasmStays == UNCHANGED reasmVars
routerStays == UNCHANGED routerVars
resolverStays == UNCHANGED resolverVars
selectorStays == UNCHANGED selectorVars
rateStays == UNCHANGED rateVars
visionStays == UNCHANGED visionVars

StreamAndMessage == [f \in Pipes |-> IF f = "f" THEN "stream" ELSE "message"]

(* The users of a snapshot are interchangeable. *)
Symmetry == Permutations(Uids)

(* Two keys, one of them with two kinds of row. *)
ThreePayloads ==
    {[key |-> "a", kind |-> "plain"], [key |-> "b", kind |-> "limited"],
     [key |-> "a", kind |-> "off"]}

Packet(a, i, l, c, ad, n) ==
    [assoc |-> a, pid |-> i, life |-> l, count |-> c, addr |-> ad, len |-> n]

(* A packet id used again after a DISSOCIATE; two counts under one id, a packet
   that is not fragmented and one without an address; more than fits. *)
ThreeBursts ==
    {{Packet(1, 0, 0, 2, TRUE, 1), Packet(1, 0, 1, 2, TRUE, 1), Packet(2, 0, 0, 2, TRUE, 1)},
     {Packet(1, 0, 0, 2, TRUE, 1), Packet(1, 0, 0, 3, TRUE, 1), Packet(1, 1, 0, 1, FALSE, 1),
      Packet(2, 0, 0, 2, FALSE, 1)},
     {Packet(1, 0, 0, 2, TRUE, 2), Packet(1, 1, 0, 2, TRUE, 1), Packet(2, 0, 0, 3, TRUE, 1)}}

AnyBurst == CHOOSE b \in Bursts : TRUE

(* The components that stay have one initial state. *)
TablesInit ==
    /\ which \in {"device", "lkg", "delta", "reassembly", "router", "resolver", "selector",
                  "rate", "vision"}
    /\ Init /\ LkgInit /\ DeltaInit /\ ReasmInit /\ RouterInit /\ ResolverInit /\ SelectorInit
    /\ RateInit /\ VisionInit
    /\ which # "device" => \A u \in Users : limit[u] = 0
    /\ which # "lkg" => legacy = None
    /\ which # "reassembly" => rule = "hysteria2" /\ burst = AnyBurst
    /\ which # "router" => ~needsFlush
    /\ which # "selector" => setup = BlockAndDivert /\ dns = [n \in Hosts |-> <<1>>]
    /\ which # "vision" => vision = OneStream

TablesNext ==
    /\ UNCHANGED which
    /\ \/ which = "device" /\ Next
       \/ which # "device" /\ deviceStays
    /\ \/ which = "lkg" /\ LkgNext
       \/ which # "lkg" /\ lkgStays
    /\ \/ which = "delta" /\ DeltaNext
       \/ which # "delta" /\ deltaStays
    /\ \/ which = "reassembly" /\ ReasmNext
       \/ which # "reassembly" /\ reasmStays
    /\ \/ which = "router" /\ RouterNext
       \/ which # "router" /\ routerStays
    /\ \/ which = "resolver" /\ ResolverNext
       \/ which # "resolver" /\ resolverStays
    /\ \/ which = "selector" /\ SelectorNext
       \/ which # "selector" /\ selectorStays
    /\ \/ which = "rate" /\ RateNext
       \/ which # "rate" /\ rateStays
    /\ \/ which = "vision" /\ VisionNext
       \/ which # "vision" /\ visionStays

TablesSpec ==
    TablesInit /\ [][TablesNext]_<<which, vars, lkgVars, deltaVars, reasmVars, routerVars,
                                   resolverVars, selectorVars, rateVars, visionVars>>
=============================================================================
