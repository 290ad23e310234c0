----------------------------- MODULE MCSelector -----------------------------
(***************************************************************************)
(* Instances of Selector for TLC.                                          *)
(***************************************************************************)
EXTENDS Selector

Mask(name, ips, port) ==
    [kind |-> "mask", name |-> name, upper |-> FALSE, ips |-> ips, any |-> FALSE,
     port |-> port, names |-> {}, proto |-> "none"]
AnyMask == [Mask(<<>>, {}, 0) EXCEPT !.any = TRUE]
NamesMatcher(names) == [Mask(<<>>, {}, 0) EXCEPT !.kind = "names", !.names = names]
ProtoMatcher(p) == [Mask(<<>>, {}, 0) EXCEPT !.kind = "proto", !.proto = p]

Destination(name, upper, ip, port) ==
    [name |-> name, upper |-> upper, ip |-> ip, port |-> port]
AllowRule(matchers, to) == [matchers |-> matchers, allow |-> TRUE, override |-> to]
BlockRule(matchers) == [matchers |-> matchers, allow |-> FALSE, override |-> NoDest]

Site == <<"com", "site">>

(* A domain and a network are blocked and the rest is sent elsewhere; the same
   with hostnames in rules resolved; a protocol is blocked. *)
BlockAndDivert ==
    [resolve |-> FALSE,
     rules |-> <<BlockRule(<<Mask(<<"com">>, {}, 1), Mask(<<>>, {1}, 0)>>),
                 AllowRule(<<AnyMask>>, Destination(<<"else">>, FALSE, NoIp, 0))>>]
ResolveRuleNames ==
    [resolve |-> TRUE,
     rules |-> <<AllowRule(<<Mask(<<"com">>, {}, 2)>>, NoDest),
                 BlockRule(<<NamesMatcher({Site}), Mask(<<>>, {1}, 0)>>)>>]
BlockProtocol ==
    [resolve |-> FALSE,
     rules |-> <<BlockRule(<<ProtoMatcher("bt")>>),
                 AllowRule(<<Mask(<<>>, {2}, 0), NamesMatcher({Site})>>, NoDest)>>]

ThreeSetups == {BlockAndDivert, ResolveRuleNames, BlockProtocol}

(* One name in two spellings, and an address. *)
SiteTwice == {Destination(Site, FALSE, NoIp, 1), Destination(Site, TRUE, NoIp, 1)}
ThreeDests == SiteTwice \cup {Destination(<<>>, FALSE, 1, 2)}

FoundOrNot == {<<>>, <<1>>}
=============================================================================
