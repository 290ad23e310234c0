------------------------------ MODULE Selector ------------------------------
(***************************************************************************)
(* ClientProxySelector: the ordered rules that allow or block a            *)
(* destination, and the LRU cache of their decisions.  A judgement looks    *)
(* the destination up in the cache and otherwise tries one matcher after    *)
(* the other; a matcher may await the resolver, so judgements of several   *)
(* connections, and changes of what the resolver answers, interleave.      *)
(*                                                                         *)
(* A hostname is a sequence of labels, top level first, and a spelling     *)
(* (upper); the destination by IP has the name <<>>.  A mask is a set of   *)
(* addresses; keyword, full, suffix and regex matchers, which all ignore   *)
(* the case, are the set of names they match.                              *)
(***************************************************************************)
EXTENDS Integers, Sequences, SequencesExt

CONSTANTS
    Setups,          \* the rule lists and whether they resolve rule hostnames
    Dests,           \* the destinations that are asked for
    Protos,          \* what sniffing may find, with "none"
    Judges,          \* connections being judged at once
    Answers,         \* answers of the resolver: sequences of addresses, <<>> is an error
    CacheCap,        \* RoutingCache capacity
    RuleThreshold,   \* CACHE_RULE_THRESHOLD
    MaxJudged,       \* bound: judgements
    MaxAnswers       \* bound: changes of an answer

NoIp == 0
NoDest == [name |-> <<>>, upper |-> FALSE, ip |-> NoIp, port |-> 0]

(* A destination, and a matcher; each kind of matcher has its own fields. *)
Location == [name : Seq(STRING), upper : BOOLEAN, ip : Nat, port : Nat]
Matcher ==
    [kind : {"mask", "names", "proto"}, name : Seq(STRING), upper : BOOLEAN, ips : SUBSET Nat,
     any : BOOLEAN, port : Nat, names : SUBSET Seq(STRING), proto : STRING]

ASSUME SelectorBounds ==
    /\ Setups \subseteq
          [resolve : BOOLEAN,
           rules : Seq([matchers : Seq(Matcher) \ {<<>>}, allow : BOOLEAN, override : Location])]
    /\ Dests \subseteq Location /\ Protos \subseteq STRING
    /\ CacheCap \in Nat /\ RuleThreshold \in Nat
    /\ MaxJudged \in Nat /\ MaxAnswers \in Nat
    /\ Answers \subseteq Seq(Nat \ {NoIp})

VARIABLES
    setup,    \* [rules, resolve]
    dns,      \* what the resolver answers for a name
    seen,     \* the answers it has given for a name so far
    routes,   \* the decisions cached, the latest insertion first
    judge,    \* the judgements
    judged,   \* judgements so far
    answered  \* changes of an answer so far

selectorVars == <<setup, dns, seen, routes, judge, judged, answered>>

RuleNames(s) ==
    UNION {{s.rules[i].matchers[j].name : j \in 1..Len(s.rules[i].matchers)} :
           i \in 1..Len(s.rules)}
Hosts == ({d.name : d \in Dests} \cup UNION {RuleNames(s) : s \in Setups}) \ {<<>>}

Rule(i) == setup.rules[i]

Block == [rule |-> 0, to |-> NoDest, ip |-> NoIp]
JudgeFailed == [rule |-> -1, to |-> NoDest, ip |-> NoIp]

Resting ==
    [at |-> "idle", dest |-> NoDest, proto |-> "none", ip |-> NoIp, pos |-> <<1, 1>>,
     out |-> Block]

----------------------------------------------------------------------------
(* The cache. *)

(* RoutingCacheKey::from_location: the hostname in lower case, and the port. *)
RouteKey(d) == [name |-> d.name, ip |-> d.ip, port |-> d.port]

(* with_options_and_cache_size: no cache beside protocol matchers, and none
   for a few rules that resolve nothing. *)
CacheOn ==
    /\ \A i \in 1..Len(setup.rules) :
          \A j \in 1..Len(Rule(i).matchers) : Rule(i).matchers[j].kind # "proto"
    /\ setup.resolve \/ Len(setup.rules) > RuleThreshold

Hits(d) == {i \in 1..Len(routes) : routes[i].key = RouteKey(d)}

(* RoutingCache::insert: an entry of the key gives way, then the oldest one.  A
   lookup peeks, so only insertions order the cache. *)
Inserted(d, i) ==
    LET kept == IF Hits(d) = {} THEN routes
                ELSE RemoveAt(routes, CHOOSE n \in Hits(d) : TRUE)
        cap == IF CacheCap = 0 THEN 1 ELSE CacheCap
    IN  <<[key |-> RouteKey(d), rule |-> i]>> \o
        IF Len(kept) < cap THEN kept ELSE SubSeq(kept, 1, cap - 1)

(* ConnectAction::to_decision; i = 0 when no rule matched.  An override is not
   what was resolved; with port 0 it takes the port asked for. *)
ToDecision(i, d, ip) ==
    IF i = 0 \/ ~Rule(i).allow THEN Block
    ELSE IF Rule(i).override = NoDest THEN [rule |-> i, to |-> d, ip |-> ip]
    ELSE [rule |-> i, ip |-> NoIp,
          to |-> IF Rule(i).override.port > 0 THEN Rule(i).override
                 ELSE [Rule(i).override EXCEPT !.port = d.port]]

----------------------------------------------------------------------------
(* match_matcher and match_mask. *)

(* matches_domain compares as spelled. *)
MatchesDomain(m, d) == IsPrefix(m.name, d.name) /\ m.upper = d.upper

PortFits(m, d) == m.port = 0 \/ m.port = d.port

(* The matcher compares addresses, so the destination has to be resolved. *)
NeedsIp(m, d) ==
    /\ m.kind = "mask" /\ PortFits(m, d) /\ ~m.any
    /\ m.name # <<>> => d.name = <<>> /\ setup.resolve

(* Does the matcher match, the destination being resolved to ip and the name
   in the rule to the addresses of answer? *)
Matches(m, d, proto, ip, answer) ==
    CASE m.kind = "names" -> d.name \in m.names
      [] m.kind = "proto" -> proto = m.proto
      [] m.kind = "mask" ->
            /\ PortFits(m, d)
            /\ \/ m.any
               \/ IF NeedsIp(m, d)
                  THEN ip \in (IF m.name = <<>> THEN m.ips ELSE ToSet(answer))
                  ELSE d.name # <<>> /\ MatchesDomain(m, d)

AnswerFor(name) == IF name = <<>> THEN <<>> ELSE dns[name]

(* resolve_single_address and resolve_location: the first address. *)
Resolved(d) ==
    IF d.name = <<>> THEN d.ip
    ELSE IF dns[d.name] = <<>> THEN NoIp ELSE Head(dns[d.name])

----------------------------------------------------------------------------
(* judge_inner up to its first await: with a cached decision it is done.  The
   UDP router resolves the destination before it asks (pre). *)
Judge(c, d, proto, pre) ==
    LET ip == IF pre THEN Resolved(d) ELSE NoIp
        k == [Resting EXCEPT !.dest = d, !.proto = proto, !.ip = ip]
    IN  /\ judge[c].at # "match"
        /\ judged < MaxJudged
        /\ pre => ip # NoIp
        /\ judged' = judged + 1
        /\ judge' = [judge EXCEPT ![c] =
              IF CacheOn /\ Hits(d) # {}
              THEN [k EXCEPT !.at = "done",
                             !.out = ToDecision(routes[CHOOSE i \in Hits(d) : TRUE].rule, d, ip)]
              ELSE IF setup.rules = <<>> THEN [k EXCEPT !.at = "done"]
              ELSE [k EXCEPT !.at = "match"]]
        /\ routes' = IF CacheOn /\ Hits(d) = {} /\ setup.rules = <<>> THEN Inserted(d, 0)
                     ELSE routes
        /\ UNCHANGED <<setup, dns, seen, answered>>

(* The position after a matcher that does not match, which may be the end. *)
NextPos(p) ==
    IF p[2] < Len(Rule(p[1]).matchers) THEN <<p[1], p[2] + 1>> ELSE <<p[1] + 1, 1>>

(* match_rule found rule i, or none, and judge_inner caches it. *)
Decide(c, i, ip) ==
    /\ judge' = [judge EXCEPT ![c].at = "done", ![c].ip = ip,
                              ![c].out = ToDecision(i, judge[c].dest, ip)]
    /\ routes' = IF CacheOn THEN Inserted(judge[c].dest, i) ELSE routes

(* A bug: a destination that does not resolve does not match. *)
TryMatcherUnresolved(c) ==
    LET k == judge[c]
        m == Rule(k.pos[1]).matchers[k.pos[2]]
        ip == IF NeedsIp(m, k.dest) /\ k.ip = NoIp THEN Resolved(k.dest) ELSE k.ip
        after == NextPos(k.pos)
    IN  /\ k.at = "match"
        /\ IF Matches(m, k.dest, k.proto, ip, AnswerFor(m.name))
           THEN Decide(c, k.pos[1], ip)
           ELSE IF after[1] > Len(setup.rules)
           THEN Decide(c, 0, ip)
           ELSE /\ judge' = [judge EXCEPT ![c].pos = after, ![c].ip = ip]
                /\ UNCHANGED routes
        /\ UNCHANGED <<setup, dns, seen, judged, answered>>

(* One matcher.  The destination that does not resolve fails the judgement and
   caches nothing; a rule hostname that does not resolve does not match. *)
TryMatcher(c) ==
    LET k == judge[c]
        m == Rule(k.pos[1]).matchers[k.pos[2]]
        ip == IF NeedsIp(m, k.dest) /\ k.ip = NoIp THEN Resolved(k.dest) ELSE k.ip
        after == NextPos(k.pos)
    IN  /\ k.at = "match"
        /\ IF NeedsIp(m, k.dest) /\ ip = NoIp
           THEN /\ judge' = [judge EXCEPT ![c].at = "done", ![c].out = JudgeFailed]
                /\ UNCHANGED routes
           ELSE IF Matches(m, k.dest, k.proto, ip, AnswerFor(m.name))
           THEN Decide(c, k.pos[1], ip)
           ELSE IF after[1] > Len(setup.rules)
           THEN Decide(c, 0, ip)
           ELSE /\ judge' = [judge EXCEPT ![c].pos = after, ![c].ip = ip]
                /\ UNCHANGED routes
        /\ UNCHANGED <<setup, dns, seen, judged, answered>>

(* The resolver gives another answer from now on. *)
AnswerChanges(n, a) ==
    /\ answered < MaxAnswers
    /\ dns[n] # a
    /\ dns' = [dns EXCEPT ![n] = a]
    /\ seen' = [seen EXCEPT ![n] = @ \cup {a}]
    /\ answered' = answered + 1
    /\ UNCHANGED <<setup, routes, judge, judged>>

----------------------------------------------------------------------------
SelectorInit ==
    /\ setup \in Setups
    /\ dns \in [Hosts -> Answers]
    /\ seen = [n \in Hosts |-> {dns[n]}]
    /\ routes = <<>>
    /\ judge = [c \in Judges |-> Resting]
    /\ judged = 0
    /\ answered = 0

SelectorNext ==
    \/ \E c \in Judges, d \in Dests, p \in Protos, pre \in BOOLEAN : Judge(c, d, p, pre)
    \/ \E c \in Judges : TryMatcher(c)
    \/ \E n \in Hosts, a \in Answers : AnswerChanges(n, a)

SelectorSpec == SelectorInit /\ [][SelectorNext]_selectorVars

----------------------------------------------------------------------------
(* The destinations whose decision a cache may hold for d. *)
Spellings(d) == IF CacheOn THEN {e \in Dests : RouteKey(e) = RouteKey(d)} ELSE {d}

SeenFor(name) == IF name = <<>> THEN {<<>>} ELSE seen[name]

SeenIps(d) ==
    IF d.name = <<>> THEN {d.ip} ELSE {Head(a) : a \in seen[d.name] \ {<<>>}}

(* A matcher that compares addresses was tried with one, and did not match, or
   did, under some answer the resolver has given for the name in it. *)
Passed(m, d, proto, ip) ==
    /\ NeedsIp(m, d) => ip # NoIp
    /\ \E a \in SeenFor(m.name) : ~Matches(m, d, proto, ip, a)
Met(m, d, proto, ip) ==
    /\ NeedsIp(m, d) => ip # NoIp
    /\ \E a \in SeenFor(m.name) : Matches(m, d, proto, ip, a)

(* Rule i, or none for 0, is the first to match: all matchers before one of its
   own are passed, all of them with the same address ip of the destination. *)
FirstFor(i, d, proto, ip) ==
    /\ \A r \in 1..(IF i = 0 THEN Len(setup.rules) ELSE i - 1) :
          \A j \in 1..Len(Rule(r).matchers) : Passed(Rule(r).matchers[j], d, proto, ip)
    /\ i > 0 => \E j \in 1..Len(Rule(i).matchers) :
                   /\ Met(Rule(i).matchers[j], d, proto, ip)
                   /\ \A n \in 1..(j - 1) : Passed(Rule(i).matchers[n], d, proto, ip)

(* The addresses a decision for e may rest on; NoIp if it needed none.  Without a
   cache it is the address that the decision hands on. *)
JudgedIps(k, e) == IF CacheOn THEN SeenIps(e) \cup {NoIp} ELSE {k.ip}

(* Every decision is the one the first matching rule gives to this very
   destination, port and sniffed protocol, under answers the resolver has
   really given: neither the cache and its evictions nor a judgement beside
   it brings in the verdict of something else, and no rule about addresses is
   passed over because the destination is not resolved (that judgement fails).
   What the cache may change is the spelling of the hostname and the age of the
   answer.  (judge_inner, match_rule, RoutingCache, and the rule that protocol
   matchers disable the cache.) *)
DecisionsJustified ==
    \A c \in Judges :
        LET k == judge[c]
        IN  k.at = "done" /\ k.out # JudgeFailed =>
                \E i \in 0..Len(setup.rules), e \in Spellings(k.dest) :
                    /\ k.out = ToDecision(i, k.dest, k.ip)
                    /\ \E ip \in JudgedIps(k, e) : FirstFor(i, e, k.proto, ip)
=============================================================================
