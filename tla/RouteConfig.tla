---------------------------- MODULE RouteConfig ----------------------------
(***************************************************************************)
(* The routing and DNS the config builders write for the two cores.  The   *)
(* user's rules are translated once for sing-box and once for Xray; each   *)
(* core's own evaluation (external) then decides where a connection goes,  *)
(* and is compared with what the rules say.                                *)
(*                                                                         *)
(* A connection: the inbound it came by, the domain it names ("" for an    *)
(* address literal), the region of its address, its port, its transport    *)
(* and the app that opened it.  A rule's `dom` and `ip` are the entries    *)
(* the user wrote: a name, an address region, "!cn" (geoip:!cn), "#" (a    *)
(* comment) or "ext" (an entry only one core knows).                       *)
(***************************************************************************)
EXTENDS Sequences, FiniteSets, Integers, Functions

CONSTANTS Conns,         \* the connections looked at
          RuleShapes,    \* the rules the user may write
          MaxRules,      \* bound: rules in the list
          MaxPort,       \* the last port (u16::MAX)
          Uids,          \* apps the per-app filter may name
          DnsHosts       \* server addresses that are domains

VARIABLES rules,         \* the enabled routing rules, in order
          opt,           \* the settings the builders read
          filter         \* settings.app_filter: uid -> none, bypass or force

routeVars == <<rules, opt, filter>>

Regions == {"cn", "us", "private"}
Domains == {"d1", "d2", ""}
Apps == {"app", ""}
Ports == 0..MaxPort
DnsPort == 1             \* the port DNS is served on

AllConns == [inb : {"socks-in", "force-in", "tun-force"}, dom : Domains, ip : Regions,
             port : Ports \ {0}, net : {"tcp", "udp"}, app : Apps]

(* A connection to an address literal names no domain.                     *)
Literal(c) == c.dom = ""

ASSUME ConnsAssumption == MaxPort \in Nat /\ DnsPort <= MaxPort /\ Conns \subseteq AllConns

(* Among them every port, transport and app, and an address literal.       *)
ASSUME ConnKindsAssumption ==
    /\ \A port \in Ports \ {0} : \E c \in Conns : c.port = port
    /\ \A net \in {"tcp", "udp"} : \E c \in Conns : c.net = net
    /\ \A app \in Apps : \E c \in Conns : c.app = app
    /\ \E c \in Conns : Literal(c)

ASSUME RulesAssumption ==
    RuleShapes \subseteq
        [out : {"direct", "proxy", "block"}, dom : SUBSET {"d1", "d2", "#", "ext"},
         ip : SUBSET (Regions \cup {"!cn", "ext"}), ports : SUBSET (Ports \X Ports),
         net : SUBSET {"tcp", "udp"}, app : SUBSET {"app"}]

ASSUME DnsAssumption == {"ip", "local"} \cap DnsHosts = {}

Strategies == {"AsIs", "IPIfNonMatch", "IPOnDemand"}
DnsAddrs == {"ip", "local"} \cup DnsHosts

(* The least of some positions in a list.                                  *)
First(hits) == CHOOSE k \in hits : \A j \in hits : k <= j

(* The parts of a list of lists, one after the other.                      *)
Concat(parts) ==
    LET upTo[n \in 0..Len(parts)] == IF n = 0 THEN <<>> ELSE upTo[n - 1] \o parts[n]
    IN  upTo[Len(parts)]

-----------------------------------------------------------------------------
(* sing-box rules (singbox_config.rs).  A field left out is the full set   *)
(* (inb, ports, net, app) or the empty one (dom, ip).                      *)

AnyPort == {<<0, MaxPort>>}
AnyNet == {"tcp", "udp"}
AnyInb == {"socks-in", "force-in", "tun-force"}

SbBare(act) == [act |-> act, inb |-> AnyInb, dom |-> {}, ip |-> {}, inv |-> FALSE, bare |-> TRUE,
                ports |-> AnyPort, net |-> AnyNet, app |-> Apps]

(* build_base_singbox_rule and push_source_matchers: a port that does not  *)
(* parse is left out; a blocked rule rejects.                              *)
BaseRule(r) ==
    [SbBare(IF r.out = "block" THEN "reject" ELSE r.out) EXCEPT
        !.ports = IF r.ports = {} THEN AnyPort ELSE r.ports,
        !.net = IF r.net = {} THEN AnyNet ELSE r.net,
        !.app = IF r.app = {} THEN Apps ELSE r.app,
        !.bare = r.ports = {} /\ r.net = {} /\ r.app = {}]

(* parse_singbox_domain: comments and external entries are nothing.        *)
ParseDomains(ds) == ds \ {"#", "ext"}

(* parse_singbox_ip: a negated region inverts the whole rule.              *)
ParseIps(is) == {IF i = "!cn" THEN "cn" ELSE i : i \in is \ {"ext"}}

DomainRule(r) ==
    IF ParseDomains(r.dom) = {} THEN <<>>
    ELSE <<[BaseRule(r) EXCEPT !.dom = ParseDomains(r.dom), !.bare = FALSE]>>

IpRule(r) ==
    IF ParseIps(r.ip) = {} THEN <<>>
    ELSE <<[BaseRule(r) EXCEPT !.ip = ParseIps(r.ip), !.inv = "!cn" \in r.ip, !.bare = FALSE]>>

(* A rule whose destinations all parse to nothing is left out.             *)
StructuredRule(r) ==
    IF r.dom = {} /\ r.ip = {}
    THEN IF BaseRule(r).bare THEN <<>> ELSE <<BaseRule(r)>>
    ELSE DomainRule(r) \o IpRule(r)

Structured(rs) == Concat([k \in DOMAIN rs |-> StructuredRule(rs[k])])
IpRules(rs) == Concat([k \in DOMAIN rs |-> IpRule(rs[k])])

PrivateRule == [SbBare("direct") EXCEPT !.ip = {"private"}, !.bare = FALSE]
Resolve == SbBare("resolve")
ForceRule(inb) == [SbBare("proxy") EXCEPT !.inb = {inb}, !.bare = FALSE]
HijackDns == [SbBare("hijack-dns") EXCEPT !.ports = {<<DnsPort, DnsPort>>}, !.bare = FALSE]

HasForce == \E u \in Uids : filter[u] = "force"

(* Mutant: no address rule after the resolve step. *)
SingboxRoute_NoRetry(rs) ==
       (IF opt.sniff THEN <<HijackDns>> ELSE <<>>)
    \o (IF HasForce THEN <<ForceRule("tun-force")>> ELSE <<>>)
    \o <<ForceRule("force-in")>>
    \o (IF opt.strategy = "IPOnDemand" THEN <<Resolve>> ELSE <<>>)
    \o <<PrivateRule>> \o Structured(rs)

SingboxRoute(rs) ==
       (IF opt.sniff THEN <<HijackDns>> ELSE <<>>)
    \o (IF HasForce THEN <<ForceRule("tun-force")>> ELSE <<>>)
    \o <<ForceRule("force-in")>>
    \o (IF opt.strategy = "IPOnDemand" THEN <<Resolve>> ELSE <<>>)
    \o <<PrivateRule>> \o Structured(rs)
    \o (IF opt.strategy = "IPIfNonMatch" THEN <<Resolve, PrivateRule>> \o IpRules(rs) ELSE <<>>)

(* matches_every_connection: no condition but ports and transports that    *)
(* cover everything.  The port ranges are merged in order of their first   *)
(* ports: a range counts when no gap is left before it, nor before those   *)
(* that start earlier.                                                     *)
NoGapBefore(ranges, q) == q[1] <= 1 \/ \E p \in ranges : p[1] < q[1] /\ q[1] <= p[2] + 1

CoversEveryPort(ranges) ==
    \E q \in ranges : /\ q[2] >= MaxPort
                      /\ \A p \in ranges : p[1] <= q[1] => NoGapBefore(ranges, p)

MatchesEveryConnection(r) ==
    /\ Len(StructuredRule(r)) = 1
    /\ LET only == StructuredRule(r)[1]
       IN  /\ only.dom = {} /\ only.ip = {} /\ ~only.inv
           /\ only.app = Apps
           /\ only.net = AnyNet
           /\ CoversEveryPort(only.ports)

(* External: sing-box's evaluation.  Destination fields are alternatives,  *)
(* the others must all hold, `invert` turns the result around, and an      *)
(* address region is known for a literal or once a domain was resolved.    *)
PortIn(ranges, p) == \E q \in ranges : q[1] <= p /\ p <= q[2]

SbMatches(r, c, known) ==
    r.inv # (/\ c.inb \in r.inb
             /\ PortIn(r.ports, c.port)
             /\ c.net \in r.net
             /\ c.app \in r.app
             /\ \/ r.dom = {} /\ r.ip = {}
                \/ c.dom \in r.dom
                \/ known /\ c.ip \in r.ip)

Resolved(route, k, c) == Literal(c) \/ \E j \in 1..(k - 1) : route[j].act = "resolve"

SbHits(route, c) ==
    {k \in DOMAIN route : route[k].act # "resolve" /\ SbMatches(route[k], c, Resolved(route, k, c))}

SbVerdict(route, c) ==
    IF SbHits(route, c) = {} THEN "proxy" ELSE route[First(SbHits(route, c))].act

-----------------------------------------------------------------------------
(* Xray rules (xray_config.rs).                                            *)

XrBare(out) == [out |-> out, inb |-> AnyInb, dom |-> {}, ip |-> {}, anyDom |-> TRUE, anyIp |-> TRUE,
                ports |-> AnyPort, net |-> AnyNet]

(* build_rule_object: entries that are comments go; if none is left of a   *)
(* list that had some, so does the rule.  A rule that names packages is    *)
(* left out, and so is one without a condition.                            *)
XrRule(r) ==
    LET dom == r.dom \ {"#"}
        ip == r.ip \ {"#"}
    IN  IF \/ r.dom # {} /\ dom = {}
           \/ r.ip # {} /\ ip = {}
           \/ r.app # {}
           \/ r.dom = {} /\ r.ip = {} /\ r.ports = {} /\ r.net = {}
        THEN <<>>
        ELSE <<[XrBare(r.out) EXCEPT
                  !.dom = dom, !.anyDom = dom = {}, !.ip = ip, !.anyIp = ip = {},
                  !.ports = IF r.ports = {} THEN AnyPort ELSE r.ports,
                  !.net = IF r.net = {} THEN AnyNet ELSE r.net]>>

UserInb == {"socks-in"}
DnsOutTag == IF opt.dnsViaProxy THEN "proxy" ELSE "direct"

(* build_routing: the force inbound, DNS of the local inbounds, the rules  *)
(* and the rest to the proxy.                                              *)
XrayRouting(rs) ==
    <<[XrBare("proxy") EXCEPT !.inb = {"force-in", "tun-force"}],
      [XrBare(DnsOutTag) EXCEPT !.inb = UserInb, !.ports = {<<DnsPort, DnsPort>>}]>>
    \o Concat([k \in DOMAIN rs |-> XrRule(rs[k])])
    \o <<[XrBare("proxy") EXCEPT !.inb = UserInb]>>

(* hijack_inbound_dns: the first rule for port 53 of the local inbounds    *)
(* goes to the `dns` outbound, and the DNS module's own queries take the   *)
(* outbound it named.                                                      *)
IsDnsRule(r) == r.ports = {<<DnsPort, DnsPort>>} /\ "socks-in" \in r.inb /\ r.inb # AnyInb

HijackInboundDns(routing) ==
    LET at == {k \in DOMAIN routing : IsDnsRule(routing[k])}
    IN  IF at = {} \/ routing[First(at)].out = "dns-out" THEN routing
        ELSE <<[XrBare(routing[First(at)].out) EXCEPT !.inb = {"dns-module"}]>>
             \o [routing EXCEPT ![First(at)].out = "dns-out"]

(* External: Xray's evaluation.  Every condition must hold; IPOnDemand     *)
(* resolves a domain for the first address condition it meets.             *)
XrMatches(r, c, strategy) ==
    /\ c.inb \in r.inb
    /\ PortIn(r.ports, c.port)
    /\ c.net \in r.net
    /\ r.anyDom \/ c.dom \in r.dom
    /\ r.anyIp \/ ( /\ Literal(c) \/ strategy = "IPOnDemand"
                    /\ c.ip \in r.ip \/ ("!cn" \in r.ip /\ c.ip # "cn") )

XrHits(routing, c, strategy) == {k \in DOMAIN routing : XrMatches(routing[k], c, strategy)}

XrVerdict(routing, c, strategy) ==
    IF XrHits(routing, c, strategy) = {} THEN "none" ELSE routing[First(XrHits(routing, c, strategy))].out

-----------------------------------------------------------------------------
(* DNS servers (build_singbox_dns, build_singbox_dns_server).  Left out:   *)
(* fake-IP answers, the probe for private addresses and the fallback among *)
(* several remote servers.                                                 *)

(* Mutant: the static hosts resolve no server. *)
DnsServer_NoHosts(tag, addr, detour) ==
    [tag |-> tag, addr |-> addr, detour |-> detour,
     resolver |-> IF addr \in DnsHosts THEN "local" ELSE "none"]

(* A server named by a domain is told who resolves it: the static hosts if *)
(* they map it, else `local`; `local` never names itself.                  *)
DnsServer(tag, addr, detour) ==
    [tag |-> tag, addr |-> addr, detour |-> detour,
     resolver |-> CASE addr \in DnsHosts /\ addr \in opt.hosts -> "hosts"
                    [] addr \in DnsHosts \ opt.hosts /\ tag # "local" -> "local"
                    [] OTHER -> "none"]

SingboxDns ==
    {DnsServer("remote", opt.remote, IF opt.dnsViaProxy THEN "proxy" ELSE "none"),
     DnsServer("local", opt.domestic, "none")}
    \cup (IF opt.hosts = {} THEN {} ELSE {DnsServer("hosts", "ip", "none")})

(* DNS rules follow the enabled domain rules that go direct or to the      *)
(* proxy, scoped to the same apps; the rest asks `remote` in the end.      *)
DnsRule(r) ==
    IF r.out \notin {"direct", "proxy"} \/ ParseDomains(r.dom) = {} THEN <<>>
    ELSE <<[server |-> IF r.out = "direct" THEN "local" ELSE "remote",
            dom |-> ParseDomains(r.dom), app |-> IF r.app = {} THEN Apps ELSE r.app]>>

DnsRules(rs) == Concat([k \in DOMAIN rs |-> DnsRule(rs[k])])

(* External: the first matching rule answers.                              *)
DnsHits(rule, dom, app) == {k \in DOMAIN rule : dom \in rule[k].dom /\ app \in rule[k].app}

AskedServer(rs, dom, app) ==
    LET rule == DnsRules(rs)
    IN  IF DnsHits(rule, dom, app) = {} THEN "remote" ELSE rule[First(DnsHits(rule, dom, app))].server

-----------------------------------------------------------------------------
(* Tun inbounds of a native sing-box (build_singbox_tun_inbounds).         *)

ForceUids == {u \in Uids : filter[u] = "force"}
BypassUids == {u \in Uids : filter[u] = "bypass"}

MainTun == [tag |-> "tun-in", table |-> 2022, include |-> {}, exclude |-> BypassUids \cup ForceUids]
ForceTun == [tag |-> "tun-force", table |-> 2023, include |-> ForceUids, exclude |-> {}]

TunInbounds == {MainTun} \cup (IF ForceUids = {} THEN {} ELSE {ForceTun})

(* External: sing-tun captures the listed users, or all but the excluded.  *)
Captures(tun, u) == IF tun.include = {} THEN u \notin tun.exclude ELSE u \in tun.include

-----------------------------------------------------------------------------
AddRule(r) ==
    /\ Len(rules) < MaxRules
    /\ rules' = Append(rules, r)
    /\ UNCHANGED <<opt, filter>>

ChangeSettings ==
    /\ Len(rules) = 0
    /\ \E s \in Strategies, sniff, via \in BOOLEAN :
         opt' = [opt EXCEPT !.strategy = s, !.sniff = sniff, !.dnsViaProxy = via]
    /\ UNCHANGED <<rules, filter>>

ChangeDns ==
    /\ Len(rules) = 0
    /\ \E remote, domestic \in DnsAddrs, hosts \in SUBSET DnsHosts :
         opt' = [opt EXCEPT !.remote = remote, !.domestic = domestic, !.hosts = hosts]
    /\ UNCHANGED <<rules, filter>>

ChangeFilter ==
    /\ Len(rules) = 0
    /\ filter' \in [Uids -> {"none", "bypass", "force"}]
    /\ UNCHANGED <<rules, opt>>

RouteInit ==
    /\ rules = <<>>
    /\ opt = [strategy |-> "AsIs", sniff |-> TRUE, dnsViaProxy |-> TRUE,
              remote |-> "ip", domestic |-> "ip", hosts |-> {}]
    /\ filter = [u \in Uids |-> "none"]

RouteNext ==
    \/ \E r \in RuleShapes : AddRule(r)
    \/ ChangeSettings
    \/ ChangeDns
    \/ ChangeFilter

RouteSpec == RouteInit /\ [][RouteNext]_routeVars

-----------------------------------------------------------------------------
(* What a rule says of a connection whose address is known or not.         *)
Catches(r, c, known) ==
    /\ r.ports = {} \/ PortIn(r.ports, c.port)
    /\ r.net = {} \/ c.net \in r.net
    /\ r.app = {} \/ c.app \in r.app
    /\ r.dom = {} /\ r.ip = {} => r.ports # {} \/ r.net # {} \/ r.app # {}
    /\ r.dom # {} \/ r.ip # {} => c.dom \in r.dom \/ (known /\ c.ip \in r.ip)

Verdict(r) == IF r.out = "block" THEN "reject" ELSE r.out

Caught(rs, c, known) == {k \in DOMAIN rs : Catches(rs[k], c, known)}

Says(rs, at) == IF at = {} THEN "none" ELSE Verdict(rs[First(at)])

(* The rules in order; addresses count for a literal, always (IPOnDemand)  *)
(* or once nothing matched, for the rules that have some (IPIfNonMatch).   *)
AsWritten(rs, c, strategy) ==
    LET first == Says(rs, Caught(rs, c, Literal(c) \/ strategy = "IPOnDemand"))
        retry == IF strategy = "IPIfNonMatch" THEN Says(rs, {k \in Caught(rs, c, TRUE) : rs[k].ip # {}})
                 ELSE "none"
    IN  CASE first # "none" -> first
          [] first = "none" /\ retry # "none" -> retry
          [] OTHER -> "proxy"

Plain(r) == "!cn" \notin r.ip /\ "ext" \notin r.ip \cup r.dom

(* sing-box sends a connection where the user's rules say, for every       *)
(* resolve strategy: the split of a rule into a domain and an address      *)
(* rule, and the repeated address rules after the resolve step, change     *)
(* nothing.                                                                *)
SingboxRoutesAsWritten ==
    (\A k \in DOMAIN rules : Plain(rules[k])) =>
        \E route \in {SingboxRoute(rules)} :
            \A c \in Conns :
                (c.inb = "socks-in" /\ c.ip # "private" /\ ~(opt.sniff /\ c.port = DnsPort))
                    => SbVerdict(route, c) = AsWritten(rules, c, opt.strategy)

(* Xray does too, as far as it can: rules that name apps are not there,    *)
(* and a rule with domains and addresses needs both on Xray.  (Under       *)
(* IPIfNonMatch the catch-all rule at the end matches before any address   *)
(* is looked up.)                                                          *)
XrayRoutesAsWritten ==
    (opt.strategy # "IPIfNonMatch"
     /\ \A k \in DOMAIN rules : Plain(rules[k]) /\ rules[k].app = {} /\ {} \in {rules[k].dom, rules[k].ip}) =>
        \E routing \in {XrayRouting(rules)} :
            \A c \in Conns :
                (c.inb = "socks-in" /\ c.port # DnsPort)
                    => (XrVerdict(routing, c, opt.strategy) = "block") =
                           (AsWritten(rules, c, opt.strategy) = "reject")
                       /\ XrVerdict(routing, c, opt.strategy) \in
                           {"block", AsWritten(rules, c, opt.strategy)}

(* No rule catches more than it names: on either core a rule that names    *)
(* destinations, apps or transports leaves other connections to the rules  *)
(* after it, also when some of its entries could not be translated.        *)
NeverWidened ==
    \A k \in DOMAIN rules :
        LET r == rules[k]
        IN  "!cn" \notin r.ip =>
            \A c \in Conns :
                /\ \A b \in Range(StructuredRule(r)) : SbMatches(b, c, TRUE) => Catches(r, c, TRUE)
                /\ \A b \in Range(XrRule(r)) : XrMatches(b, c, "IPOnDemand") => Catches(r, c, TRUE)

(* Traffic of the force inbounds reaches the proxy on both cores whatever  *)
(* the rules are, apart from DNS that sing-box answers itself.             *)
ForcedReachesProxy ==
    \E route \in {SingboxRoute(rules)}, routing \in {XrayRouting(rules)} :
        \A c \in Conns :
            (c.inb = "force-in" \/ (c.inb = "tun-force" /\ HasForce)) =>
                /\ SbVerdict(route, c) = "proxy" \/ (opt.sniff /\ c.port = DnsPort)
                /\ XrVerdict(routing, c, opt.strategy) = "proxy"

(* The check that warns of a rule nothing gets past agrees with the        *)
(* connections themselves, at the ends of the port space too.              *)
CatchAllIsSeen ==
    \A k \in DOMAIN rules :
        "!cn" \notin rules[k].ip =>
            (MatchesEveryConnection(rules[k]) <=>
                /\ StructuredRule(rules[k]) # <<>>
                /\ \A c \in Conns : \E b \in Range(StructuredRule(rules[k])) : SbMatches(b, c, FALSE))

(* A name is looked up where its traffic goes: by the domestic server if a *)
(* domain rule sends it direct, by the remote one if to the proxy.  (A     *)
(* rule for a whole app moves its traffic and not its lookups.)            *)
LookupFollowsTraffic ==
    (\A k \in DOMAIN rules : /\ Plain(rules[k]) /\ rules[k].ip = {} /\ rules[k].dom # {}
                             /\ rules[k].ports = {} /\ rules[k].net = {}
                             /\ rules[k].out \in {"direct", "proxy"}) =>
        \A dom \in Domains \ {""}, app \in Apps :
            LET c == [inb |-> "socks-in", dom |-> dom, ip |-> "us", port |-> MaxPort, net |-> "tcp", app |-> app]
            IN  (AskedServer(rules, dom, app) = "local") =
                (SbVerdict(Structured(rules), c) = "direct")

(* A domestic server given as a domain that no static host maps: nothing   *)
(* is left to resolve it, and sing-box refuses such a config.              *)
DomesticUnresolved == opt.domestic \in DnsHosts \ opt.hosts

(* The lookup of the proxy server's own name (default_domain_resolver is   *)
(* `local`) ends without going through the proxy: a resolver is there,     *)
(* never asks itself and never goes by the proxy, and every server that    *)
(* is named by a domain has one, but for exactly the domestic server that  *)
(* no static host maps.                                                    *)
BootstrapAvoidsProxy ==
    /\ \A s \in SingboxDns : s.resolver # "none" => s.resolver # s.tag /\ \E q \in SingboxDns : q.tag = s.resolver
    /\ \A s \in SingboxDns : s.tag = "local" \/ (\E q \in SingboxDns : q.resolver = s.tag) => s.detour = "none"
    /\ \A s \in SingboxDns :
         s.addr \in DnsHosts /\ s.resolver = "none" <=> s.tag = "local" /\ DomesticUnresolved

(* With the tun's DNS sent into Xray, a query that reaches the inbounds is *)
(* answered by the DNS module, the module's own queries leave as before    *)
(* and never come back to it, other traffic is routed as it was, and a     *)
(* second application changes nothing.                                     *)
DnsHijackIsClean ==
    \E before \in {XrayRouting(rules)} :
        \E after \in {HijackInboundDns(before)} :
            /\ HijackInboundDns(after) = after
            /\ \A c \in Conns :
                 /\ XrVerdict(after, [c EXCEPT !.inb = "dns-module"], opt.strategy) = DnsOutTag
                 /\ (c.inb = "socks-in" /\ c.port = DnsPort) => XrVerdict(after, c, opt.strategy) = "dns-out"
                 /\ ~(c.inb = "socks-in" /\ c.port = DnsPort) =>
                       XrVerdict(after, c, opt.strategy) = XrVerdict(before, c, opt.strategy)

(* Every app has the path its filter asks for: a bypassed one is in no     *)
(* tun, a forced one in the force tun alone, any other in the main one,    *)
(* and the two tuns keep their routes apart.                               *)
EveryAppHasItsPath ==
    /\ \A u \in Uids :
         {t.tag : t \in {t \in TunInbounds : Captures(t, u)}} =
             CASE filter[u] = "bypass" -> {}
               [] filter[u] = "force" -> {"tun-force"}
               [] OTHER -> {"tun-in"}
    /\ \A t, q \in TunInbounds : t # q => t.table # q.table

(* Both cores send every connection where the rules, the force inbounds    *)
(* and the app filter say.                                                 *)
RulesAsWritten ==
    /\ SingboxRoutesAsWritten /\ XrayRoutesAsWritten /\ NeverWidened
    /\ ForcedReachesProxy /\ CatchAllIsSeen /\ EveryAppHasItsPath

(* Names are resolved where their traffic goes, and never in a circle; the *)
(* one DNS server that stays without a resolver is named there.            *)
LookupsFollowRules == LookupFollowsTraffic /\ BootstrapAvoidsProxy /\ DnsHijackIsClean
=============================================================================
