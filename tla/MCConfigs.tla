------------------------------ MODULE MCConfigs ------------------------------
(* The config builders, each on its own small inputs.                       *)
EXTENDS CoreChoice, RouteConfig, Egress, TLC

VARIABLE part

Base == [proto |-> "vless", net |-> "tcp", sec |-> "none", opts |-> {}, via |-> "no", core |-> AnyCore]

(* Every protocol with up to three of its settings.                         *)
UpTo(n, S) == {t \in SUBSET S : Cardinality(t) <= n}
Nets == {"tcp", "tcp-http", "ws", "grpc", "h2", "httpupgrade", "quic", "kcp", "xhttp"}
NetOptsOf(net) ==
    CASE net \in {"ws", "httpupgrade"} -> {"host", "xray tuning"}
      [] net = "grpc" -> {"service path", "ping timeout", "authority"}
      [] net \in {"tcp-http", "xhttp", "h2"} -> {"host"}
      [] OTHER -> {}
SecOptsOf(sec) ==
    CASE sec = "tls" -> {"insecure", "pcs", "sni", "vcn"}
      [] sec = "reality" -> {"pqv", "insecure"}
      [] OTHER -> {}
ProtoOptsOf(proto) ==
    CASE proto = "vless" -> {"vision", "vision udp443", "encryption", "packetaddr", "mux"}
      [] proto = "vmess" -> {"packetaddr", "mux"}
      [] proto = "shadowsocks" -> {"plain cipher", "mux"}
      [] OTHER -> {}
Sni(sec, o) == IF sec = "reality" THEN o \cup {"sni"} ELSE o
StreamShapes ==
    UNION {{[Base EXCEPT !.proto = proto, !.net = net, !.sec = sec, !.opts = Sni(sec, o)] :
             o \in UpTo(2, ProtoOptsOf(proto) \cup NetOptsOf(net) \cup SecOptsOf(sec))} :
           proto \in {"vless", "vmess", "trojan"}, net \in Nets, sec \in {"none", "tls", "reality"}}
    \cup UNION {{[Base EXCEPT !.proto = "shadowsocks", !.net = net, !.sec = sec, !.opts = o] :
             o \in UpTo(2, {"plain cipher", "insecure"})} : net \in {"tcp", "tcp-http", "ws", "quic"}, sec \in {"none", "tls"}}
PlainShapes ==
    {[Base EXCEPT !.proto = proto, !.net = "-"] : proto \in {"socks", "wireguard", "custom"}}
    \cup {[Base EXCEPT !.proto = proto, !.net = "-", !.sec = sec, !.opts = o] :
            proto \in {"http", "hysteria2", "tuic"}, sec \in {"tls"}, o \in UpTo(2, {"insecure", "pcs", "sni", "pinSHA256"})}
MCLoneShapes == StreamShapes \cup PlainShapes

(* Profiles of saved chains, whole, dangling at a custom config or looped.  *)
MCChainShapes ==
    {[s EXCEPT !.via = v] :
        v \in Ids \cup {NoId},
        s \in {Base,
              [Base EXCEPT !.proto = "tuic", !.net = "-", !.sec = "tls"],
              [Base EXCEPT !.net = "xhttp", !.sec = "tls", !.opts = {"host"}]}}
    \cup {[Base EXCEPT !.proto = "custom", !.net = "-"]}

MCSymmetry == Permutations(Ids)

Rule(out, dom, ip, ports, net, app) ==
    [out |-> out, dom |-> dom, ip |-> ip, ports |-> ports, net |-> net, app |-> app]

(* One rule for each way a condition can be written, and what it may go with. *)
MCRuleShapes ==
    {Rule("direct", dom, {}, {}, {}, app) : dom \in {{"d1", "#"}, {"#"}, {"ext"}}, app \in {{}, {"app"}}}
    \cup {Rule(out, {}, ip, {}, {}, {}) : out \in {"direct", "block"}, ip \in {{"cn"}, {"!cn"}, {"ext"}}}
    \cup {Rule("direct", {}, {}, ports, net, {}) : net \in {{}, {"tcp", "udp"}},
                ports \in {{}, {<<0, 3>>}, {<<1, 2>>, <<3, 3>>}, {<<0, 1>>, <<3, 3>>}, {<<2, 3>>, <<0, 1>>}}}
    \cup {Rule("proxy", {"d1"}, {"cn"}, {}, {}, {}), Rule("proxy", {"d1"}, {}, {}, {}, {}),
          Rule("direct", {}, {}, {}, {}, {"app"}), Rule("proxy", {"d2"}, {}, {<<2, 3>>}, {}, {}), Rule("block", {"d1"}, {}, {}, {"udp"}, {})}

(* Every destination on every port; one transport and app for the rest.     *)
MCConns ==
    {c \in AllConns : /\ c.net = "udp" => c.ip = "us" /\ c.app = ""
                      /\ c.app = "app" => c.ip = "cn"
                      /\ c.ip = "private" => c.port = 2
                      /\ c.inb # "socks-in" => c.dom # "d2" /\ c.app = "" /\ c.ip # "private"}

Out(kind, servers, at, dialer, relay, leg) ==
    [kind |-> kind, servers |-> servers, at |-> at, dialer |-> dialer, relay |-> relay, leg |-> leg, own |-> "none"]

(* Each place a config keeps its servers, each mix of where they are, one   *)
(* outbound or none to dial through, and one name or two, with addresses of *)
(* either family, both or none.                                             *)
MCOutShapes ==
    {Out("proxy", servers, "vnext", dialer, NoTag, leg) :
        servers \in {{"ip"}, {"loop4"}}, dialer \in {"o1", "o2", NoTag}, leg \in {"none", "remote", "loopback"}}
    \cup {Out("proxy", servers, "vnext", NoTag, NoTag, "none") : servers \in {{"loop6"}, {"localhost"}, {"ip", "loop4"}}}
    \cup {Out("proxy", servers, "vnext", NoTag, relay, "none") :
            servers \in {{"srv"}, {"loop4"}}, relay \in {"o1", "o2"}}
    \cup {Out("proxy", {"srv"}, at, NoTag, NoTag, "none") : at \in {"vnext", "servers", "address", "peers"}}
    \cup {Out("proxy", {"srv", "alt"}, at, NoTag, NoTag, "none") : at \in {"vnext", "servers"}}
    \cup {[Out("proxy", {"srv", "alt"}, "vnext", NoTag, NoTag, "none") EXCEPT !.own = "UseIPv6"]}
    \cup {Out(kind, {}, "none", NoTag, NoTag, "none") :
            kind \in {"direct", "blackhole", "block", "selector"}}

vars == <<choiceVars, routeVars, egressVars>>

ChoiceAtRest == profs = [i \in Ids |-> Gone] /\ named = NoId /\ edits = 0
EgressAtRest ==
    /\ outs = [t \in OutTags |-> Out("direct", {}, "none", NoTag, NoTag, "none")]
    /\ core = "xray" /\ tunMode = "bind" /\ escape = << >>
    /\ resolved = [h \in Names |-> {}] /\ mine = {} /\ pins = resolved

(* The user's own hosts beside names of both families, and every way the    *)
(* lookups may end where the core is marked.                                *)
FewLookups ==
    \A h \in Names :
        /\ h \in mine => resolved[h] = {4, 6}
        /\ tunMode = "bind" => resolved[h] \in {{}, {4, 6}}

MCInit ==
    /\ part \in {"choice", "route", "egress"}
    /\ IF part = "choice" THEN ChoiceInit ELSE ChoiceAtRest
    /\ RouteInit
    /\ IF part = "egress" THEN EgressInit /\ FewLookups ELSE EgressAtRest

MCNext ==
    /\ UNCHANGED part
    /\ \/ part = "choice" /\ ChoiceNext /\ UNCHANGED <<routeVars, egressVars>>
       \/ /\ part = "route" /\ RouteNext /\ UNCHANGED <<choiceVars, egressVars>>
          /\ rules' # <<>> => /\ <<opt.remote, opt.domestic, opt.hosts>> = <<"ip", "ip", {}>>
                             /\ opt.sniff = opt.dnsViaProxy /\ filter[1] \in {"none", "force"} /\ filter[2] = "none"
       \/ part = "egress" /\ EgressNext /\ UNCHANGED <<choiceVars, routeVars>>
MCSpec == MCInit /\ [][MCNext]_<<part, vars>>
=============================================================================
