------------------------------ MODULE MCImports ------------------------------
(* What comes in from outside: a provider's config, a share link, a backup of the settings.
   They share no state: a behaviour is one of them, the others rest in an initial state. *)
EXTENDS MCAppState, ProviderGraph, ShareLinks

VARIABLE part

A == <<1>>
AB == <<1, 2>>
B == <<2>>
V == <<10>>
In == <<11>>
Bal == <<12>>

Server(tag, server, dialer, relay) ==
    [tag |-> tag, kind |-> "proxy", vtag |-> Nameless, dialer |-> dialer, relay |-> relay,
     server |-> server, flaw |-> "none"]
PlainServer(tag, server) == Server(tag, server, Nameless, Nameless)
Service(tag, server) == [PlainServer(tag, server) EXCEPT !.kind = "service"]
LoopTo(tag, server) == [PlainServer(tag, server) EXCEPT !.kind = "loop", !.vtag = V]

MCFlaws == {"no object", "protocol", "alias", "cert file", "key log", "socket option",
            "insecure and pinned", "bare relay"}

(* Three outbounds: named, unnamed, nested, dialling each other, loopbacks  *)
(* and services, in the places that matter.                                 *)
MCOuts ==
    {<<x, y>> \o z :
        x \in {PlainServer(A, 1), Server(A, 1, B, Nameless), Server(A, 1, Nameless, B), Service(A, 1), LoopTo(A, 1)},
        y \in {PlainServer(B, 2), Server(B, 2, AB, Nameless), Service(B, 2), LoopTo(B, 2), PlainServer(Nameless, 2)},
        z \in {<<>>, <<PlainServer(AB, 3)>>, <<Server(AB, 3, A, Nameless)>>, <<Service(AB, 3)>>}}
    \cup {<<[PlainServer(A, 1) EXCEPT !.flaw = flaw], PlainServer(Nameless, 2), PlainServer(B, 3)>> : flaw \in MCFlaws}

Balancer(strategy, selector, fallback, costs) ==
    [tag |-> Bal, strategy |-> strategy, selector |-> selector, fallback |-> fallback, costs |-> costs]

MCBals ==
    {{}} \cup {{Balancer(strategy, selector, fallback, <<>>)} :
                 strategy \in {"random", "leastPing"},
                 selector \in {{A}, {<<>>}, {B, AB}},
                 fallback \in {Nameless, B}}
    \cup {{Balancer("leastLoad", {<<>>}, Nameless,
                    <<[match |-> AB, value |-> 3], [match |-> <<1>>, value |-> 2]>>)}}

ProviderRule(inb, cond, net, target) ==
    [inb |-> inb, cond |-> cond, ports |-> {}, net |-> net, target |-> target]

ToBal == <<"b", Bal>>
To(t) == <<"o", t>>

MCRules ==
    {<<>>}
    \cup {<<ProviderRule(inb, FALSE, Both, target)>> : inb \in {{}, {V}, {In}}, target \in {To(A), To(B), ToBal}}
    \cup {<<ProviderRule({V}, FALSE, Both, t1), ProviderRule({}, FALSE, Both, t2)>> :
            t1 \in {To(B), ToBal}, t2 \in {To(A), ToBal}}
    \cup {<<ProviderRule({}, TRUE, Both, To(B)), ProviderRule({}, FALSE, Both, ToBal)>>,
          <<ProviderRule({}, FALSE, {"udp"}, To(B)), ProviderRule({}, FALSE, Both, To(A))>>,
          <<ProviderRule({V, In}, FALSE, Both, To(B))>>,
          <<[ProviderRule({}, FALSE, Both, To(B)) EXCEPT !.ports = {<<1, 2>>, <<3, 3>>}]>>,
          <<[ProviderRule({}, FALSE, Both, To(B)) EXCEPT !.ports = {<<2, 3>>}]>>}

MCBodies ==
    {[outs |-> outs, bals |-> bals, rules |-> rules, subjects |-> subjects, probe |-> "public",
      inbs |-> {In}, synthetic |-> {}] :
        outs \in MCOuts, bals \in MCBals, rules \in MCRules, subjects \in {{}, {<<>>}}}
    \cup {[outs |-> <<PlainServer(A, 1), PlainServer(B, 2)>>, bals |-> bals, rules |-> <<ProviderRule({}, FALSE, Both, ToBal)>>,
           subjects |-> {<<>>}, probe |-> probe, inbs |-> {In}, synthetic |-> {}] :
            bals \in MCBals,
            probe \in {"private address", "no address", "too often", "too long", "both kinds"}}

(* Links: every parameter of a scheme absent or set, a few at a time.       *)
Options(keys) == {{<<k[1], k[2]>> : k \in s} : s \in {t \in SUBSET keys : Cardinality(t) <= 3 /\ \A x, y \in t : x[1] = y[1] => x = y}}

Link(scheme, infos, keys) ==
    [scheme : {scheme}, info : infos, port : {"no", "8080", "443"}, name : {"no", "name"}, q : Options(keys)]

OneKey == {<<"id", "no">>}
MCNets == {"ws", "grpc", "h2", "httpupgrade", "xhttp", "kcp", "quic", "strange"}
MCTls == {<<"sni", "s">>, <<"fp", "firefox">>, <<"fp", "strange">>, <<"allowInsecure", "1">>, <<"pcs", "p">>}
MCStream == {<<"headerType", "http">>, <<"host", "h">>, <<"path", "x">>, <<"serviceName", "g">>, <<"mode", "m">>,
             <<"ed", "9">>, <<"eh", "e">>, <<"wsHeaders", "w">>}

WithNet(key, links) == {[l EXCEPT !.q = @ \cup {<<key, n>>}] : l \in links, n \in MCNets}

MCLinksOf(infos) ==
    UNION {
      WithNet("type", Link("vless", OneKey, MCStream)),
      Link("vless", OneKey, MCTls \cup {<<"security", "tls">>, <<"security", "reality">>, <<"pbk", "k">>, <<"flow", "vision">>,
                                       <<"encryption", "z">>}),
      WithNet("net", Link("vmess", OneKey, MCStream \cup {<<"type", "http">>, <<"type", "multi">>})),
      Link("vmess", OneKey, MCTls \cup {<<"tls", "tls">>, <<"scy", "zero">>, <<"scy", "strange">>, <<"insecure", "1">>}),
      Link("ss", OneKey, {<<"plugin", "obfs-local">>, <<"plugin", "v2ray-plugin">>, <<"obfs", "http">>, <<"obfs-host", "h">>,
                          <<"mode", "quic">>, <<"mode", "grpc">>, <<"host", "h">>, <<"path", "x">>, <<"tls", "1">>}),
      Link("hy2", OneKey, MCTls \cup {<<"insecure", "1">>, <<"obfs", "salamander">>, <<"obfs-password", "o">>, <<"pinSHA256", "p">>}),
      Link("tuic", {<<"id", "pw">>, <<"id", "no">>}, {<<"insecure", "true">>, <<"congestion_control", "cubic">>,
                                                      <<"zero_rtt_handshake", "true">>, <<"sni", "s">>}),
      Link("anytls", {<<"pw", "no">>, <<"", "pw">>}, MCTls),
      Link("naive+https", infos, MCTls), Link("naive+quic", infos, {<<"congestion_control", "strange">>}),
      Link("shadowtls", {<<"pw", "no">>, <<"", "pw">>}, {<<"version", "2">>, <<"version", "9">>, <<"sni", "s">>}),
      Link("wireguard", OneKey, {<<"mtu", "1420">>, <<"mtu", "1280">>, <<"presharedkey", "k">>}),
      Link("socks", infos, {}),
      Link("http", infos, {<<"security", "tls">>, <<"security", "reality">>, <<"sni", "s">>}),
      Link("https", infos, {<<"security", "none">>, <<"sni", "s">>})}

MCLinks == MCLinksOf({<<"u", "pw">>, <<"u", "no">>, <<"", "pw">>, <<"", "no">>})

(* Profiles of every protocol with what a link may have no place for: the   *)
(* editor takes them, and so do the configs of a provider.                  *)
Made(proto, net, sec, info) ==
    [proto |-> proto, net |-> net, sec |-> sec, user |-> info[1], pass |-> info[2], port |-> "8080",
     name |-> "name", f |-> NoFields]
With(profiles, fields) ==
    {[p EXCEPT !.f = [x \in Fields |-> IF x \in on THEN "1" ELSE ""]] : p \in profiles, on \in SUBSET fields}
MCEdited ==
    UNION {
      With({Made("ss", net, sec, <<"id", "">>) :
              net \in {"tcp", "ws", "grpc", "h2", "httpupgrade", "quic"}, sec \in {"none", "tls"}}, {"sni", "host", "pcs"}),
      {[Made("ss", "tcp", sec, <<"id", "">>) EXCEPT !.f["header"] = "http"] : sec \in {"none", "tls"}},
      With({Made(proto, "tcp", sec, <<"id", "">>) :
              proto \in {"vless", "trojan", "vmess"}, sec \in {"none", "tls", "reality"}}, {"sni", "pcs", "pbk", "insecure"}),
      With({Made(proto, "tcp", "tls", <<"id", "">>) :
              proto \in {"hysteria2", "anytls", "shadowtls"}}, {"sni", "pcs", "insecure"}),
      With({Made("hysteria2", "tcp", "tls", <<"id", "">>)}, {"pin"}),
      With({Made(proto, "tcp", "tls", <<"u", "pw">>) : proto \in {"tuic", "naive"}}, {"sni", "pcs", "insecure"}),
      With({Made("http", "tcp", sec, info) :
              sec \in {"none", "tls", "reality"}, info \in {<<"u", "pw">>, <<"", "pw">>, <<"", "">>}}, {"sni", "pcs"}),
      {[Made("socks", "tcp", "none", <<"u", "pw">>) EXCEPT !.name = ""]}}

OneBody == CHOOSE b \in MCBodies : TRUE
OneLink == CHOOSE l \in MCLinks : l.scheme = "socks" /\ l.info = <<"u", "pw">>

GraphAtRest == body = OneBody /\ stored = OneBody /\ built = OneBody /\ chained = FALSE /\ stage = "offered"
LinksAtRest ==
    /\ given = OneLink /\ read = ParseShareLink(OneLink) /\ former = read
    /\ shared = BuildShareLink(read) /\ shares = 0

MCInit ==
    /\ part \in {"graph", "links", "settings"}
    /\ IF part = "graph" THEN GraphInit ELSE GraphAtRest
    /\ IF part = "links" THEN LinkInit ELSE LinksAtRest
    /\ Init

MCNext ==
    /\ UNCHANGED part
    /\ \/ part = "graph" /\ GraphNext /\ UNCHANGED <<linkVars, vars>>
       \/ part = "links" /\ LinkNext /\ UNCHANGED <<graphVars, vars>>
       \/ part = "settings" /\ Next /\ UNCHANGED <<graphVars, linkVars>>

MCSpec == MCInit /\ [][MCNext]_<<graphVars, linkVars, vars, part>>
=============================================================================
