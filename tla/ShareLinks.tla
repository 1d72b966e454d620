----------------------------- MODULE ShareLinks -----------------------------
(***************************************************************************)
(* Share links (share.rs): a link pasted by the user or sent by a provider *)
(* is read as a profile, and a profile is shared as a link.                *)
(*                                                                         *)
(* Text is one of a few strings, "" where it is empty.  A profile is its   *)
(* protocol, network, security, account, port, name and optional fields    *)
(* `f`.  A link is its scheme, userinfo, port, fragment and parameters     *)
(* `q`, a set of <<key, value>>; "no" stands for a part that is absent.    *)
(* The parameters of a vmess link are its JSON keys, those of an ss link   *)
(* the options of its plugin.                                              *)
(***************************************************************************)
EXTENDS FiniteSets, Integers

CONSTANTS Links,     \* the links that come in
          Edited,    \* profiles that were made in the editor or came in a config
          MaxShares  \* how often a profile is shared and read again

VARIABLES given,     \* the link last read, or that of the profile that was made
          read,      \* the profile it was read as
          shared,    \* the link that profile was shared as
          former,    \* the profile before the last reading
          shares     \* how often that happened

linkVars == <<given, read, shared, former, shares>>

Fields == {"host", "path", "mode", "extra", "ed", "eh", "headers", "accept", "header", "kcp",
           "sni", "alpn", "fp", "insecure", "pbk", "ech", "pcs", "flow", "enc",
           "obfs", "obfspw", "ports", "pin", "cc", "zrtt", "version", "psk", "mtu", "quic"}
NoFields == [x \in Fields |-> ""]

UrlBased == {"vless", "trojan"}
AlwaysTls == {"hysteria2", "tuic", "anytls", "naive", "shadowtls"}
Networks == {"tcp", "ws", "grpc", "h2", "httpupgrade", "xhttp", "kcp", "quic"}

(* query_map: the first value of a key; "no" when it is absent.            *)
Param(q, k) == IF \E v \in q : v[1] = k THEN (CHOOSE v \in q : v[1] = k)[2] ELSE "no"
Text(q, k) == IF Param(q, k) = "no" THEN "" ELSE Param(q, k)
OneOf(v, known, default) == IF v \in known THEN v ELSE default
Truthy(q, keys) == \E k \in keys : Param(q, k) \in {"1", "true"}

(* The parameters <<field, key>> of a profile that are not empty.          *)
Pairs(p, keys) == {<<k[2], p.f[k[1]]>> : k \in {x \in keys : p.f[x[1]] # ""}}
Fill(q, keys) == [x \in Fields |-> IF \E k \in keys : k[1] = x THEN Text(q, (CHOOSE k \in keys : k[1] = x)[2]) ELSE ""]

-----------------------------------------------------------------------------
(* Transports.  A ws path carries early data as `ed` and `eh`, and is "/"  *)
(* when it is empty.                                                       *)
TransportKeys(net) ==
    CASE net = "grpc" -> {<<"mode", "mode">>, <<"host", "authority">>, <<"path", "serviceName">>}
      [] net = "xhttp" -> {<<"host", "host">>, <<"path", "path">>, <<"mode", "mode">>, <<"extra", "extra">>}
      [] net = "ws" -> {<<"host", "host">>, <<"ed", "ed">>, <<"eh", "eh">>, <<"headers", "wsHeaders">>,
                        <<"accept", "acceptProxyProtocol">>}
      [] net = "httpupgrade" -> {<<"host", "host">>, <<"path", "path">>, <<"headers", "wsHeaders">>,
                                 <<"accept", "acceptProxyProtocol">>}
      [] net \in {"tcp", "h2"} -> {<<"host", "host">>, <<"path", "path">>}
      [] net = "kcp" -> {<<"kcp", "kcpCwndMultiplier">>}
      [] net = "quic" -> {}

WsPath(p) == IF p.net = "ws" THEN {<<"path", IF p.f["path"] = "" THEN "/" ELSE p.f["path"]>>} ELSE {}

HasHeader(net) == net \in {"tcp", "kcp", "quic"}

ReadWsEarlyData(net, q, t) ==
    IF net # "ws" THEN t
    ELSE [t EXCEPT !["path"] = Text(q, "path"), !["ed"] = Text(q, "ed"),
                   !["eh"] = IF Param(q, "eh") = "no" /\ Text(q, "ed") # "" THEN "standard" ELSE Text(q, "eh")]

(* A link names a gRPC service and authority also as path and host.        *)
ReadTransport(net, q) ==
    LET t == ReadWsEarlyData(net, q, Fill(q, TransportKeys(net)))
    IN  [t EXCEPT !["header"] = IF HasHeader(net) /\ Param(q, "headerType") = "http" THEN "http" ELSE "",
                  !["path"] = IF net = "grpc" /\ Param(q, "serviceName") = "no" THEN Text(q, "path") ELSE @,
                  !["host"] = IF net = "grpc" /\ Param(q, "authority") = "no" THEN Text(q, "host") ELSE @]

Overlay(a, b) == [x \in Fields |-> IF b[x] # "" THEN b[x] ELSE a[x]]
Fingerprint(q) == [NoFields EXCEPT !["fp"] = OneOf(Param(q, "fp"), {"chrome", "firefox"}, "chrome")]
Insecure(on) == [NoFields EXCEPT !["insecure"] = IF on THEN "1" ELSE ""]

-----------------------------------------------------------------------------
(* vless and trojan.                                                       *)
UrlTlsKeys == {<<"sni", "sni">>, <<"alpn", "alpn">>, <<"fp", "fp">>, <<"ech", "ech">>, <<"pcs", "pcs">>}
RealityKeys == {<<"pbk", "pbk">>}

BuildUrlBased(p) ==
    {<<"type", p.net>>, <<"security", p.sec>>}
    \cup Pairs(p, TransportKeys(p.net)) \cup WsPath(p)
    \cup Pairs(p, UrlTlsKeys \cup {<<"insecure", "allowInsecure">>, <<"flow", "flow">>})
    \cup (IF p.sec = "reality" THEN Pairs(p, RealityKeys) ELSE {})
    \cup (IF p.proto = "vless" THEN {<<"encryption", IF p.f["enc"] = "" THEN "none" ELSE p.f["enc"]>>} ELSE {})

ParseUrlBased(proto, net, q) ==
    LET keys == UrlTlsKeys \cup RealityKeys \cup {<<"flow", "flow">>}
        own == [Fill(q, keys) EXCEPT
                  !["enc"] = IF proto # "vless" THEN "" ELSE IF Param(q, "encryption") = "no" THEN "none" ELSE Param(q, "encryption"),
                  !["flow"] = OneOf(Param(q, "flow"), {"vision"}, "")]
    IN  Overlay(Overlay(ReadTransport(net, q), own), Overlay(Fingerprint(q), Insecure(Param(q, "allowInsecure") = "1")))

(* vmess: `type` is the header, or the mode of gRPC; the link says nothing *)
(* of an unchecked certificate.                                            *)
VmessKeys == {<<"sni", "sni">>, <<"alpn", "alpn">>, <<"fp", "fp">>}
VmessStream(net) ==
    CASE net = "grpc" -> {<<"host", "host">>, <<"path", "path">>, <<"mode", "type">>}
      [] net \in {"kcp", "ws"} -> TransportKeys(net)
      [] net = "httpupgrade" -> TransportKeys(net)
      [] net \in {"tcp", "h2", "xhttp"} -> {<<"host", "host">>, <<"path", "path">>}
      [] net = "quic" -> {}

BuildVmess(p) ==
    {<<"net", p.net>>, <<"scy", IF p.f["enc"] = "" THEN "auto" ELSE p.f["enc"]>>}
    \cup {<<"type", CASE p.net = "grpc" -> IF p.f["mode"] = "" THEN "gun" ELSE p.f["mode"]
                      [] HasHeader(p.net) /\ p.f["header"] = "http" -> "http"
                      [] OTHER -> "none">>}
    \cup (IF p.sec = "none" THEN {} ELSE {<<"tls", p.sec>>})
    \cup Pairs(p, (VmessStream(p.net) \cup VmessKeys) \ {<<"mode", "type">>}) \cup WsPath(p)

ParseVmess(net, q) ==
    LET t == ReadWsEarlyData(net, q, Fill(q, VmessStream(net) \cup VmessKeys))
        own == [t EXCEPT !["header"] = IF HasHeader(net) /\ Param(q, "type") = "http" THEN "http" ELSE "",
                         !["enc"] = OneOf(Param(q, "scy"), {"auto", "zero"}, "auto")]
    IN  Overlay(own, Overlay(Fingerprint(q), Insecure(Truthy(q, {"allowInsecure", "insecure"}))))

(* Mutant: the link leaves the plugin's TLS out. *)
BuildSs_NoTls(p) ==
    CASE p.net = "tcp" /\ p.f["header"] = "http" ->
            {<<"plugin", "obfs-local">>, <<"obfs", "http">>} \cup Pairs(p, {<<"host", "obfs-host">>, <<"path", "path">>})
      [] p.net = "ws" ->
            {<<"plugin", "v2ray-plugin">>, <<"mode", "websocket">>} \cup Pairs(p, {<<"host", "host">>, <<"path", "path">>})
      [] p.net = "quic" -> {<<"plugin", "v2ray-plugin">>, <<"mode", "quic">>} \cup Pairs(p, {<<"sni", "host">>})
      [] OTHER -> {}

(* Shadowsocks: a SIP003 plugin stands for the transport.                  *)
BuildSs(p) ==
    CASE p.net = "tcp" /\ p.f["header"] = "http" ->
            {<<"plugin", "obfs-local">>, <<"obfs", "http">>} \cup Pairs(p, {<<"host", "obfs-host">>, <<"path", "path">>})
      [] ~(p.net = "tcp" /\ p.f["header"] = "http") /\ (p.net \in {"ws", "quic"} \/ p.sec = "tls") ->
            {<<"plugin", "v2ray-plugin">>}
            \cup (CASE p.net = "ws" -> {<<"mode", "websocket">>} \cup Pairs(p, {<<"host", "host">>, <<"path", "path">>})
                    [] p.net = "quic" -> {<<"mode", "quic">>} \cup Pairs(p, {<<"sni", "host">>})
                    [] OTHER -> {})
            \cup (IF p.sec = "tls" THEN {<<"tls", "1">>} ELSE {})
      [] OTHER -> {}

SsMode(q) == IF Param(q, "plugin") # "v2ray-plugin" THEN "" ELSE IF Param(q, "mode") = "no" THEN "websocket" ELSE Param(q, "mode")
SsTls(q) == Param(q, "plugin") = "v2ray-plugin" /\ (Param(q, "tls") # "no" \/ SsMode(q) = "quic")

ParseSs(q) ==
    CASE Param(q, "plugin") \in {"obfs-local", "simple-obfs"} /\ Param(q, "obfs") = "http" ->
            [NoFields EXCEPT !["header"] = "http", !["host"] = Text(q, "obfs-host"), !["path"] = Text(q, "path")]
      [] SsMode(q) \in {"websocket", "quic"} ->
            [NoFields EXCEPT !["host"] = IF SsMode(q) = "quic" THEN "" ELSE Text(q, "host"),
                             !["path"] = IF SsMode(q) = "quic" THEN "" ELSE Text(q, "path"),
                             !["sni"] = IF SsTls(q) THEN Text(q, "host") ELSE ""]
      [] OTHER -> NoFields

(* The protocols with a short list of parameters.                          *)
Hysteria2Keys == {<<"sni", "sni">>, <<"alpn", "alpn">>, <<"ports", "mport">>, <<"pin", "pinSHA256">>}
BuildHysteria2(p) ==
    Pairs(p, Hysteria2Keys \cup {<<"insecure", "insecure">>})
    \cup (IF p.f["obfs"] # "" /\ p.f["obfspw"] # "" THEN {<<"obfs", "salamander">>, <<"obfs-password", p.f["obfspw"]>>} ELSE {})
ParseHysteria2(q) ==
    Overlay([Fill(q, Hysteria2Keys \cup {<<"obfspw", "obfs-password">>}) EXCEPT
               !["obfs"] = OneOf(Param(q, "obfs"), {"salamander"}, "")],
            Insecure(Param(q, "insecure") = "1"))

InsecureKeys == {"allow_insecure", "allowInsecure", "insecure"}
Congestion(q) == [NoFields EXCEPT !["cc"] = OneOf(Param(q, "congestion_control"), {"cubic", "bbr"}, "bbr")]

BuildTuic(p) ==
    Pairs(p, {<<"cc", "congestion_control">>, <<"zrtt", "zero_rtt_handshake">>, <<"sni", "sni">>, <<"alpn", "alpn">>,
              <<"insecure", "allow_insecure">>})
ParseTuic(q) ==
    Overlay([Fill(q, {<<"sni", "sni">>, <<"alpn", "alpn">>}) EXCEPT
               !["zrtt"] = IF Truthy(q, {"zero_rtt_handshake"}) THEN "1" ELSE ""],
            Overlay(Congestion(q), Insecure(Truthy(q, InsecureKeys))))

BuildAnytls(p) == Pairs(p, UrlTlsKeys \cup {<<"insecure", "allowInsecure">>})
ParseAnytls(q) == Overlay(Fill(q, UrlTlsKeys), Overlay(Fingerprint(q), Insecure(Truthy(q, InsecureKeys))))

BuildNaive(p) == BuildAnytls(p) \cup Pairs(p, {<<"cc", "congestion_control">>})
ParseNaive(scheme, q) ==
    [Overlay(ParseAnytls(q), Congestion(q)) EXCEPT !["quic"] = IF scheme = "naive+quic" THEN "1" ELSE ""]

BuildShadowtls(p) == Pairs(p, {<<"version", "version">>, <<"sni", "sni">>, <<"fp", "fp">>})
ParseShadowtls(q) ==
    Overlay([Fill(q, {<<"sni", "sni">>}) EXCEPT !["version"] = OneOf(Param(q, "version"), {"1", "2", "3"}, "3")],
            Fingerprint(q))

BuildWireguard(p) ==
    Pairs(p, {<<"psk", "presharedkey">>}) \cup (IF p.f["mtu"] \in {"", "1420"} THEN {} ELSE {<<"mtu", p.f["mtu"]>>})
ParseWireguard(q) ==
    [Fill(q, {<<"psk", "presharedkey">>}) EXCEPT !["mtu"] = IF Param(q, "mtu") = "no" THEN "1420" ELSE Param(q, "mtu")]

BuildHttp(p) == IF p.sec = "tls" THEN Pairs(p, {<<"sni", "sni">>}) ELSE {}

-----------------------------------------------------------------------------
(* Scheme, account, port and name.                                         *)

SchemeOf(p) ==
    CASE p.proto = "naive" -> IF p.f["quic"] = "1" THEN "naive+quic" ELSE "naive+https"
      [] p.proto = "http" -> IF p.sec = "tls" THEN "https" ELSE "http"
      [] p.proto = "socks" -> "socks5"
      [] OTHER -> p.proto

ProtoOf(scheme) ==
    CASE scheme = "hy2" -> "hysteria2"
      [] scheme \in {"naive+https", "naive+quic"} -> "naive"
      [] scheme \in {"socks", "socks5"} -> "socks"
      [] scheme \in {"http", "https"} -> "http"
      [] OTHER -> scheme

(* userinfo: without a user name the password stands alone.  The others    *)
(* carry one credential, or (tuic) always both.                            *)
Userinfo(p) ==
    CASE p.proto \in {"socks", "http", "naive"} /\ p.user # "" -> <<p.user, p.pass>>
      [] p.proto \in {"socks", "http", "naive"} /\ p.user = "" -> <<p.pass, "no">>
      [] p.proto = "tuic" -> <<p.user, p.pass>>
      [] OTHER -> <<p.user, "no">>

(* anytls and shadowtls take the password where there is no user name.     *)
Account(proto, info) ==
    LET pass == IF info[2] = "no" THEN "" ELSE info[2]
    IN  CASE proto \in {"socks", "http", "naive", "tuic"} -> <<info[1], pass>>
          [] proto \in {"anytls", "shadowtls"} -> <<IF info[1] = "" THEN pass ELSE info[1], "">>
          [] OTHER -> <<info[1], "">>

DefaultPort(scheme) ==
    CASE scheme = "http" -> "80"
      [] scheme \in {"socks", "socks5"} -> "1080"
      [] scheme = "wireguard" -> "51820"
      [] OTHER -> "443"

(* Url::port leaves out the port an http or https link has anyway.         *)
PortOf(l) == IF l.port = "no" THEN DefaultPort(l.scheme) ELSE l.port

Network(proto, q) ==
    CASE proto \in UrlBased -> OneOf(Param(q, "type"), Networks, "tcp")
      [] proto = "vmess" -> OneOf(Param(q, "net"), Networks, "tcp")
      [] proto = "ss" /\ SsMode(q) = "websocket" -> "ws"
      [] proto = "ss" /\ SsMode(q) = "quic" -> "quic"
      [] OTHER -> "tcp"

Security(proto, scheme, q) ==
    CASE proto \in AlwaysTls -> "tls"
      [] proto \in UrlBased -> OneOf(Param(q, "security"), {"tls", "reality"}, "none")
      [] proto = "vmess" -> OneOf(Param(q, "tls"), {"tls", "reality"}, "none")
      [] proto = "ss" -> IF SsTls(q) THEN "tls" ELSE "none"
      [] proto = "http" -> IF Text(q, "security") # "" THEN OneOf(Param(q, "security"), {"tls", "reality"}, "none")
                           ELSE IF scheme = "https" THEN "tls" ELSE "none"
      [] OTHER -> "none"

BuildShareLink(p) ==
    [scheme |-> SchemeOf(p), info |-> Userinfo(p), port |-> p.port,
     name |-> IF p.name = "" THEN "no" ELSE p.name,
     q |-> CASE p.proto \in UrlBased -> BuildUrlBased(p)
             [] p.proto = "vmess" -> BuildVmess(p)
             [] p.proto = "ss" -> BuildSs(p)
             [] p.proto = "hysteria2" -> BuildHysteria2(p)
             [] p.proto = "tuic" -> BuildTuic(p)
             [] p.proto = "anytls" -> BuildAnytls(p)
             [] p.proto = "naive" -> BuildNaive(p)
             [] p.proto = "shadowtls" -> BuildShadowtls(p)
             [] p.proto = "wireguard" -> BuildWireguard(p)
             [] p.proto = "http" -> BuildHttp(p)
             [] p.proto = "socks" -> {}]

(* remarks_or_host: without a fragment the host is the name.               *)
ParseShareLink(l) ==
    LET proto == ProtoOf(l.scheme)
        net == Network(proto, l.q)
    IN  [proto |-> proto, net |-> net, sec |-> Security(proto, l.scheme, l.q),
         user |-> Account(proto, l.info)[1], pass |-> Account(proto, l.info)[2],
         port |-> PortOf(l), name |-> IF l.name = "no" THEN "host" ELSE l.name,
         f |-> CASE proto \in UrlBased -> ParseUrlBased(proto, net, l.q)
                 [] proto = "vmess" -> ParseVmess(net, l.q)
                 [] proto = "ss" -> ParseSs(l.q)
                 [] proto = "hysteria2" -> ParseHysteria2(l.q)
                 [] proto = "tuic" -> ParseTuic(l.q)
                 [] proto = "anytls" -> ParseAnytls(l.q)
                 [] proto = "naive" -> ParseNaive(l.scheme, l.q)
                 [] proto = "shadowtls" -> ParseShadowtls(l.q)
                 [] proto = "wireguard" -> ParseWireguard(l.q)
                 [] proto = "http" -> Fill(l.q, {<<"sni", "sni">>})
                 [] proto = "socks" -> NoFields]

(* resolve_import_input: an http(s) address without a user part is taken   *)
(* for a subscription.                                                     *)
IsSubscriptionUrl(l) == l.scheme \in {"http", "https"} /\ l.info[1] = "" /\ l.info[2] = "no"

-----------------------------------------------------------------------------
(* A link that was pasted, or a profile from elsewhere.                    *)
LinkInit ==
    /\ \/ \E l \in Links : ~IsSubscriptionUrl(l) /\ given = l /\ read = ParseShareLink(l)
       \/ \E p \in Edited : given = BuildShareLink(p) /\ read = p
    /\ former = read /\ shared = BuildShareLink(read) /\ shares = 0

(* The profile is shared and somebody reads the link; that of an http      *)
(* proxy without an account is an address to them, and brings no profile.  *)
ReadShared ==
    /\ shares < MaxShares
    /\ ~IsSubscriptionUrl(shared)
    /\ given' = shared /\ former' = read
    /\ read' = ParseShareLink(shared)
    /\ shared' = BuildShareLink(read')
    /\ shares' = shares + 1

LinkNext == ReadShared

LinkSpec == LinkInit /\ [][LinkNext]_linkVars

-----------------------------------------------------------------------------
(* The transports and security a Shadowsocks link has a plugin for.        *)
HasPlugin(p) ==
    \/ p.sec = "none" /\ p.net = "tcp"
    \/ p.net = "ws" /\ p.sec \in {"none", "tls"}
    \/ p.net = "quic" /\ p.sec = "tls"

(* A profile whose link stands for another one: Shadowsocks without a      *)
(* plugin of its kind, an http proxy with reality, which is shared as      *)
(* plain http, and a password without a user name.                         *)
NoLinkFor(p) ==
    \/ p.proto = "ss" /\ ~HasPlugin(p)
    \/ p.proto = "http" /\ p.sec = "reality"
    \/ p.proto \in {"socks", "http", "naive"} /\ p.user = "" /\ p.pass # ""

(* What a link cannot carry is lost once: from the second reading on the   *)
(* link and the profile it stands for stay the same, however often they    *)
(* are passed on.                                                          *)
LinkSettles == shares >= 2 => shared = given /\ read = former

(* Whoever reads a shared link gets the same server, account, transport    *)
(* and security, but for a profile no link stands for: that one never      *)
(* arrives as it was.                                                      *)
SharedIsSameServer ==
    shares >= 1 =>
        ((\A part \in {"proto", "net", "sec", "user", "pass", "port"} : read[part] = former[part])
            <=> ~NoLinkFor(former))

(* What the check of the server's identity rests on, and what of it a link *)
(* of the profile carries: vmess, hysteria2, tuic, shadowtls and http have *)
(* no place for a certificate pin, vmess none for the key of reality, and  *)
(* a plugin's TLS name is its host.                                        *)
CheckFields == {"sni", "pcs", "pin", "pbk"}

Carried(p) ==
    CASE p.proto \in UrlBased -> {"sni", "pcs"} \cup (IF p.sec = "reality" THEN {"pbk"} ELSE {})
      [] p.proto \in {"anytls", "naive"} -> {"sni", "pcs"}
      [] p.proto = "hysteria2" -> {"sni", "pin"}
      [] p.proto = "ss" -> IF p.net = "quic" \/ p.f["sni"] = p.f["host"] THEN {"sni"} ELSE {}
      [] OTHER -> {"sni"}

(* Passing a profile on never turns its certificate check off, and what it *)
(* is checked against arrives exactly where the link has a place for it.   *)
NeverLessChecked ==
    /\ read.f["insecure"] # "" => former.f["insecure"] # ""
    /\ (shares >= 1 /\ former.sec # "none" /\ ~NoLinkFor(former)) =>
          \A x \in CheckFields :
             /\ x \in Carried(former) => read.f[x] = former.f[x]
             /\ (x \notin Carried(former) /\ former.f[x] # "") => read.f[x] # former.f[x]

(* A profile passed on as a link, again and again, stays the same server   *)
(* with the checks its kind of link carries; what a link cannot say is     *)
(* named above and is lost once.                                           *)
LinkKeepsServer == LinkSettles /\ SharedIsSameServer /\ NeverLessChecked
=============================================================================
