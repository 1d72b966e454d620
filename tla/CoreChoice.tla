----------------------------- MODULE CoreChoice -----------------------------
(***************************************************************************)
(* Which core runs a profile, and the outbounds the config builders write  *)
(* for it.  A setting may pin the core that can carry it, a hop of the     *)
(* proxy chain pins it for the whole chain, and every hop and every        *)
(* profile a routing rule names becomes an outbound of the one config      *)
(* (core.rs, chain.rs and the outbound builders of both cores).            *)
(*                                                                         *)
(* A profile is a record: its protocol, its transport ("-" where the       *)
(* protocol has none), its TLS mode, the set of other settings some core   *)
(* cares about, the profile it dials through and its core override.        *)
(* Credentials, ports and tuning values are not told apart.                *)
(***************************************************************************)
EXTENDS Sequences, FiniteSets, Integers, SequencesExt

CONSTANTS Ids,           \* profile ids
          NoId,          \* no profile (Option::None)
          LoneShapes,    \* what a profile without a chain may be
          ChainShapes,   \* what the profiles of a chain may be
          MaxEdits       \* bound: edits between a state on disk and a build

VARIABLES profs,         \* AppState.profiles, by id; Gone where there is none
          named,         \* the profile an enabled routing rule names, or NoId
          edits          \* edits made so far

choiceVars == <<profs, named, edits>>

Xray == "xray"
SingBox == "sing-box"
AnyCore == "either"
Gone == [proto |-> "gone", net |-> "-", sec |-> "none", opts |-> {}, via |-> NoId, core |-> AnyCore]

Stored == {i \in Ids : profs[i] # Gone}
Has(p, o) == o \in p.opts

-----------------------------------------------------------------------------
(* Profile accessors (profile.rs, mixins.rs).                              *)

HasTransport(p) == p.proto \in {"vmess", "vless", "trojan", "shadowsocks"}
HasTls(p) == p.proto \in {"vmess", "vless", "trojan", "shadowsocks", "http", "hysteria2",
                          "tuic", "anytls", "naive", "shadowtls"}
MuxEnabled(p) == HasTransport(p) /\ Has(p, "mux")

(* The host a transport carries, for the Host header and as an SNI.        *)
TransportHost(p) == Has(p, "host") /\ p.net \in {"tcp", "tcp-http", "ws", "h2", "httpupgrade", "xhttp"}

-----------------------------------------------------------------------------
(* What pins a core (core.rs).                                             *)

IsSingboxOnly(p) == p.proto \in {"tuic", "anytls", "naive", "shadowtls"}

DefaultCoreFor(p) == IF p.proto = "hysteria2" \/ IsSingboxOnly(p) THEN SingBox ELSE Xray

PlaintextSs(p) == p.proto = "shadowsocks" /\ Has(p, "plain cipher")

Pin(when, core, lost) == IF when THEN <<[core |-> core, lost |-> lost]>> ELSE <<>>

(* `lost` names the setting sing-box drops and the connection breaks       *)
(* without; "" where there is none.                                        *)
ProtocolPins(p) ==
       Pin(p.proto = "vless" /\ Has(p, "vision udp443"), Xray, "flow")
    \o Pin(p.proto = "vless" /\ Has(p, "encryption"), Xray, "encryption")
    \o Pin(p.proto \in {"vless", "vmess"} /\ Has(p, "packetaddr"), SingBox, "")
    \o Pin(p.proto = "shadowsocks" /\ (PlaintextSs(p) \/ p.sec = "tls" \/ p.net # "tcp"), SingBox, "")

TransportPins(p) ==
       Pin(HasTransport(p) /\ p.net \in {"h2", "quic"}, SingBox, "")
    \o Pin(HasTransport(p) /\ p.net \in {"kcp", "xhttp"}, Xray, p.net)
    \o Pin(HasTransport(p) /\ p.net \in {"ws", "httpupgrade"} /\ Has(p, "xray tuning"), Xray, "")
    \o Pin(HasTransport(p) /\ p.net = "grpc" /\ Has(p, "service path"), Xray, "service path")
    \o Pin(HasTransport(p) /\ p.net = "grpc" /\ Has(p, "ping timeout"), SingBox, "")
    \o Pin(HasTransport(p) /\ p.net = "grpc" /\ Has(p, "authority"), Xray, "")

TlsPins(p) ==
       Pin(HasTls(p) /\ Has(p, "vcn"), Xray, "vcn")
    \o Pin(HasTls(p) /\ Has(p, "pqv") /\ p.sec = "reality", Xray, "")

CapabilityPins(p) ==
    IF p.proto = "custom" THEN Pin(TRUE, Xray, "")
    ELSE IF IsSingboxOnly(p) THEN Pin(TRUE, SingBox, "")
    ELSE ProtocolPins(p) \o TransportPins(p) \o TlsPins(p)

CapabilityCore(p) == IF CapabilityPins(p) = <<>> THEN AnyCore ELSE Head(CapabilityPins(p)).core

XrayOnlySettings(p) == {q.lost : q \in Range(CapabilityPins(p))} \ {""}

SkipsCertCheckUnpinned(p) == HasTls(p) /\ p.sec = "tls" /\ Has(p, "insecure") /\ ~Has(p, "pcs")

ForcedCore(p) ==
    IF CapabilityCore(p) # AnyCore THEN CapabilityCore(p)
    ELSE IF SkipsCertCheckUnpinned(p) THEN SingBox
    ELSE AnyCore

(* A custom config counts on what Xray would load.                         *)
CoreConflict(p) ==
    IF p.proto = "custom" THEN Has(p, "insecure") /\ ~Has(p, "pcs")
    ELSE CapabilityCore(p) = Xray /\ SkipsCertCheckUnpinned(p)

XrayBuilds(p) ==
    ~ \/ IsSingboxOnly(p)
      \/ p.proto = "custom"
      \/ HasTransport(p) /\ p.net \in {"quic", "h2"}
      \/ PlaintextSs(p)
      \/ SkipsCertCheckUnpinned(p)

(* Whether a rule's target falls back to the active proxy on this core.    *)
RuleTargetFallback(p, core) == p.proto = "custom" \/ (core = Xray /\ ~XrayBuilds(p))

-----------------------------------------------------------------------------
(* Proxy chains (chain.rs).                                                *)

(* The walk along `via` takes one more profile while it is there, is new   *)
(* and is not a custom config.                                             *)
Extend(ps, walk) ==
    LET next == ps[Last(walk)].via
    IN  IF next = NoId \/ next \in Range(walk) THEN walk
        ELSE IF ps[next] = Gone \/ ps[next].proto = "custom" THEN walk
        ELSE Append(walk, next)

Walk(ps, i) == FoldLeft(LAMBDA walk, k : Extend(ps, walk), <<i>>, [k \in 1..Cardinality(Ids) |-> k])

(* chain_hops: an error where the walk stopped at anything but the end.    *)
ChainBroken(ps, i) == ps[Last(Walk(ps, i))].via # NoId
ChainHops(ps, i) == Tail(Walk(ps, i))

ChainCandidates(ps, i) ==
    {j \in Ids : ps[j] # Gone /\ ~ChainBroken([ps EXCEPT ![i].via = j], i)}

(* A broken chain counts as no hops; the builders report it.               *)
ChainCores(ps, i) ==
    LET ids == IF ChainBroken(ps, i) THEN {i} ELSE Range(Walk(ps, i))
    IN  {ForcedCore(ps[j]) : j \in ids} \ {AnyCore}

ChainConflicts(ps, i) ==
    {j \in ChainCandidates(ps, i) : Cardinality(ChainCores([ps EXCEPT ![i].via = j], i)) = 2}

PreferredCore(p) == IF p.core # AnyCore THEN p.core ELSE DefaultCoreFor(p)

(* resolve_core: "none" stands for ChainCoreConflict.                      *)
ResolveCore(ps, i) ==
    LET cores == ChainCores(ps, i)
    IN  CASE cores = {} -> PreferredCore(ps[i])
          [] Cardinality(cores) = 1 -> CHOOSE c \in cores : TRUE
          [] OTHER -> "none"

(* fixup_dangling_via, after a profile is dropped.                         *)
FixupDanglingVia(ps) ==
    [i \in Ids |-> IF ps[i].via # NoId /\ (ps[i].via = i \/ ps[ps[i].via] = Gone)
                   THEN [ps[i] EXCEPT !.via = NoId] ELSE ps[i]]

-----------------------------------------------------------------------------
(* One outbound (the builders of singbox_config.rs and xray_config.rs):    *)
(* the server it reaches, how, what it checks there, and the outbound it   *)
(* dials through.                                                          *)

NoTls == [on |-> FALSE, skips |-> FALSE, pinned |-> FALSE, reality |-> FALSE, name |-> "-"]

(* Mutant: "insecure" skips the check beside a pin too. *)
SingboxTls_AlwaysSkips(p, force) ==
    IF ~(HasTls(p) /\ (force \/ p.sec # "none")) THEN NoTls
    ELSE [on |-> TRUE, skips |-> Has(p, "insecure"), pinned |-> Has(p, "pcs"), reality |-> p.sec = "reality",
          name |-> CASE Has(p, "sni") -> "sni"
                     [] ~Has(p, "sni") /\ p.net = "grpc" /\ Has(p, "authority") -> "authority"
                     [] ~Has(p, "sni") /\ TransportHost(p) -> "host"
                     [] OTHER -> "address"]

SingboxTls(p, force) ==
    IF ~(HasTls(p) /\ (force \/ p.sec # "none")) THEN NoTls
    ELSE [on      |-> TRUE,
          skips   |-> Has(p, "insecure") /\ p.sec # "reality",
          pinned  |-> Has(p, "pcs") \/ (p.proto = "hysteria2" /\ Has(p, "pinSHA256")),
          reality |-> p.sec = "reality",
          name    |-> CASE Has(p, "sni") -> "sni"
                        [] ~Has(p, "sni") /\ p.net = "grpc" /\ Has(p, "authority") -> "authority"
                        [] ~Has(p, "sni") /\ TransportHost(p) -> "host"
                        [] OTHER -> "address"]

(* xhttp and kcp are not sing-box transports: the outbound goes without.   *)
SingboxTransport(p) ==
    CASE ~HasTransport(p) -> "-"
      [] HasTransport(p) /\ p.net \in {"xhttp", "kcp"} -> "tcp"
      [] OTHER -> p.net

(* Shadowsocks reaches its TLS and transport through a plugin.             *)
SingboxSsPlugin(p) ==
    CASE p.net = "tcp-http" -> [net |-> "tcp-http", tls |-> FALSE]
      [] p.net = "quic" -> [net |-> "quic", tls |-> TRUE]
      [] p.net \notin {"tcp-http", "quic"} /\ (p.net = "ws" \/ p.sec = "tls") ->
            [net |-> "ws", tls |-> p.sec = "tls"]
      [] OTHER -> [net |-> "tcp", tls |-> FALSE]

(* The protocols that only exist over TLS have it whatever the profile says. *)
SingboxOutboundTls(p) ==
    CASE p.proto = "shadowsocks" ->
            [NoTls EXCEPT !.on = SingboxSsPlugin(p).tls,
                          !.name = IF SingboxSsPlugin(p).tls THEN "plugin" ELSE "-"]
      [] p.proto \in {"vmess", "vless", "trojan", "http"} -> SingboxTls(p, FALSE)
      [] p.proto \in {"hysteria2", "tuic", "anytls", "naive", "shadowtls"} -> SingboxTls(p, TRUE)
      [] OTHER -> NoTls

SingboxOutbound(p, tag, id) ==
    [tag |-> tag, server |-> id, dialer |-> NoId,
     net |-> IF p.proto = "shadowsocks" THEN SingboxSsPlugin(p).net ELSE SingboxTransport(p),
     mux |-> MuxEnabled(p) /\ ~(p.proto = "vless" /\ p.opts \cap {"vision", "vision udp443"} # {}),
     tls |-> SingboxOutboundTls(p)]

(* Xray checks the certificate unless it is given a pin.                   *)
XrayTls(p) ==
    [on |-> TRUE, skips |-> FALSE, pinned |-> Has(p, "pcs"), reality |-> FALSE,
     name |-> CASE Has(p, "sni") -> "sni"
                [] ~Has(p, "sni") /\ TransportHost(p) -> "host"
                [] OTHER -> "address"]

XrayReality(p) ==
    [on |-> TRUE, skips |-> FALSE, pinned |-> FALSE, reality |-> TRUE,
     name |-> IF Has(p, "sni") THEN "sni" ELSE "-"]

XrayTransport(p) == IF HasTransport(p) THEN p.net ELSE "-"

XrayOutbound(p, tag, id) ==
    [tag |-> tag, server |-> id, dialer |-> NoId,
     net |-> XrayTransport(p),
     mux |-> MuxEnabled(p),
     tls |-> CASE p.proto = "hysteria2" -> XrayTls(p)
               [] p.proto # "hysteria2" /\ HasTls(p) /\ p.sec = "tls" -> XrayTls(p)
               [] p.proto # "hysteria2" /\ HasTls(p) /\ p.sec = "reality" -> XrayReality(p)
               [] OTHER -> NoTls]

Outbound(ps, core, tag, id) ==
    IF core = Xray THEN XrayOutbound(ps[id], tag, id) ELSE SingboxOutbound(ps[id], tag, id)

-----------------------------------------------------------------------------
(* A build (build_core_config): the active profile as `proxy`, the named   *)
(* profile under its own id, and the hops of both, each once.              *)

(* The outbound of profile `id`, pointed at the first hop of its chain.    *)
Chained(ps, core, tag, id) ==
    LET hops == ChainHops(ps, id)
    IN  [Outbound(ps, core, tag, id) EXCEPT !.dialer = IF hops = <<>> THEN NoId ELSE hops[1]]

(* attach_chain appends the hops not emitted yet, each dialling the next.  *)
AttachChain(ps, core, id, emitted) ==
    LET hops == ChainHops(ps, id)
    IN  {[Outbound(ps, core, hops[k], hops[k]) EXCEPT
            !.dialer = IF k < Len(hops) THEN hops[k + 1] ELSE NoId] :
         k \in {n \in DOMAIN hops : hops[n] \notin emitted}}

(* The target the rule gets: itself, or the active proxy.                  *)
TargetTag(ps, core, active, t) ==
    IF t = active \/ ps[t] = Gone \/ RuleTargetFallback(ps[t], core) THEN "proxy" ELSE t

Targets(ps, core, active, t) == IF t = NoId THEN {} ELSE {TargetTag(ps, core, active, t)} \ {"proxy"}

Hops(ps, ids) == UNION {Range(ChainHops(ps, id)) : id \in ids}

(* What fails a build: no core for the chain, no outbound for the active   *)
(* profile, a broken chain of it or of a target, a hop Xray cannot build.  *)
Unbuildable(ps, active, t) ==
    LET core == ResolveCore(ps, active)
        heads == {active} \cup Targets(ps, core, active, t)
    IN  \/ core = "none"
        \/ CoreConflict(ps[active]) /\ ps[active].proto = "custom"
        \/ core = SingBox /\ ps[active].proto = "custom"
        \/ core = Xray /\ ps[active].proto # "custom" /\ ~XrayBuilds(ps[active])
        \/ \E id \in heads : ChainBroken(ps, id)
        \/ core = Xray /\ \E h \in Hops(ps, heads) : ~XrayBuilds(ps[h])

(* The active profile and its chain; the targets are emitted already.      *)
ActiveOutbounds(ps, core, active, targets) ==
    {Chained(ps, core, "proxy", active)} \cup AttachChain(ps, core, active, targets)

Built(ps, active, t) ==
    LET core == ResolveCore(ps, active)
        targets == Targets(ps, core, active, t)
    IN  ActiveOutbounds(ps, core, active, targets)
        \cup {Chained(ps, core, id, id) : id \in targets}
        \cup UNION {AttachChain(ps, core, id, targets \cup Range(ChainHops(ps, active))) : id \in targets}

-----------------------------------------------------------------------------
(* Edits.  The editor saves a draft with any `via` a former list offered,  *)
(* so nothing here guards the chain: the builders do.                      *)

SetVia(i, j) ==
    /\ {i, j} \subseteq Stored
    /\ profs' = [profs EXCEPT ![i].via = j]
    /\ UNCHANGED named

SetCore(i, core) ==
    /\ i \in Stored
    /\ profs' = [profs EXCEPT ![i].core = core]
    /\ UNCHANGED named

NameTarget(i) ==
    /\ i \in Stored
    /\ named' = i
    /\ UNCHANGED profs

(* A deleted hop turns the chains through it into direct connections.      *)
DeleteProfile(i) ==
    /\ i \in Stored
    /\ profs' = FixupDanglingVia([profs EXCEPT ![i] = Gone])
    /\ UNCHANGED named

StartsWithoutTls(proto) == proto \in {"vless", "vmess", "shadowsocks", "http"}

TlsOpts == {"insecure", "pcs", "sni", "vcn", "pqv"}
NetOpts == {"host", "xray tuning", "service path", "ping timeout", "authority"}

(* switch_protocol: a skeleton of the new protocol that takes over the     *)
(* identity, the TLS and transport settings and what else both have.       *)
Switched(p, proto) ==
    LET fresh == [p EXCEPT !.proto = proto, !.opts = {}]
        sec == CASE ~HasTls(fresh) -> "none"
                 [] HasTls(fresh) /\ (~HasTls(p) \/ p.sec = "none" \/ proto = "shadowsocks") ->
                        IF StartsWithoutTls(proto) THEN "none" ELSE "tls"
                 [] OTHER -> p.sec
        kept == (IF HasTls(p) /\ HasTls(fresh) THEN TlsOpts ELSE {})
                \cup (IF HasTransport(p) /\ HasTransport(fresh) THEN NetOpts \cup {"mux"} ELSE {})
                \cup (IF {p.proto, proto} \subseteq {"vless", "trojan"} THEN {"vision", "vision udp443"} ELSE {})
                \cup (IF {p.proto, proto} \subseteq {"vless", "vmess"} THEN {"packetaddr"} ELSE {})
    IN  [fresh EXCEPT !.sec = sec,
                      !.net = CASE ~HasTransport(fresh) -> "-"
                                [] HasTransport(fresh) /\ HasTransport(p) -> p.net
                                [] OTHER -> "tcp",
                      !.opts = p.opts \cap kept]

SwitchProtocol(i, proto) ==
    /\ i \in Stored
    /\ proto # profs[i].proto /\ "custom" \notin {proto, profs[i].proto}
    /\ profs' = [profs EXCEPT ![i] = Switched(@, proto)]
    /\ UNCHANGED named

-----------------------------------------------------------------------------
(* One profile of any shape, or a few the chains are made of.              *)

ChoiceInit ==
    /\ named = NoId /\ edits = 0
    /\ \/ \E i \in Ids, s \in LoneShapes : profs = [j \in Ids |-> IF j = i THEN s ELSE Gone]
       \/ profs \in [Ids -> ChainShapes]

ChoiceNext ==
    /\ edits < MaxEdits /\ edits' = edits + 1
    /\ \/ \E i, j \in Ids : SetVia(i, j)
       \/ \E i \in Ids, core \in {Xray, SingBox} : SetCore(i, core)
       \/ \E i \in Ids : NameTarget(i)
       \/ \E i \in Ids : DeleteProfile(i)
       \/ \E i \in Ids, proto \in {"vless", "shadowsocks", "hysteria2"} : SwitchProtocol(i, proto)

ChoiceSpec == ChoiceInit /\ [][ChoiceNext]_choiceVars

-----------------------------------------------------------------------------
(* A stored profile keeps the shape of its protocol: a transport where the *)
(* protocol has one and no TLS where it has none, through every switch.    *)
ChoiceTypeOK ==
    /\ named \in Ids \cup {NoId}
    /\ \A i \in Ids : /\ profs[i].via \in Ids \cup {NoId}
                      /\ profs[i].core \in {Xray, SingBox, AnyCore}
                      /\ profs[i].sec \in {"none", "tls", "reality"}
                      /\ HasTransport(profs[i]) <=> profs[i].net # "-"
                      /\ ~HasTls(profs[i]) => profs[i].sec = "none"

(* The settings of one profile that ask for two different cores.           *)
PinsAgree(p) == Cardinality({q.core : q \in Range(CapabilityPins(p))}) <= 1

(* A core is chosen only if it builds the profile: whatever the chain and  *)
(* the override say, the build of a profile whose own settings do not      *)
(* contradict each other fails only with a reported conflict or chain.     *)
ResolvedBuilds ==
    \A i \in Stored :
        LET core == ResolveCore(profs, i)
        IN  (core # "none" /\ ~ChainBroken(profs, i) /\ ~CoreConflict(profs[i])
             /\ \A j \in Range(Walk(profs, i)) : PinsAgree(profs[j]) /\ ~CoreConflict(profs[j]))
            => ~Unbuildable(profs, i, NoId)

(* Following the outbounds from `proxy`, traffic passes the hops of the    *)
(* active profile's chain in order and no other, and only the last one is  *)
(* dialled from the device; the same from a rule's target.                 *)
Reaches(outs, tag) ==
    FoldLeft(LAMBDA path, k :
                IF Last(path).dialer = NoId THEN path
                ELSE Append(path, CHOOSE o \in outs : o.tag = Last(path).dialer),
             <<CHOOSE o \in outs : o.tag = tag>>, [k \in 1..Cardinality(Ids) |-> k])

ChainIsWhole ==
    \A i \in Stored :
        ~Unbuildable(profs, i, named) =>
            \E outs \in {Built(profs, i, named)} :
                /\ \A o, q \in outs : o.tag = q.tag => o = q
                /\ \A o \in outs : o.dialer # NoId => \E q \in outs : q.tag = o.dialer
                /\ \A o \in outs \ {q \in outs : q.tag \in Range(Tail(Walk(profs, i)))} :
                     LET path == Reaches(outs, o.tag)
                     IN  /\ [k \in DOMAIN path |-> path[k].server] = Walk(profs, o.server)
                         /\ Last(path).dialer = NoId

(* Shadowsocks over obfs-local, a plugin that has no TLS of its own.       *)
ObfsLocal(p) == p.proto = "shadowsocks" /\ p.net = "tcp-http"

(* The certificate check a profile asks for is the one its outbound makes: *)
(* TLS is never left out, the check is skipped only where the profile says *)
(* so, and where it says so the outbound does not fall back to checking.   *)
CertCheckIsKept ==
    \A i \in Stored :
        (profs[i].proto # "custom" /\ ~Unbuildable(profs, i, named)) =>
            \A o \in Built(profs, i, named) :
                LET p == profs[o.server]
                IN  /\ HasTls(p) /\ p.sec # "none" /\ ~ObfsLocal(p) => o.tls.on
                    /\ o.tls.skips => Has(p, "insecure") /\ p.sec # "reality"
                    /\ SkipsCertCheckUnpinned(p) /\ p.proto # "shadowsocks" => o.tls.skips
                    /\ p.sec = "reality" /\ p.proto \notin {"hysteria2", "shadowsocks"} => o.tls.reality

(* A profile either core may run connects the same way on both: same       *)
(* transport, TLS, check and server name.                                  *)
CoresAgree ==
    \A i \in Stored :
        (ForcedCore(profs[i]) = AnyCore /\ PinsAgree(profs[i]) /\ profs[i].proto \notin {"hysteria2"})
        => LET x == XrayOutbound(profs[i], "proxy", i)
               s == SingboxOutbound(profs[i], "proxy", i)
           IN  <<x.net, x.tls.on, x.tls.reality, x.tls.name>> = <<s.net, s.tls.on, s.tls.reality, s.tls.name>>

(* A transport the chosen core has no counterpart for is among the         *)
(* settings the interface warns about, also for a rule's target.           *)
LossIsListed ==
    \A i \in Stored :
        (profs[i].proto # "custom" /\ ~Unbuildable(profs, i, named)) =>
            \A o \in Built(profs, i, named) :
                (/\ HasTransport(profs[o.server]) /\ profs[o.server].proto # "shadowsocks"
                 /\ o.net # profs[o.server].net)
                    => profs[o.server].net \in XrayOnlySettings(profs[o.server])

(* What the chain picker offers without a conflict gives a chain that      *)
(* builds, if the profile builds without one.                              *)
PickerIsHonest ==
    \A i \in Stored :
        \A j \in ChainCandidates(profs, i) \ ChainConflicts(profs, i) :
            LET ps == [profs EXCEPT ![i].via = j]
            IN  (\A k \in Range(Walk(ps, i)) : PinsAgree(ps[k]) /\ ~CoreConflict(ps[k]))
                => ~Unbuildable(ps, i, NoId)

(* A rule's target a core cannot build costs the rule, not the start: the  *)
(* config of the active profile builds whether or not the rule is there.   *)
TargetNeverFailsBuild ==
    \A i \in Stored : ~Unbuildable(profs, i, NoId) => ~Unbuildable(profs, i, named)

(* The core a profile resolves to builds it and its chain, and keeps its   *)
(* transport, its TLS and its certificate check.                           *)
ChosenCoreFits ==
    /\ ChoiceTypeOK /\ ResolvedBuilds /\ ChainIsWhole /\ CertCheckIsKept
    /\ CoresAgree /\ LossIsListed /\ PickerIsHonest
=============================================================================
