------------------------------- MODULE Egress -------------------------------
(***************************************************************************)
(* How the sockets a core opens leave the tun (outbound_bind.rs).  Every   *)
(* outbound that reaches the network itself is bound to the uplink, or     *)
(* marked, or left to sing-box's own interface detection; one whose        *)
(* servers are on loopback must stay unbound, and one that dials through   *)
(* another outbound uses that one's socket.                                *)
(*                                                                         *)
(* An outbound is a record: its kind, where its servers are, where its     *)
(* config keeps them (`at`), the outbound it dials through (dialerProxy or *)
(* detour, and Xray's proxySettings), the download leg of an XHTTP stream  *)
(* ("none", "remote" or "loopback") and the domainStrategy that a          *)
(* provider's own sockopt carries.                                         *)
(***************************************************************************)
EXTENDS Integers, FiniteSets

CONSTANTS OutTags,       \* outbound tags
          NoTag,         \* no outbound
          Hosts,         \* the names of servers that are not addresses
          OutShapes      \* what an outbound may be

VARIABLES outs,          \* the outbounds of the built config, by tag
          core,          \* "xray" or "sing-box"
          tunMode,       \* "bind", "mark" (an external tun) or "native"
          resolved,      \* the families each name had addresses of before the tun came up
          mine,          \* the names the user's own dns.hosts maps
          escape,        \* what preparing the config wrote, by tag; << >> before
          pins           \* the families of the addresses pinned for each name

egressVars == <<outs, core, tunMode, resolved, mine, escape, pins>>

Loopback == {"loop4", "loop6", "localhost"}
Names == Hosts \cup {"localhost"}

(* What the fields of an outbound may hold; an outbound keeps its servers  *)
(* under `vnext` or `servers`, in a field of its own (Xray's hysteria), or *)
(* with its WireGuard peers.                                               *)
ASSUME EgressAssumption ==
    /\ NoTag \notin OutTags
    /\ Hosts \cap {"loop4", "loop6", "ip"} = {}
    /\ OutShapes \subseteq
         [kind : {"proxy", "direct", "blackhole", "loopback", "block", "selector", "urltest"},
          servers : SUBSET (Loopback \cup {"ip"} \cup Hosts),
          at : {"vnext", "servers", "address", "peers", "none"},
          dialer : OutTags \cup {NoTag}, relay : OutTags \cup {NoTag},
          leg : {"none", "remote", "loopback"},
          own : {"none", "AsIs", "UseIP", "UseIPv4", "UseIPv6"}]
    /\ \A o \in OutShapes : o.at = "none" => o.servers = {}

Untouched == [main |-> "none", leg |-> "none", families |-> {}, strategy |-> "none"]

-----------------------------------------------------------------------------
(* Outbounds that open no socket.                                          *)
OpensNoSocket(o) ==
    o.kind \in IF core = "xray" THEN {"blackhole", "loopback"} ELSE {"block", "selector", "urltest"}

LoopbackFamilies(o) ==
    UNION {CASE s = "loop4" -> {4} [] s = "loop6" -> {6} [] s = "localhost" -> {4, 6} [] OTHER -> {} :
           s \in o.servers}

DialsOnlyLoopback(o) == o.servers # {} /\ o.servers \subseteq Loopback

(* The socket is another outbound's.                                       *)
DialsThrough(o) == o.dialer # NoTag \/ (core = "xray" /\ o.relay # NoTag)

Way == IF tunMode = "bind" THEN "bound" ELSE "marked"

(* Mutant: the leg of a chained outbound is passed over. *)
EscapeXray_LegToo(o) ==
    IF OpensNoSocket(o) \/ DialsOnlyLoopback(o) \/ DialsThrough(o) THEN Untouched
    ELSE [Untouched EXCEPT !.leg = IF o.leg = "remote" THEN Way ELSE "none", !.main = Way]

(* escape_xray_outbound: the stream's own socket and the download leg's;   *)
(* nothing for an outbound on loopback.                                    *)
EscapeXray(o) ==
    IF OpensNoSocket(o) \/ DialsOnlyLoopback(o) THEN Untouched
    ELSE [Untouched EXCEPT
            !.leg = IF o.leg = "remote" THEN Way ELSE "none",
            !.main = IF DialsThrough(o) THEN "none" ELSE Way]

(* bind_singbox_outbound.                                                  *)
BindSingbox(o) ==
    IF OpensNoSocket(o) \/ DialsThrough(o) \/ DialsOnlyLoopback(o) THEN Untouched
    ELSE [Untouched EXCEPT !.main = "bound"]

(* mark_egress_outbounds: sing-box marks every dial at once.               *)
MarkSingbox(o) == [Untouched EXCEPT !.main = "marked"]

(* preserve_loopback_singbox_egress: a loopback outbound gets bind         *)
(* addresses of its families, which switch the device binding off; the     *)
(* builder does this to every sing-box config.                             *)
PreserveLoopback(o) ==
    IF OpensNoSocket(o) \/ DialsThrough(o) \/ ~DialsOnlyLoopback(o) THEN {} ELSE LoopbackFamilies(o)

(* pin_xray_server_hosts: what resolved of the servers kept under `vnext`  *)
(* or `servers`; a name that did not resolve is passed over.               *)
PinnedOf(o) == {h \in o.servers \cap Names : o.at \in {"vnext", "servers"} /\ resolved[h] # {}}

(* The addresses of a name that are pinned: the IPv4 ones when it has any. *)
PinFamilies(h) == IF 4 \in resolved[h] THEN {4} ELSE resolved[h]

(* How the outbound then resolves: a provider's own strategy stays, and    *)
(* names of both kinds get the generic one.                                *)
PinStrategy(o) ==
    IF o.own # "none" \/ PinnedOf(o) = {} THEN o.own
    ELSE CASE \A h \in PinnedOf(o) : 4 \in resolved[h] -> "UseIPv4"
           [] \A h \in PinnedOf(o) : 4 \notin resolved[h] -> "UseIPv6"
           [] OTHER -> "UseIP"

-----------------------------------------------------------------------------
(* collect_xray_servers: the names that are looked up before the tun is    *)
(* there; a sing-box config gets no pins, and its names are not followed.  *)
Looked(o) == IF o.at = "address" THEN {} ELSE o.servers \cap Names

EgressInit ==
    /\ outs \in [OutTags -> OutShapes]
    /\ core \in {"xray", "sing-box"}
    /\ tunMode \in {"bind", "mark", "native"}
    /\ tunMode = "native" => core = "sing-box"
    /\ core = "sing-box" => \A t \in OutTags : outs[t].leg = "none" /\ outs[t].relay = NoTag
    /\ \A t \in OutTags : outs[t].dialer # t /\ outs[t].relay # t
    /\ \E looked \in {IF core = "xray" THEN UNION {Looked(outs[t]) : t \in OutTags} ELSE {}} :
          /\ resolved \in {f \in [Names -> SUBSET {4, 6}] : \A h \in Names \ looked : f[h] = {}}
          /\ mine \in SUBSET looked
    /\ escape = << >> /\ pins = [h \in Names |-> {}]

(* The platform prepares the config it is about to start the core with.    *)
Prepare ==
    /\ escape = << >>
    /\ escape' = [t \in OutTags |->
         LET o == outs[t]
             e == CASE core = "xray" -> EscapeXray(o)
                    [] core = "sing-box" /\ tunMode = "bind" -> BindSingbox(o)
                    [] core = "sing-box" /\ tunMode = "mark" -> MarkSingbox(o)
                    [] OTHER -> Untouched
         IN  [e EXCEPT !.families = IF core = "sing-box" THEN PreserveLoopback(o) ELSE {},
                       !.strategy = IF core = "xray" THEN PinStrategy(o) ELSE o.own]]
    /\ pins' = [h \in Names |->
         IF core = "xray" /\ h \notin mine /\ \E t \in OutTags : h \in PinnedOf(outs[t])
         THEN PinFamilies(h) ELSE {}]
    /\ UNCHANGED <<outs, core, tunMode, resolved, mine>>

EgressNext == Prepare

EgressSpec == EgressInit /\ [][EgressNext]_egressVars

-----------------------------------------------------------------------------
Prepared == escape # << >>

(* External: a bind address of the family switches sing-box's own device   *)
(* binding off; otherwise `auto_detect_interface` binds every dial.        *)
OnDevice(t) ==
    IF core = "sing-box" THEN escape[t].main = "bound" \/ escape[t].families = {}
    ELSE escape[t].main = "bound"

(* An outbound that dials through another uses that one's socket; what     *)
(* reaches the network is what dials for itself.                           *)
DialsRemote(o) == ~OpensNoSocket(o) /\ ~DialsOnlyLoopback(o)

(* No dial to the network re-enters the tun: the socket of every outbound  *)
(* that dials a remote server for itself is bound, marked or on the device *)
(* sing-box detects, and so is the download leg of a stream, whoever dials *)
(* the stream.                                                             *)
NothingLoops ==
    Prepared =>
        \A t \in OutTags :
            DialsRemote(outs[t]) =>
                /\ \/ DialsThrough(outs[t]) \/ escape[t].main # "none"
                   \/ tunMode = "native" /\ OnDevice(t)
                /\ outs[t].leg = "remote" => escape[t].leg # "none"

(* An outbound whose servers are all on this machine is bound to no        *)
(* device, whichever way the others leave: it gets a bind address of every *)
(* family its servers may have.                                            *)
LocalRelayReachable ==
    Prepared =>
        \A t \in OutTags :
            (DialsOnlyLoopback(outs[t]) /\ ~DialsThrough(outs[t]) /\ ~OpensNoSocket(outs[t])) =>
                /\ escape[t].main # "bound"
                /\ core = "sing-box" => escape[t].families = LoopbackFamilies(outs[t]) /\ escape[t].families # {}

(* External: Xray looks a name up in its own DNS, where a pin answers,     *)
(* when the socket's strategy asks for a family the pin has.               *)
Asks(strategy) ==
    CASE strategy = "UseIPv4" -> {4} [] strategy = "UseIPv6" -> {6} [] strategy = "UseIP" -> {4, 6} [] OTHER -> {}

AnsweredByPin(t, h) == Asks(escape[t].strategy) \cap pins[h] # {}

(* A domain server Xray dials has its name answered by a pin of a family   *)
(* the outbound asks for, whatever other servers and outbounds resolved    *)
(* to, exactly when the name resolved before the tun came up and the code  *)
(* reads where it stands: a name that did not resolve gets none, nor does  *)
(* the server of a hysteria outbound or a WireGuard peer.  The user's own  *)
(* hosts and a provider's own strategy win and answer as they say.         *)
DomainServersArePinned ==
    (Prepared /\ core = "xray") =>
        \A t \in OutTags : \A h \in outs[t].servers \cap Names :
            (outs[t].own = "none" /\ h \notin mine) =>
                (AnsweredByPin(t, h) <=> resolved[h] # {} /\ outs[t].at \in {"vnext", "servers"})

(* A core's own sockets pass the tun by, the servers' names that resolved  *)
(* before it was there are answered by pins, and this machine's relays     *)
(* stay reachable.                                                         *)
EgressPassesTun == NothingLoops /\ LocalRelayReachable /\ DomainServersArePinned
=============================================================================
