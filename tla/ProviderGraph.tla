--------------------------- MODULE ProviderGraph ---------------------------
(***************************************************************************)
(* A provider's Xray config, reduced to its connection graph.  At import   *)
(* the config is sanitised and its outbounds, balancers, observatory and   *)
(* loopback contexts are validated as one graph; at every build the stored *)
(* form is sanitised again and rendered under generated tags, behind an    *)
(* outbound `proxy` (custom_sanitize.rs, provider_graph.rs, costs.rs and   *)
(* the chain entry of xray_config.rs).                                     *)
(*                                                                         *)
(* Tags are sequences of numbers, so that a selector is a set of prefixes; *)
(* << >> is no tag.  An outbound: its tag, its kind ("proxy", "service" or *)
(* "loop"), the virtual inbound of a loopback, the outbound it dials       *)
(* through as dialerProxy (`dialer`) or as proxySettings (`relay`), the    *)
(* server it stands for and what is wrong with it.  A target is            *)
(* <<"o", tag>> or <<"b", tag>>; <<"v", tag>> is a virtual inbound.        *)
(***************************************************************************)
EXTENDS Sequences, FiniteSets, Integers, SequencesExt

CONSTANTS Bodies,        \* the configs a provider may send
          MaxMembers,    \* MAX_SELECTOR_MEMBERS
          MaxNodes       \* MAX_GRAPH_NODES

VARIABLES body,          \* the config as the provider sent it
          stored,        \* the profile's `raw`, after an import
          chained,       \* whether the profile dials through another (`via`)
          built,         \* the rendered outbounds, balancers and rules
          stage          \* offered, refused, stored, built or unbuildable

graphVars == <<body, stored, chained, built, stage>>

Nameless == << >>
ProxyTag == <<5>>
DirectTag == <<6>>
HopTag == <<4>>
SelectTag == <<3>>
Both == {"tcp", "udp"}

TagsOf(outs) == {outs[k].tag : k \in DOMAIN outs}
At(outs, tag) == CHOOSE k \in DOMAIN outs : outs[k].tag = tag
OutOf(outs, tag) == outs[At(outs, tag)]
BalOf(c, tag) == CHOOSE b \in c.bals : b.tag = tag

-----------------------------------------------------------------------------
(* Sanitising (custom_sanitize.rs).                                        *)

(* validate_stream_security: a field Xray would bind under another case,   *)
(* or a certificate read from a local file, refuses the config.            *)
StreamRefused(o) == o.flaw \in {"alias", "cert file"}

(* strip_host_files: a key log, unknown socket options and unknown keys    *)
(* are left out.                                                           *)
StripHostFiles(o) == IF o.flaw \in {"key log", "socket option"} THEN [o EXCEPT !.flaw = "none"] ELSE o

(* drop_pinned_allow_insecure: Xray refuses the key and a pin replaces it. *)
DropPinnedInsecure(o) == IF o.flaw = "insecure and pinned" THEN [o EXCEPT !.flaw = "pinned"] ELSE o

(* sanitize_outbound on each: what is no object is dropped.                *)
Sanitized(c) ==
    LET objects == SelectSeq(c.outs, LAMBDA o : o.flaw # "no object")
    IN  [c EXCEPT !.outs = [k \in DOMAIN objects |-> DropPinnedInsecure(StripHostFiles(objects[k]))]]

OutboundRefused(c) ==
    \/ \E k \in DOMAIN c.outs : c.outs[k].flaw = "protocol" \/ StreamRefused(c.outs[k])
    \/ \A k \in DOMAIN Sanitized(c).outs : Sanitized(c).outs[k].kind = "service"

(* ProviderFragment::build gives an unnamed outbound the first free tag of *)
(* its position.                                                           *)
Unnamed(outs, k) ==
    LET free == {s \in 0..Len(outs) : <<9, k, s>> \notin TagsOf(outs)}
    IN  <<9, k, CHOOSE s \in free : \A t \in free : s <= t>>

Tagged(outs) ==
    [k \in DOMAIN outs |-> IF outs[k].tag = Nameless THEN [outs[k] EXCEPT !.tag = Unnamed(outs, k)] ELSE outs[k]]

(* into_provider_json: outbounds that had no tag are stored without one.   *)
ProviderJson(c) == Sanitized(c)

-----------------------------------------------------------------------------
(* The fragment: every lookup below is in a sanitised, tagged config.      *)

FirstOutbound(c) == c.outs[1].tag
VirtualTags(c) == {c.outs[k].vtag : k \in {j \in DOMAIN c.outs : c.outs[j].kind = "loop"}}

HopOf(o) == IF o.dialer # Nameless THEN o.dialer ELSE o.relay

TagsRefused(c) ==
    \/ Cardinality(TagsOf(c.outs)) # Len(c.outs)
    \/ Len(c.outs) + Cardinality(c.bals) + Cardinality(VirtualTags(c)) > MaxNodes
    \/ \E k \in DOMAIN c.outs :
         LET o == c.outs[k]
         IN  \/ o.kind = "loop" /\ (o.vtag = Nameless \/ o.vtag \in c.inbs)
             \/ o.flaw = "bare relay"
             \/ o.dialer # Nameless /\ o.relay # Nameless
             \/ HopOf(o) # Nameless /\ (HopOf(o) = o.tag \/ HopOf(o) \notin TagsOf(c.outs))

(* A selector names outbounds by prefix, the unnamed ones excepted.        *)
Selected(c, prefixes) ==
    {t \in TagsOf(c.outs) \ c.synthetic : \E p \in prefixes : IsPrefix(p, t)}

IsObservationStrategy(b) == b.strategy \in {"leastPing", "leastLoad"}

SelectorRefused(c, prefixes) ==
    \/ Selected(c, prefixes) = {}
    \/ Cardinality(Selected(c, prefixes)) > MaxMembers
    \/ \E t \in Selected(c, prefixes) : OutOf(c.outs, t).kind = "service"

BalancerRefused(c, b) ==
    \/ b.tag \in TagsOf(c.outs)
    \/ SelectorRefused(c, b.selector)
    \/ b.fallback # Nameless /\ b.fallback \notin TagsOf(c.outs)
    \/ b.costs # <<>> /\ b.strategy # "leastLoad"
    \/ IsObservationStrategy(b) /\ c.subjects = {}

(* validate_probe_url: only a public http address is probed.               *)
ProbeUrlRefused(c) == c.probe \in {"private address", "no address"}

(* An interval below MIN_PROBE_INTERVAL, a timeout or sampling above its   *)
(* maximum; both observatories at once.                                    *)
ProbePaceRefused(c) == c.probe \in {"too often", "too long", "both kinds"}

ObservatoryRefused(c) ==
    c.subjects # {} /\ (ProbeUrlRefused(c) \/ ProbePaceRefused(c) \/ SelectorRefused(c, c.subjects))

(* Where an empty pick goes: the fallback, which is dropped where nothing  *)
(* observes, or Xray's default made explicit.                              *)
Fallback(c, b) ==
    CASE b.fallback # Nameless /\ (c.subjects # {} \/ IsObservationStrategy(b)) -> b.fallback
      [] b.fallback = Nameless /\ IsObservationStrategy(b) -> FirstOutbound(c)
      [] OTHER -> Nameless

(* The first cost rule whose text a member's own tag contains decides its  *)
(* weight.                                                                 *)
HasText(t, s) == s # << >> /\ \E i \in 1..(Len(t) - Len(s) + 1) : SubSeq(t, i, i + Len(s) - 1) = s

Weight(costs, t) ==
    LET at == {k \in DOMAIN costs : HasText(t, costs[k].match)}
    IN  IF at = {} THEN 1 ELSE costs[CHOOSE k \in at : \A j \in at : k <= j].value

ResolveCosts(c, b) == [t \in Selected(c, b.selector) |-> Weight(b.costs, t)]

-----------------------------------------------------------------------------
(* Rules.  One that names only virtual inbounds belongs to their context;  *)
(* a conditional one for real inbounds is ignored.                         *)

IsVirtual(c, r) == r.inb # {} /\ r.inb \subseteq VirtualTags(c)
PortsCoverAll(r) == r.ports = {} \/ \A p \in 1..3 : \E q \in r.ports : q[1] <= p /\ p <= q[2]
IsConditional(r) == r.cond \/ ~PortsCoverAll(r)

RuleRefused(c, r) ==
    \/ r.target[1] = "o" /\ r.target[2] \notin TagsOf(c.outs)
    \/ r.target[1] = "b" /\ \A b \in c.bals : b.tag # r.target[2]
    \/ r.inb \cap VirtualTags(c) # {} /\ ~IsVirtual(c, r)
    \/ IsVirtual(c, r) /\ IsConditional(r)

(* The first of some rules that covers a transport, or the default.        *)
FirstTarget(c, applicable, net) ==
    LET at == {k \in DOMAIN c.rules : k \in applicable /\ net \in c.rules[k].net}
    IN  IF at = {} THEN <<"o", FirstOutbound(c)>> ELSE c.rules[CHOOSE k \in at : \A j \in at : k <= j].target

ContextRules(c, v) ==
    {k \in DOMAIN c.rules : IF IsVirtual(c, c.rules[k]) THEN v \in c.rules[k].inb
                            ELSE c.rules[k].inb = {} /\ ~IsConditional(c.rules[k])}
EntryRules(c) == {k \in DOMAIN c.rules : ~IsVirtual(c, c.rules[k]) /\ ~IsConditional(c.rules[k])}

(* UDP may differ from TCP only by going to no proxy at all.               *)
Ambiguous(c, applicable) ==
    LET udp == FirstTarget(c, applicable, "udp")
    IN  /\ udp # FirstTarget(c, applicable, "tcp")
        /\ ~(udp[1] = "o" /\ OutOf(c.outs, udp[2]).kind = "service")

Listeners(c) == {c.rules[k].target : k \in {j \in EntryRules(c) : c.rules[j].inb # {}}}

TargetsRefused(c) ==
    \/ \E v \in VirtualTags(c) : Ambiguous(c, ContextRules(c, v))
    \/ Ambiguous(c, EntryRules(c))
    \/ Cardinality(Listeners(c)) > 1

Entry(c) == FirstTarget(c, EntryRules(c), "tcp")
Context(c, v) == FirstTarget(c, ContextRules(c, v), "tcp")

-----------------------------------------------------------------------------
(* The graph: a balancer's members and fallback, a context's target, a     *)
(* loopback's context and what an outbound dials through.                  *)

Nodes(c) == {<<"o", t>> : t \in TagsOf(c.outs)} \cup {<<"b", b.tag>> : b \in c.bals}
            \cup {<<"v", v>> : v \in VirtualTags(c)}

Opt(t) == IF t = Nameless THEN {} ELSE {<<"o", t>>}

Edges(c, n) ==
    CASE n[1] = "o" -> LET o == OutOf(c.outs, n[2])
                       IN  Opt(HopOf(o)) \cup (IF o.kind = "loop" THEN {<<"v", o.vtag>>} ELSE {})
      [] n[1] = "b" -> {<<"o", t>> : t \in Selected(c, BalOf(c, n[2]).selector)} \cup Opt(Fallback(c, BalOf(c, n[2])))
      [] n[1] = "v" -> {Context(c, n[2])}

Grow(step(_), S, n) == FoldLeft(LAMBDA acc, k : step(acc), S, [k \in 1..n |-> k])

Reachable(c, n) == Grow(LAMBDA S : S \cup UNION {Edges(c, m) : m \in S}, Edges(c, n), Cardinality(Nodes(c)))

HasCycle(c) == \E n \in Nodes(c) : n \in Reachable(c, n)

(* node_has_proxy: a server, a loopback or context that leads to one, a    *)
(* balancer with a member that does.                                       *)
LeadsToProxy(c, S, n) ==
    CASE n[1] = "o" -> \/ OutOf(c.outs, n[2]).kind = "proxy"
                       \/ OutOf(c.outs, n[2]).kind = "loop" /\ <<"v", OutOf(c.outs, n[2]).vtag>> \in S
      [] n[1] = "b" -> \E t \in Selected(c, BalOf(c, n[2]).selector) : <<"o", t>> \in S
      [] n[1] = "v" -> Context(c, n[2]) \in S

Proxied(c) == Grow(LAMBDA S : {n \in Nodes(c) : LeadsToProxy(c, S, n)}, {}, Cardinality(Nodes(c)) + 1)

NotProxied(c) ==
    \E S \in {Proxied(c)} :
        \/ Entry(c) \notin S
        \/ \E b \in c.bals : \E t \in Selected(c, b.selector) : <<"o", t>> \notin S
        \/ \E t \in Selected(c, c.subjects) : <<"o", t>> \notin S

(* The graph a config is read as: the outbounds tagged, the made-up tags   *)
(* remembered.                                                             *)
Fragment(c) ==
    [Sanitized(c) EXCEPT
        !.synthetic = TagsOf(Tagged(Sanitized(c).outs)) \ TagsOf(Sanitized(c).outs),
        !.outs = Tagged(Sanitized(c).outs)]

FragmentRefused(f) ==
    \/ TagsRefused(f)
    \/ \E b \in f.bals : BalancerRefused(f, b)
    \/ ObservatoryRefused(f)
    \/ \E k \in DOMAIN f.rules : RuleRefused(f, f.rules[k])
    \/ TargetsRefused(f)
    \/ HasCycle(f)
    \/ NotProxied(f)

(* sanitize_provider_xray.                                                 *)
Refused(c) ==
    \/ Sanitized(c).outs = <<>>
    \/ OutboundRefused(c)
    \/ FragmentRefused(Fragment(c))

(* An entry that nothing else in the graph refers to may itself be `proxy`. *)
PlainEntry(f) ==
    /\ Entry(f)[1] = "o"
    /\ OutOf(f.outs, Entry(f)[2]).kind # "loop"
    /\ \A n \in Nodes(f) : Entry(f) \notin Edges(f, n)
    /\ Entry(f)[2] \notin Selected(f, f.subjects)

-----------------------------------------------------------------------------
(* Rendering (ProviderFragment::render).                                   *)

(* A generated tag: the kind, the index in fixed-width digits and an end   *)
(* mark, so that no tag is a prefix of another.                            *)
Name(kind, k) == <<8, kind>> \o <<k \div 4, (k \div 2) % 2, k % 2>> \o <<7>>

NameOf(f, t) ==
    CASE t = Nameless -> Nameless
      [] t # Nameless /\ PlainEntry(f) /\ <<"o", t>> = Entry(f) -> ProxyTag
      [] OTHER -> Name(1, At(f.outs, t))

BalName(b) == <<8, 2>> \o b.tag \o <<7>>
VirtualName(v) == IF v = Nameless THEN Nameless ELSE <<8, 3>> \o v \o <<7>>

RenderOut(f, o) ==
    [o EXCEPT !.tag = NameOf(f, o.tag), !.dialer = NameOf(f, o.dialer), !.relay = NameOf(f, o.relay),
              !.vtag = VirtualName(o.vtag)]

RenderTarget(f, n) == IF n[1] = "o" THEN <<"o", NameOf(f, n[2])>> ELSE <<"b", BalName(BalOf(f, n[2]))>>

(* Mutant: the costs keep the tags of the provider. *)
RenderBal_KeepsCosts(f, b) ==
    [b EXCEPT !.tag = BalName(b),
              !.selector = {NameOf(f, t) : t \in Selected(f, b.selector)},
              !.fallback = NameOf(f, Fallback(f, b))]

RenderBal(f, b) ==
    [b EXCEPT !.tag = BalName(b),
              !.selector = {NameOf(f, t) : t \in Selected(f, b.selector)},
              !.fallback = NameOf(f, Fallback(f, b)),
              !.costs = IF b.costs = <<>> THEN <<>>
                        ELSE SetToSeq({[match |-> NameOf(f, t), value |-> ResolveCosts(f, b)[t]] :
                                        t \in Selected(f, b.selector)})]

ContextRule(inb, target) == [inb |-> {inb}, cond |-> FALSE, ports |-> {}, net |-> Both, target |-> target]

Loop == [tag |-> ProxyTag, kind |-> "loop", vtag |-> SelectTag, dialer |-> Nameless, relay |-> Nameless,
         server |-> 0, flaw |-> "none"]

Render(f) ==
    [f EXCEPT
        !.outs = (IF PlainEntry(f) THEN <<>> ELSE <<Loop>>) \o [k \in DOMAIN f.outs |-> RenderOut(f, f.outs[k])],
        !.bals = {RenderBal(f, b) : b \in f.bals},
        !.rules = (IF PlainEntry(f) THEN <<>> ELSE <<ContextRule(SelectTag, RenderTarget(f, Entry(f)))>>)
                  \o SetToSeq({ContextRule(VirtualName(v), RenderTarget(f, Context(f, v))) : v \in VirtualTags(f)}),
        !.subjects = {NameOf(f, t) : t \in Selected(f, f.subjects)}]

(* direct_dialer: from `proxy` along dialerProxy to the outbound that      *)
(* connects itself; the profile's own chain attaches there.                *)
DirectDialer(outs) ==
    FoldLeft(LAMBDA k, n : IF outs[k].dialer = Nameless THEN k ELSE At(outs, outs[k].dialer),
             At(outs, ProxyTag), outs)

Hop == [Loop EXCEPT !.tag = HopTag, !.kind = "proxy", !.vtag = Nameless]
Direct == [Loop EXCEPT !.tag = DirectTag, !.kind = "service", !.vtag = Nameless]

(* The outbounds of the config the core gets.                              *)
WithChain(r, via) ==
    [r EXCEPT !.outs = (IF via THEN [r.outs EXCEPT ![DirectDialer(r.outs)].dialer = HopTag] \o <<Hop>> ELSE r.outs)
                       \o <<Direct>>]

-----------------------------------------------------------------------------
GraphInit ==
    /\ body \in Bodies /\ chained = FALSE
    /\ stored = body /\ built = body /\ stage = "offered"

ImportConfig ==
    /\ stage = "offered"
    /\ stage' = IF Refused(body) THEN "refused" ELSE "stored"
    /\ stored' = IF Refused(body) THEN stored ELSE ProviderJson(body)
    /\ UNCHANGED <<body, chained, built>>

(* compile_custom_profile, then the chain; sanitised on every build.       *)
BuildConfig(via) ==
    /\ stage = "stored"
    /\ \E f \in {Fragment(stored)} :
         LET bad == Refused(stored) \/ (via /\ ~PlainEntry(f))
         IN  /\ stage' = IF bad THEN "unbuildable" ELSE "built"
             /\ built' = IF bad THEN built ELSE WithChain(Render(f), via)
    /\ chained' = via
    /\ UNCHANGED <<body, stored>>

GraphNext == ImportConfig \/ \E via \in BOOLEAN : BuildConfig(via)

GraphSpec == GraphInit /\ [][GraphNext]_graphVars

-----------------------------------------------------------------------------
(* External: how Xray walks a config.  The first rule that matches decides *)
(* and the first outbound is the default; a selector takes every outbound  *)
(* it is a prefix of; a balancer may find no member alive when it observes *)
(* them.                                                                   *)

Dispatch(c, inb, net) ==
    LET at == {k \in DOMAIN c.rules : /\ ~IsConditional(c.rules[k]) /\ net \in c.rules[k].net
                                      /\ c.rules[k].inb = {} \/ inb \in c.rules[k].inb}
    IN  IF at = {} THEN <<"o", c.outs[1].tag>> ELSE c.rules[CHOOSE k \in at : \A j \in at : k <= j].target

Members(c, b) == {t \in TagsOf(c.outs) \ c.synthetic : \E p \in b.selector : IsPrefix(p, t)}

Spare(c, b) ==
    CASE b.fallback # Nameless /\ (c.subjects # {} \/ IsObservationStrategy(b)) -> {b.fallback}
      [] b.fallback = Nameless /\ IsObservationStrategy(b) -> {c.outs[1].tag}
      [] OTHER -> {}

(* Where a connection that reached node n may go next, with or without the *)
(* picks of a balancer whose members are all down.                         *)
Onward(c, n, net, spare) ==
    CASE n[1] = "b" -> {<<"o", t>> : t \in Members(c, BalOf(c, n[2]))
                                     \cup (IF spare THEN Spare(c, BalOf(c, n[2])) ELSE {})}
      [] n[1] = "o" /\ OutOf(c.outs, n[2]).kind = "loop" -> {Dispatch(c, OutOf(c.outs, n[2]).vtag, net)}
      [] OTHER -> {}

Visits(c, n, net, spare) ==
    Grow(LAMBDA S : S \cup UNION {Onward(c, m, net, spare) : m \in S}, {n}, Len(c.outs) + Cardinality(c.bals))

(* The servers an outbound dials through, nearest first.                   *)
DialPath(c, t) ==
    FoldLeft(LAMBDA path, k : IF HopOf(OutOf(c.outs, Last(path))) = Nameless THEN path
                              ELSE Append(path, HopOf(OutOf(c.outs, Last(path)))),
             <<t>>, c.outs)

Servers(c, path) == [k \in DOMAIN path |-> OutOf(c.outs, path[k]).server]

(* The exits of a connection: each server it may end at and the way there. *)
Exits(c, n, net, spare) ==
    {Servers(c, DialPath(c, m[2])) :
        m \in {m \in Visits(c, n, net, spare) : m[1] = "o" /\ OutOf(c.outs, m[2]).kind # "loop"}}

Ready == stage = "built"

(* The inbounds of the provider's own config, one no rule names included.  *)
OriginalInbounds(f) ==
    (f.inbs \cup {SelectTag} \cup UNION {f.rules[k].inb : k \in DOMAIN f.rules}) \ VirtualTags(f)

(* Traffic sent to `proxy` has the exits, through the same hops, that the  *)
(* provider's own config gives it, also when every observed member is      *)
(* down: the new names, the exact selectors, the explicit fallback and the *)
(* extra loopback change nothing.                                          *)
SameExits ==
    (Ready /\ ~chained) =>
        \E f \in {Fragment(body)} :
            Exits(built, <<"o", ProxyTag>>, "tcp", TRUE) \in
                {Exits(f, Dispatch(f, inb, "tcp"), "tcp", TRUE) : inb \in OriginalInbounds(f)}

(* No connection circles inside the core: the way on from `proxy` never    *)
(* comes back to a node it passed, whatever the balancers pick.            *)
NeverCircles ==
    Ready =>
        \A n \in Visits(built, <<"o", ProxyTag>>, "tcp", TRUE), net \in Both :
            n \notin UNION {Visits(built, m, net, TRUE) : m \in Onward(built, n, net, TRUE)}

(* Traffic the routing sends to `proxy` reaches a proxy server as long as  *)
(* a balancer has a member to pick: no selector, context or loopback leads *)
(* to a direct connection.                                                 *)
PrimaryIsProxied ==
    Ready =>
        \A m \in Visits(built, <<"o", ProxyTag>>, "tcp", FALSE) :
            m[1] = "o" => OutOf(built.outs, m[2]).kind # "service"

(* What import accepted every later build accepts, as the same graph.      *)
StoredReadsBack ==
    stage \in {"stored", "built", "unbuildable"} =>
        /\ ~Refused(stored)
        /\ Fragment(stored) = Fragment(body)

(* A member keeps its cost: the rule for its new tag has the weight the    *)
(* provider's rules gave its own.                                          *)
CostsFollowMembers ==
    (Ready /\ ~chained) =>
        \E f \in {Fragment(body)} :
            \A b \in f.bals : \A t \in Selected(f, b.selector) :
                Weight((BalOf(built, BalName(b))).costs, NameOf(f, t)) = Weight(b.costs, t)

(* External: with both a dialerProxy and proxySettings Xray dials through  *)
(* only one of them.                                                       *)
Dials(c, t) == (Opt(OutOf(c.outs, t).dialer) \cup Opt(OutOf(c.outs, t).relay))

(* The chain of a provider profile is in front of every connection it      *)
(* makes: whichever hop Xray takes, the device connects to the user's hop. *)
ViaIsTaken ==
    (Ready /\ chained) =>
        \A n \in Visits(built, <<"o", ProxyTag>>, "tcp", TRUE) :
            \A m \in Grow(LAMBDA S : S \cup UNION {Dials(built, x[2]) : x \in S}, {n}, Len(built.outs)) :
                Dials(built, m[2]) = {} => m[2] = HopTag

(* An imported graph is the provider's: the same exits, proxied and        *)
(* without circles, at the same costs, now and at every later build.       *)
ImportKeepsGraph ==
    SameExits /\ NeverCircles /\ PrimaryIsProxied /\ StoredReadsBack /\ CostsFollowMembers
=============================================================================
