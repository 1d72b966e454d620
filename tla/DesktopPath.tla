----------------------------- MODULE DesktopPath -----------------------------
(***************************************************************************)
(* The data path of a desktop: what its owner, the privileged helper or    *)
(* service, brings up and takes down (desktop/platform.rs), the routing it *)
(* installs on Linux and on Windows (linux/routing.rs, windows/routing.rs, *)
(* windows/dns_guard.rs), and the files by which a later owner finds what  *)
(* a crashed one left. Every start is preceded by a stop that keeps the    *)
(* recorded state, as the service asks for it.                             *)
(***************************************************************************)
EXTENDS Naturals, FiniteSets

CONSTANTS Pids,    \* process ids, recycled by the system
          Plans,   \* what starts ask for: [engine, tun, helper, mode is tun iff tun # "none"]
          Configs, \* built configs: sets of [key, host] entries that name a peer
          Flaky,   \* the pieces of routing whose commands may fail
          MaxLost  \* bound: the pieces that failed commands account for at a time

Bins == {"xray", "sing-box", "tun2socks", "hev"}
Procs == Bins \cup {"free", "other"}
Steps == {"idle", "stop core", "stop routes", "stop auto", "stop helper", "stop doc",
          "prepare", "spawn", "verify", "helper", "await", "escape", "capture", "record", "guard", "commit"}

CoreBins == {"xray", "sing-box"}
HelperBins == {"tun2socks", "hev", "sing-box"}

(* DataPathPlan::resolve: a native tun is sing-box's own, a helper is of an external one. *)
ASSUME DesktopConstants ==
    /\ 0 \notin Pids
    /\ \A p \in Plans : /\ p.engine \in CoreBins /\ p.tun \in {"none", "native", "external"}
                        /\ p.tun = "native" => p.engine = "sing-box"
                        /\ IF p.tun = "external" THEN p.helper \in HelperBins ELSE p.helper = "none"

VARIABLES host,     \* what does not change: [os, gated, cfg]
          uplink,   \* the device of the default route, "none" when offline
          owner,    \* the owner process: "up" or "down"
          pc,       \* per task of the owner, its step: the command, and watch_gui's last stop
          goal,     \* the plan the command starts after its stop, "stop", or "failed" for a rollback
          last,     \* what the last command left: "boot", "up", "down"
          doc,      \* the recorded data path: [run, tun, helper, started, reason]
          exe,      \* what runs under each pid
          core, helper,          \* the owner's live children, 0 for none
          corePid, helperPid,    \* the pid files
          iface,    \* whether a tun's name is on file
          dev,      \* whether the tun device is there
          net,      \* what is installed in the system's routing
          rows,     \* the recorded routes, {"no file"} without a record
          dnsGuard,    \* the installed DNS filters
          escaping, \* whether the written config makes the core's dials avoid the tun
          torn,     \* Windows routes that no record names: a crash or a failed write came first
          missed,   \* what the last start had to add and a command did not
          stuck,    \* what was to go and a command did not take
          hit       \* by which pid file a stranger was signalled

tasks == <<pc, goal, last>>
procs == <<exe, core, helper, corePid, helperPid, dev>>
system == <<net, rows, dnsGuard, iface>>
ledger == <<torn, missed, stuck>>
desktopVars == <<host, uplink, owner, tasks, doc, procs, system, escaping, ledger, hit>>

Linux == host.os = "linux"
NoFile == {"no file"}
StopGoal == [engine |-> "stop", tun |-> "none", helper |-> "none"]
FailedGoal == [StopGoal EXCEPT !.engine = "failed"]
Stopped == [run |-> "Stopped", tun |-> "none", helper |-> "none", started |-> FALSE, reason |-> "none"]

-----------------------------------------------------------------------------
(* Addresses *)

Loopback == {"127.0.0.1"}
Literal == {"10.0.0.1", "127.0.0.1"}
(* resolve_ips: a name resolves to its addresses, or to nothing. *)
ResolveIps(h) == CASE h \in Literal -> {h}
                   [] h = "a.example" -> {"192.0.2.1", "192.0.2.2"}
                   [] OTHER -> {}

(* collect_xray_servers, collect_singbox_servers: every peer an outbound or an
   endpoint names, and the resolvers given as addresses; never a loopback one. *)
CollectServers(cfg) ==
    {e.host : e \in {x \in cfg : x.host \notin Loopback /\ (x.key # "dns" \/ x.host \in Literal)}}

(* resolve_servers: while no tun is up yet. A native tun excludes them in its config. *)
ResolveServers == UNION {ResolveIps(h) : h \in CollectServers(host.cfg)}

(* read_resolvers of the adapters that are up, the tun's own left out. *)
Resolvers == IF uplink = "none" THEN {} ELSE {"192.168.1.1"}

(* bypass_cidrs: the servers, the system's resolvers unless xray answers DNS itself,
   and what the user keeps off the tun. *)
BypassCidrs(plan) == ResolveServers \cup (IF plan.engine = "xray" THEN {} ELSE Resolvers) \cup {"172.17.0.0/16"}

(* Routing tables as windows/routing.rs reads them: the prefix length, the device
   and the effective metric of each row. *)
Table == {[len |-> 0, dev |-> d, metric |-> IF d = uplink THEN 35 ELSE 60] : d \in {uplink} \ {"none"}}
         \cup {[len |-> 1, dev |-> "tun", metric |-> 2] : r \in net \cap {"split"}}

(* best_route: the default route, by prefix length and not by lookup, of least metric. *)
BestRoute(t) == {r \in t : r.len = 0 /\ \A s \in t : s.len = 0 => r.metric <= s.metric}
UplinkDevice == {r.dev : r \in BestRoute(Table)}

-----------------------------------------------------------------------------
(* The DNS guard *)

Flows == [app : {"core", "browser"}, iface : {"tun", "lan"}, dst : {"tun resolver", "lan resolver"},
          layer : {"v4", "v6"}, dns : BOOLEAN]

(* plan: block DNS except from the core, into the tun and to the tun's resolver. *)
GuardPlan ==
    {[weight |-> 15, action |-> "permit", match |-> "app", layer |-> l] : l \in {"v4", "v6"}}
    \cup {[weight |-> 14, action |-> "permit", match |-> "iface", layer |-> l] : l \in {"v4", "v6"}}
    \cup {[weight |-> 13, action |-> "permit", match |-> "resolver", layer |-> "v4"]}
    \cup {[weight |-> 12, action |-> "block", match |-> "dns", layer |-> l] : l \in {"v4", "v6"}}

(* A filter's conditions: all must hold. *)
Matches(f, flow) == f.layer = flow.layer /\ CASE f.match = "app" -> flow.app = "core"
                                              [] f.match = "iface" -> flow.iface = "tun"
                                              [] f.match = "resolver" -> flow.dns /\ flow.dst = "tun resolver"
                                              [] OTHER -> flow.dns

(* Within the sublayer the matching filter of the highest weight decides. *)
Permitted(filters, flow) ==
    \A f \in filters : Matches(f, flow) /\ f.action = "block" =>
        \E g \in filters : Matches(g, flow) /\ g.action = "permit" /\ g.weight > f.weight

-----------------------------------------------------------------------------
(* Routing *)

EscapeRules == {"escape", "backstop", "lan"}
TunCapture == {"capture", "exclude", "table"}
OfDevice == {"table", "split"}              \* go with the tun device
Without(n) == n \ OfDevice

(* The exit status of most commands is ignored: any of them may do nothing. *)
FailSets(pieces) == {s \in SUBSET (pieces \cap Flaky) : Cardinality(s \cup missed \cup stuck) <= MaxLost}

Remove(pieces) == \E left \in FailSets(net \cap pieces) :
    net' = (net \ pieces) \cup left /\ stuck' = (stuck \ pieces) \cup left
Replace(pieces, new) == \E left \in FailSets(net \cap pieces), lost \in FailSets(new) :
    /\ net' = (net \ pieces) \cup left \cup (new \ lost)
    /\ stuck' = (stuck \ pieces) \cup left /\ missed' = lost

(* clear_external_tun_routing: swept by priority whatever is on file on Linux, exactly
   the recorded rows on Windows, whose record goes also when a row does not. *)
SweptRules == TunCapture \cup EscapeRules
RecordedRows == IF rows = NoFile THEN {} ELSE rows
ExternalRouting == IF Linux THEN SweptRules ELSE RecordedRows

(* clear_singbox_autoroute: nothing on Windows, where the adapter takes it along. *)
Autoroute == IF Linux THEN {"auto"} \cup EscapeRules ELSE {}

(* apply_escape_rules: what it adds, and sweeps first. *)
Escape == IF Linux THEN EscapeRules ELSE {}

DesktopInit == /\ host \in [os : {"linux", "windows"}, gated : BOOLEAN, cfg : Configs]
        /\ uplink = "eth" /\ owner = "up"
        /\ pc = [command |-> "idle", leave |-> "idle"] /\ goal = StopGoal /\ last = "boot"
        /\ doc = Stopped
        /\ exe = [p \in Pids |-> "free"] /\ core = 0 /\ helper = 0 /\ corePid = 0 /\ helperPid = 0
        /\ iface = FALSE /\ dev = FALSE /\ net = {} /\ rows = NoFile /\ dnsGuard = {}
        /\ escaping = FALSE /\ torn = {} /\ missed = {} /\ stuck = {} /\ hit = {}

-----------------------------------------------------------------------------
(* Stopping *)

At(t, s) == owner = "up" /\ pc[t] = s
Goto(t, s) == pc' = [pc EXCEPT ![t] = s]
(* keep_service_state: asked for by a start, and by the rollback of one. *)
Keep(t) == t = "command" /\ goal # StopGoal
Tun == goal.tun

BeginPath(g) == /\ owner = "up" /\ pc.command = "idle" /\ pc.leave = "idle"
            /\ goal' = g
            /\ Goto("command", "stop core")
            /\ UNCHANGED <<host, uplink, owner, last, doc, procs, system, escaping, ledger, hit>>

(* The GUI is gone: the owner stops the data path and exits. watch_gui does so also
   while a command of the GUI is still being executed; on Windows the connection ends
   once its last command has. *)
Leave == /\ owner = "up" /\ pc.leave = "idle" /\ (Linux \/ pc.command = "idle")
         /\ Goto("leave", "stop core")
         /\ UNCHANGED <<host, uplink, owner, goal, last, doc, procs, system, escaping, ledger, hit>>

(* A process ends: the device of the tun it ran goes with it. *)
OwnsDevice(p) == p = (IF doc.tun = "native" THEN core ELSE helper)
Ends(p) == /\ exe' = [exe EXCEPT ![p] = "free"]
           /\ core' = IF core = p THEN 0 ELSE core
           /\ helper' = IF helper = p THEN 0 ELSE helper
           /\ dev' = (dev /\ ~OwnsDevice(p))
NetAfter(p) == IF OwnsDevice(p) THEN Without(net) ELSE net

(* kill_if_running on the core's pid file, whoever has that pid now. A native core
   removes its own routing unless it has to be killed. *)
StopCore(t) ==
    /\ At(t, "stop core")
    /\ Goto(t, "stop routes")
    /\ corePid' = 0
    /\ IF corePid = 0 \/ exe[corePid] = "free" THEN UNCHANGED <<exe, core, helper, dev, net, hit>>
       ELSE /\ Ends(corePid)
            /\ hit' = IF exe[corePid] = "other" THEN hit \cup {"core"} ELSE hit
            /\ \E graceful \in BOOLEAN : net' = NetAfter(corePid) \ (IF core = corePid /\ graceful THEN {"auto"} ELSE {})
    /\ UNCHANGED <<host, uplink, owner, goal, last, doc, helperPid, rows, dnsGuard, iface, escaping, ledger>>

StopRoutes(t) ==
    /\ At(t, "stop routes")
    /\ Goto(t, "stop auto")
    /\ Replace(ExternalRouting, {})
    /\ rows' = NoFile /\ dnsGuard' = {}
    /\ UNCHANGED <<host, uplink, owner, goal, last, doc, procs, iface, escaping, torn, hit>>

StopAuto(t) ==
    /\ At(t, "stop auto")
    /\ Goto(t, "stop helper")
    /\ Remove(Autoroute)
    /\ UNCHANGED <<host, uplink, owner, goal, last, doc, procs, rows, dnsGuard, iface, escaping, torn, missed, hit>>

(* The tun helper is signalled only while its pid belongs to a helper binary; the
   tun's names go either way. *)
StopHelper(t) ==
    /\ At(t, "stop helper")
    /\ Goto(t, "stop doc")
    /\ helperPid' = 0 /\ iface' = FALSE
    /\ IF helperPid # 0 /\ exe[helperPid] \in HelperBins
       THEN Ends(helperPid) /\ net' = NetAfter(helperPid)
       ELSE UNCHANGED <<exe, core, helper, dev, net>>
    /\ UNCHANGED <<host, uplink, owner, goal, last, doc, corePid, rows, dnsGuard, escaping, ledger, hit>>

(* The end of a stop: the document is reset unless kept; a command goes on to its
   plan, which records itself first, and a session without the helper refuses a tun. *)
StopDoc(t) ==
    /\ At(t, "stop doc")
    /\ IF t = "leave"
       THEN /\ owner' = "down" /\ pc' = [pc EXCEPT !.command = "idle", !.leave = "idle"]
            /\ doc' = Stopped
            /\ exe' = [p \in Pids |-> IF p \in {core, helper} THEN "free" ELSE exe[p]]
            /\ core' = 0 /\ helper' = 0 /\ dev' = FALSE
            /\ net' = Without(net) /\ dnsGuard' = {}
            /\ last' = "boot" /\ UNCHANGED goal
       ELSE /\ UNCHANGED <<owner, exe, core, helper, dev, net, dnsGuard>>
            /\ IF goal \in Plans
               THEN /\ last' = last
                    /\ IF host.gated /\ goal.tun # "none"
                       THEN /\ doc' = [doc EXCEPT !.run = "Failed", !.reason = "gated", !.started = FALSE]
                            /\ goal' = FailedGoal /\ Goto(t, "stop doc")
                       ELSE /\ doc' = [Stopped EXCEPT !.run = "Connecting", !.tun = goal.tun, !.helper = goal.helper]
                            /\ Goto(t, "prepare") /\ UNCHANGED goal
               ELSE /\ doc' = IF Keep(t) THEN doc ELSE Stopped
                    /\ last' = "down" /\ Goto(t, "idle") /\ UNCHANGED goal
    /\ UNCHANGED <<host, uplink, corePid, helperPid, rows, iface, escaping, ledger, hit>>

-----------------------------------------------------------------------------
(* Starting *)

(* Err of start_proxy: record it unless a step has, then roll back. *)
FailAt(reason) ==
    /\ doc' = IF doc.run = "Failed" THEN doc ELSE [doc EXCEPT !.run = "Failed", !.reason = reason, !.started = FALSE]
    /\ goal' = FailedGoal
    /\ Goto("command", "stop core")

(* The core's egress: marked on Linux, bound to the uplink, if there is one, on Windows. *)
Escapes(plan) == plan.tun # "none" /\ (Linux \/ UplinkDevice # {})

(* Mutant: nothing lets the dials of the core by. *)
Prepare_LateEscape ==
    /\ At("command", "prepare")
    /\ \/ FailAt("prepare") /\ UNCHANGED <<net, missed, stuck, escaping, iface>>
       \/ /\ Goto("command", "spawn")
          /\ escaping' = (goal.tun # "none")
          /\ iface' = (iface \/ goal.tun = "native")
          /\ IF goal.tun = "native" THEN Replace(Autoroute, {}) ELSE missed' = {} /\ UNCHANGED <<net, stuck>>
          /\ UNCHANGED <<goal, doc>>
    /\ UNCHANGED <<host, uplink, owner, last, procs, rows, dnsGuard, torn, hit>>

(* The checks of start_proxy, any of which may fail, and the config it rewrites. A
   native tun's escape rules precede its core. *)
Prepare ==
    /\ At("command", "prepare")
    /\ \/ FailAt("prepare") /\ UNCHANGED <<net, missed, stuck, escaping, iface>>
       \/ /\ Goto("command", "spawn")
          /\ escaping' = Escapes(goal)
          /\ iface' = (iface \/ goal.tun = "native")
          /\ IF goal.tun = "native" THEN Replace(Autoroute, Escape) ELSE missed' = {} /\ UNCHANGED <<net, stuck>>
          /\ UNCHANGED <<goal, doc>>
    /\ UNCHANGED <<host, uplink, owner, last, procs, rows, dnsGuard, torn, hit>>

(* Pids are given out in turn: not one a file of this start still names. *)
FreePids == {p \in Pids \ {corePid, helperPid} : exe[p] = "free"}

(* spawn_core: a native core brings its tun and its routing up. *)
Spawn ==
    /\ At("command", "spawn")
    /\ \E p \in FreePids :
         /\ exe' = [exe EXCEPT ![p] = goal.engine]
         /\ core' = p /\ corePid' = p
    /\ dev' = (dev \/ goal.tun = "native")
    /\ IF goal.tun = "native" /\ Linux THEN net' = net \cup {"auto"} /\ stuck' = stuck \ {"auto"} ELSE UNCHANGED <<net, stuck>>
    /\ Goto("command", "verify")
    /\ UNCHANGED <<host, uplink, owner, goal, last, doc, helper, helperPid, rows, dnsGuard, iface, escaping, torn, missed, hit>>

(* verify_core_alive *)
Verify ==
    /\ At("command", "verify")
    /\ IF core = 0 THEN FailAt("core exited")
       ELSE Goto("command", IF Tun = "external" THEN "helper" ELSE "commit") /\ UNCHANGED <<goal, doc>>
    /\ UNCHANGED <<host, uplink, owner, last, procs, system, escaping, ledger, hit>>

(* tun_engine::spawn *)
SpawnHelper ==
    /\ At("command", "helper")
    /\ iface' = TRUE
    /\ \/ FailAt("tun engine") /\ UNCHANGED <<exe, helper, helperPid>>
       \/ /\ \E p \in FreePids :
               /\ exe' = [exe EXCEPT ![p] = goal.helper]
               /\ helper' = p /\ helperPid' = p
          /\ Goto("command", "await") /\ UNCHANGED <<goal, doc>>
    /\ UNCHANGED <<host, uplink, owner, last, core, corePid, dev, net, rows, dnsGuard, escaping, ledger, hit>>

(* await_tun_up: Linux goes on without the device, Windows fails. *)
TunComesUp ==
    /\ At("command", "await")
    /\ helper # 0 /\ dev' = TRUE
    /\ Goto("command", "escape")
    /\ UNCHANGED <<host, uplink, owner, goal, last, doc, exe, core, helper, corePid, helperPid, system, escaping, ledger, hit>>

AwaitTimesOut ==
    /\ At("command", "await")
    /\ IF Linux THEN Goto("command", "escape") /\ UNCHANGED <<goal, doc>> ELSE FailAt("no tun")
    /\ UNCHANGED <<host, uplink, owner, last, procs, system, escaping, ledger, hit>>

Bypass == BypassCidrs(goal)

(* apply_external_tun_routing on Linux: the escape rules before the tun takes over, and
   the capture, whose table is empty without the device. *)
RouteAroundLinux ==
    /\ At("command", "escape") /\ Linux
    /\ Replace(SweptRules, EscapeRules)
    /\ Goto("command", "capture")
    /\ UNCHANGED <<host, uplink, owner, goal, last, doc, procs, rows, dnsGuard, iface, escaping, torn, hit>>

CaptureLinux ==
    /\ At("command", "capture") /\ Linux
    /\ \E lost \in FailSets(TunCapture) :
         /\ net' = net \cup (({"capture", "exclude"} \cup (IF dev THEN {"table"} ELSE {})) \ lost)
         /\ missed' = missed \cup lost
    /\ Goto("command", "record")
    /\ UNCHANGED <<host, uplink, owner, goal, last, doc, procs, rows, dnsGuard, iface, escaping, torn, stuck, hit>>

(* add_route: a row that is there already is an error. *)
AddsAll(n, r) == r \cap n = {}

(* ... and on Windows: the bypass rows by the uplink, the ones added before a failure
   taken back, as far as they can be. *)
RouteAroundWindows ==
    /\ At("command", "escape") /\ ~Linux
    /\ \/ /\ FailAt("bypass")
          /\ \E left \in FailSets(IF UplinkDevice # {} /\ dev THEN Bypass \ net ELSE {}) :
               net' = net \cup left /\ stuck' = stuck \cup left
       \/ /\ UplinkDevice # {} /\ dev /\ AddsAll(net, Bypass)
          /\ net' = net \cup Bypass
          /\ Goto("command", "capture") /\ UNCHANGED <<goal, doc, stuck>>
    /\ UNCHANGED <<host, uplink, owner, last, procs, rows, dnsGuard, iface, escaping, torn, missed, hit>>

(* The split default through the tun; all rows are taken back when a half is missing. *)
CaptureWindows ==
    /\ At("command", "capture") /\ ~Linux
    /\ \/ /\ dev
          /\ net' = net \cup {"split"} /\ stuck' = stuck \ {"split"}
          /\ Goto("command", "record") /\ UNCHANGED <<goal, doc>>
       \/ /\ \E left \in FailSets(Bypass \cup (IF dev THEN {"split"} ELSE {})) :
               net' = (net \ Bypass) \cup left /\ stuck' = stuck \cup left
          /\ FailAt("split default")
    /\ UNCHANGED <<host, uplink, owner, last, procs, rows, dnsGuard, iface, escaping, torn, missed, hit>>

(* Mutant: the routes added are not in the route-state file. *)
Record_Empty ==
    /\ At("command", "record")
    /\ rows' = {}
    /\ Goto("command", "guard")
    /\ UNCHANGED <<host, uplink, owner, goal, last, doc, procs, net, dnsGuard, iface, escaping, ledger, hit>>

(* The route state file: what teardown deletes on Windows. A start that cannot write it
   fails, and nothing names the rows it added. *)
Record ==
    /\ At("command", "record")
    /\ \/ /\ rows' = IF Linux THEN {} ELSE Bypass \cup {"split"}
          /\ Goto("command", "guard") /\ UNCHANGED <<goal, doc, torn>>
       \/ /\ torn' = IF Linux THEN torn ELSE torn \cup Bypass
          /\ FailAt("record") /\ UNCHANGED rows
    /\ UNCHANGED <<host, uplink, owner, last, procs, net, dnsGuard, iface, escaping, missed, stuck, hit>>

(* point_dns_at_tun and guard_dns for an xray core; best effort. *)
Guard ==
    /\ At("command", "guard")
    /\ dnsGuard' \in IF ~Linux /\ goal.engine = "xray" /\ dev THEN {GuardPlan, {}} ELSE {dnsGuard}
    /\ Goto("command", "commit")
    /\ UNCHANGED <<host, uplink, owner, goal, last, doc, procs, net, rows, iface, escaping, ledger, hit>>

(* Ok of start_proxy: the document stays Connecting for the service's probe to refine. *)
Commit ==
    /\ At("command", "commit")
    /\ doc' = [doc EXCEPT !.started = TRUE]
    /\ last' = "up" /\ Goto("command", "idle")
    /\ UNCHANGED <<host, uplink, owner, goal, procs, system, escaping, ledger, hit>>

-----------------------------------------------------------------------------
(* The world *)

(* The owner dies: its children with it, the filters with its session, the rest of
   the system's routing stays. *)
DaemonDies ==
    /\ owner = "up" /\ (pc.command # "idle" \/ last = "up")
    /\ owner' = "down" /\ pc' = [pc EXCEPT !.command = "idle", !.leave = "idle"] /\ last' = "boot"
    /\ exe' = [p \in Pids |-> IF p \in {core, helper} THEN "free" ELSE exe[p]]
    /\ core' = 0 /\ helper' = 0 /\ dev' = FALSE
    /\ net' = Without(net) /\ dnsGuard' = {}
    /\ torn' = torn \cup (IF Linux \/ rows # NoFile THEN {} ELSE Without(net))
    /\ UNCHANGED <<host, uplink, goal, doc, corePid, helperPid, rows, iface, escaping, missed, stuck, hit>>

(* boot_init of the next owner: a stopped document, whatever the files say. *)
Boot == /\ owner = "down"
        /\ owner' = "up" /\ doc' = Stopped
        /\ UNCHANGED <<host, uplink, tasks, procs, system, escaping, ledger, hit>>

(* A child dies by itself; a native core leaves its rules behind. *)
ChildDies ==
    /\ owner = "up"
    /\ \E p \in {core, helper} \ {0} : Ends(p) /\ net' = NetAfter(p)
    /\ UNCHANGED <<host, uplink, owner, tasks, doc, corePid, helperPid, rows, dnsGuard, iface, escaping, ledger, hit>>

(* Another program gets a pid that was in use, and gives it back. *)
Recycle == \E p \in Pids :
    /\ exe[p] \in {"free", "other"}
    /\ exe' = [exe EXCEPT ![p] = IF @ = "free" THEN "other" ELSE "free"]
    /\ exe[p] = "free" => p \in {corePid, helperPid}
    /\ UNCHANGED <<host, uplink, owner, tasks, doc, core, helper, corePid, helperPid, dev, system, escaping, ledger, hit>>

UplinkChanges == /\ pc.command \in {"idle", "await"} /\ pc.leave = "idle" /\ ~Linux
                 /\ uplink' = IF uplink = "none" THEN "eth" ELSE "none"
                 /\ UNCHANGED <<host, owner, tasks, doc, procs, system, escaping, ledger, hit>>

StartSteps == Prepare \/ Spawn \/ Verify \/ SpawnHelper \/ TunComesUp \/ AwaitTimesOut \/ RouteAroundLinux \/ CaptureLinux
              \/ RouteAroundWindows \/ CaptureWindows \/ Record \/ Guard \/ Commit
StopSteps(t) == StopCore(t) \/ StopRoutes(t) \/ StopAuto(t) \/ StopHelper(t) \/ StopDoc(t)
World == DaemonDies \/ ChildDies \/ Recycle \/ UplinkChanges
DesktopNext == \/ \E g \in Plans \cup {StopGoal} : BeginPath(g)
        \/ Leave \/ Boot \/ StartSteps \/ World
        \/ \E t \in {"command", "leave"} : StopSteps(t)

DesktopSpec == DesktopInit /\ [][DesktopNext]_desktopVars

(* data_path_healthy, as the watchdog asks it of the files. *)
Healthy == /\ corePid # 0 /\ exe[corePid] \in CoreBins
           /\ doc.helper # "none" => helperPid # 0 /\ exe[helperPid] = doc.helper

-----------------------------------------------------------------------------
(* Properties *)

PathTypeOK ==
    /\ owner \in {"up", "down"} /\ pc \in [{"command", "leave"} -> Steps]
    /\ goal \in Plans \cup {StopGoal, FailedGoal} /\ last \in {"boot", "up", "down"}
    /\ doc.run \in {"Stopped", "Connecting", "Failed"}
    /\ exe \in [Pids -> Procs]
    /\ {core, helper, corePid, helperPid} \subseteq Pids \cup {0}
    /\ core # 0 => exe[core] \in CoreBins
    /\ helper # 0 => exe[helper] \in HelperBins

Quiet == owner = "up" /\ pc.command = "idle" /\ pc.leave = "idle"

(* After a stop, or a start that failed at any step, through crashes of the owner and
   its children, nothing of a data path is left in the system and no process of it runs.
   Excepted by name: what a command of the stop itself failed to take, and the Windows
   routes of a start that crashed before it had recorded them or could not write that
   record. *)
StopLeavesNothing == Quiet /\ last = "down" => /\ net \subseteq torn \cup stuck /\ dnsGuard = {} /\ rows = NoFile
                                               /\ core = 0 /\ helper = 0 /\ ~dev

(* A path reported healthy is a path: its processes are the owner's own, and the system's
   routing is what its plan wants. Short of it is only what a command of this very start
   failed to add, which on Windows is nothing, and of an earlier one there is only what a
   command failed to take or, on Windows, no record names. *)
Wanted == CASE doc.tun = "native" -> IF Linux THEN EscapeRules \cup {"auto"} ELSE {}
            [] doc.tun = "external" -> IF Linux THEN EscapeRules \cup {"capture", "exclude"} \cup (IF dev THEN {"table"} ELSE {})
                                       ELSE rows
            [] OTHER -> {}
HealthyIsWhole == Quiet /\ last = "up" /\ Healthy =>
    /\ core = corePid /\ (doc.helper # "none" => helper = helperPid)
    /\ Wanted \ missed \subseteq net /\ net \subseteq Wanted \cup torn \cup stuck
    /\ ~Linux => missed = {}

(* The core's own dials never enter the tun it serves: wherever a tun captures, the
   rules that let its marked dials by are there already, also while the path comes up
   or goes down, unless the command that adds one failed; on Windows its servers'
   addresses are routed past the tun. A capture that could not be taken away is not
   this core's. *)
Captures == {"capture", "table"} \subseteq net \/ "auto" \in net \ stuck \/ "split" \in net \ stuck
NoLoop == owner = "up" /\ pc.leave = "idle" /\ core # 0 /\ Captures =>
    IF Linux THEN escaping /\ EscapeRules \subseteq net \cup missed
    ELSE \A e \in host.cfg : e.host \notin Loopback /\ e.key # "dns" => ResolveIps(e.host) \subseteq net

(* A stale pid file of the tun helper never costs a stranger its life. *)
SparesStrangers == "helper" \notin hit

(* The same of the core's, which stop_data_path signals without looking. *)
NoStrangerSignalled == hit = {}

(* With the guard installed DNS leaves by the tun, to its resolver or from the core
   only, nothing else is blocked, and without an owner nothing is. *)
DnsStaysInTun == \A f \in Flows :
    Permitted(dnsGuard, f) <=> (dnsGuard = {} \/ ~f.dns \/ f.app = "core" \/ f.iface = "tun"
                             \/ (f.dst = "tun resolver" /\ f.layer = "v4"))

(* The uplink the core is bound to and the rows go by is never the tun. *)
UplinkIsPhysical == UplinkDevice \subseteq {"eth"}

(* A failed start says why until the next command. *)
FailureIsReported == Quiet /\ last = "down" /\ goal = FailedGoal => doc.run = "Failed" /\ doc.reason # "none"

(* A stop, or a start that failed, is over when it returns: nothing of it is left, nobody
   else was hit, and the reason is on record. *)
StopIsClean == StopLeavesNothing /\ SparesStrangers /\ FailureIsReported

(* A path that passes for healthy carries the traffic, and its own dials, its DNS and its
   uplink are where they have to be. *)
PathIsSound == PathTypeOK /\ HealthyIsWhole /\ NoLoop /\ DnsStaysInTun /\ UplinkIsPhysical
=============================================================================
