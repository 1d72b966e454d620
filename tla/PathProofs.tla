---------------------------- MODULE PathProofs ----------------------------
(* Proofs about what a path leaves on the machine: the data path on a desktop
   (DesktopPath) and on Android (AndroidPath), what a stop leaves and what passes
   for healthy, and the proxy of the user's session (OsProxy). Each part gives an
   invariant that says what there is at each step of a command, one lemma per
   action, and the theorems that follow from it.                                *)
EXTENDS DesktopPath, AndroidPath, OsProxy, TLAPS

-----------------------------------------------------------------------------
(* What holds of the data path of a desktop at each step of a command *)

StopPcs == {"stop core", "stop routes", "stop auto", "stop helper", "stop doc"}
LinuxNet == EscapeRules \cup TunCapture \cup {"auto"}
WindowsNet == {"10.0.0.1", "127.0.0.1", "192.0.2.1", "192.0.2.2", "192.168.1.1", "172.17.0.0/16"}
DeskDocs == [run : {"Stopped", "Connecting", "Failed"}, tun : {"none", "native", "external"}, helper : HelperBins \cup {"none"},
         started : BOOLEAN, reason : {"none", "gated", "prepare", "core exited", "tun engine", "no tun", "bypass", "split default", "record"}]

TaskTypes ==
    /\ host \in [os : {"linux", "windows"}, gated : BOOLEAN, cfg : Configs] /\ uplink \in {"eth", "none"}
    /\ owner \in {"up", "down"} /\ pc \in [{"command", "leave"} -> Steps] /\ pc.leave \in {"idle"} \cup StopPcs
    /\ goal \in Plans \cup {StopGoal, FailedGoal} /\ last \in {"boot", "up", "down"} /\ doc \in DeskDocs
ProcTypes ==
    /\ exe \in [Pids -> Procs] /\ core \in Pids \cup {0} /\ helper \in Pids \cup {0}
    /\ corePid \in Pids \cup {0} /\ helperPid \in Pids \cup {0} /\ dev \in BOOLEAN
NetTypes ==
    /\ Linux => net \subseteq LinuxNet /\ torn = {}
    /\ ~Linux => net \subseteq WindowsNet \cup {"split"} /\ torn \subseteq WindowsNet /\ missed = {}
    /\ rows = NoFile \/ rows \subseteq WindowsNet \cup {"split"}
    /\ (dnsGuard = {} \/ dnsGuard = GuardPlan) /\ "helper" \notin hit

(* Every process of the data path is a child of the owner and in its pid file; a pid file that
   outlived its process names no other one of ours. *)
Children ==
    /\ core # 0 => core = corePid /\ exe[core] \in CoreBins
    /\ helper # 0 => helper = helperPid /\ exe[helper] \in HelperBins
    /\ corePid = helperPid => corePid = 0
    /\ \A p \in Pids : exe[p] \in Bins => p \in {core, helper}
    /\ dev => IF doc.tun = "native" THEN core # 0 ELSE helper # 0
    /\ owner = "down" => core = 0 /\ helper = 0 /\ pc.command = "idle" /\ pc.leave = "idle" /\ last = "boot"

(* A step before a process was started, or after it was stopped. *)
DeskDown == pc.command = "idle" /\ last = "down"
NoCoreYet == pc.command \in {"stop routes", "stop auto", "stop helper", "stop doc", "prepare", "spawn"} \/ DeskDown
NoHelperYet == pc.command \in {"stop doc", "prepare", "spawn", "verify", "helper"} \/ DeskDown
Absent == (NoCoreYet => core = 0) /\ (NoHelperYet => helper = 0)

(* The document is the plan's from its record on, and tells of a failure. *)
DeskPlaced == pc.command \in {"prepare", "spawn", "verify", "helper", "await", "escape", "capture", "record", "guard", "commit"}
              \/ (pc.command = "idle" /\ last = "up")
Recorded ==
    /\ DeskPlaced => goal \in Plans /\ doc.run = "Connecting" /\ doc.tun = goal.tun /\ doc.helper = goal.helper
    /\ pc.command \in {"helper", "await", "escape", "capture", "record", "guard"} => goal.tun = "external"
    /\ doc.run = "Failed" => doc.reason # "none"
    /\ owner = "up" /\ goal = FailedGoal /\ (pc.command # "idle" \/ last = "down") => doc.run = "Failed"

DeskRunning == pc.command = "commit" \/ (pc.command = "idle" /\ last = "up")

(* What a device takes along is there only with it, and not before this start's capture. *)
DeviceRoutes ==
    /\ dev \/ net \cap OfDevice = {}
    /\ pc.command \in {"spawn", "verify", "helper", "await", "escape", "capture"} \/ (DeskRunning /\ goal.tun # "external")
          => net \cap OfDevice = {}

(* The rules of Linux, while no leave is under way: no more than the step calls for but what a
   command failed to take, no less but what one failed to add. *)
Capturing == EscapeRules \cup {"capture", "exclude"} \cup (IF dev THEN {"table"} ELSE {})
LinuxRules ==
    Linux =>
        /\ dnsGuard = {}
        /\ pc.leave = "idle" =>
            /\ pc.command = "stop auto" => net \subseteq {"auto"} \cup stuck
            /\ pc.command \in {"stop helper", "stop doc", "prepare"} \/ DeskDown => net \subseteq stuck /\ rows = NoFile
            /\ pc.command = "stop auto" => rows = NoFile
            /\ DeskPlaced /\ pc.command # "prepare" /\ goal.tun # "none" => escaping
            /\ pc.command = "spawn" /\ goal.tun = "native" => net \subseteq EscapeRules \cup stuck /\ EscapeRules \subseteq net \cup missed
            /\ (pc.command = "verify" \/ DeskRunning) /\ goal.tun = "native" =>
                  /\ EscapeRules \subseteq net \cup missed /\ net \subseteq EscapeRules \cup {"auto"} \cup stuck
                  /\ core # 0 => "auto" \in net
            /\ (pc.command \in {"spawn", "verify"} /\ goal.tun = "external") \/ pc.command \in {"helper", "await", "escape"}
                  => net \subseteq stuck
            /\ (pc.command \in {"spawn", "verify"} \/ DeskRunning) /\ goal.tun = "none" => net \subseteq stuck
            /\ pc.command = "capture" => net \subseteq EscapeRules \cup stuck /\ EscapeRules \subseteq net \cup missed
            /\ pc.command \in {"record", "guard"} \/ (DeskRunning /\ goal.tun = "external") =>
                  net \subseteq Capturing \cup stuck /\ Capturing \subseteq net \cup missed

(* The routes of Windows, where a leave waits for its command: what is not on record is what no
   record names or what could not be deleted. *)
WindowsRoutes ==
    ~Linux =>
        /\ pc.leave # "idle" => pc.command = "idle"
        /\ rows # NoFile => net \subseteq torn \cup stuck \cup rows
        /\ rows = NoFile /\ pc.command \notin {"capture", "record"} => net \subseteq torn \cup stuck \cup {"split"}
        /\ pc.command \in {"stop auto", "stop helper", "stop doc", "prepare", "spawn", "verify", "helper", "await",
                           "escape", "capture", "record"} \/ DeskDown => rows = NoFile
        /\ pc.command \in {"stop auto", "stop helper", "stop doc"} \/ DeskDown => dnsGuard = {}
        /\ pc.command = "capture" => net \subseteq torn \cup stuck \cup Bypass
        /\ pc.command = "record" => net \subseteq torn \cup stuck \cup Bypass \cup {"split"}
        /\ pc.command \in {"capture", "record"} => Bypass \subseteq net
        /\ pc.leave = "idle" =>
            /\ pc.command \in {"escape", "capture", "record", "guard"} \/ (DeskRunning /\ goal.tun = "external") => (helper # 0 => dev)
            /\ pc.command = "record" => (dev => "split" \in net)
            /\ pc.command = "guard" \/ (DeskRunning /\ goal.tun = "external") =>
                  /\ rows # NoFile /\ rows \ {"split"} \subseteq net /\ (dev => "split" \in net)
                  /\ ResolveServers \subseteq net
            /\ DeskRunning /\ goal.tun # "external" => rows = NoFile

DesktopInv == TaskTypes /\ ProcTypes /\ NetTypes /\ Children /\ Absent /\ Recorded /\ LinuxRules /\ WindowsRoutes
              /\ DeviceRoutes /\ NoLoop

-----------------------------------------------------------------------------
Reasons == {"prepare", "core exited", "tun engine", "no tun", "bypass", "split default", "record"}

LEMMA GoalsApart ==
  /\ StopGoal \notin Plans /\ FailedGoal \notin Plans /\ StopGoal # FailedGoal
  /\ StopGoal.tun = "none" /\ FailedGoal.tun = "none"
  /\ \A p \in Plans : /\ p.engine \in CoreBins /\ p.tun \in {"none", "native", "external"}
                      /\ p.tun = "native" => p.engine = "sing-box"
                      /\ p.tun = "external" => p.helper \in HelperBins
                      /\ p.tun # "external" => p.helper = "none"
  <1>1. StopGoal.engine = "stop" /\ FailedGoal.engine = "failed" /\ StopGoal.tun = "none" /\ FailedGoal.tun = "none"
    BY DEF StopGoal, FailedGoal
  <1>2. \A p \in Plans : p.engine \in CoreBins
    BY DesktopConstants
  <1>3. "stop" \notin CoreBins /\ "failed" \notin CoreBins
    BY DEF CoreBins
  <1> QED
    BY <1>1, <1>2, <1>3, DesktopConstants

LEMMA PidFacts == 0 \notin Pids
  BY DesktopConstants

(* A step of one of the owner's tasks leaves the other where it is.         *)
LEMMA CommandGoes ==
  ASSUME DesktopInv, NEW s \in Steps, Goto("command", s)
  PROVE  pc' \in [{"command", "leave"} -> Steps] /\ pc'.command = s /\ pc'.leave = pc.leave
  BY DEF DesktopInv, TaskTypes, Goto
LEMMA LeaveGoes ==
  ASSUME DesktopInv, NEW s \in StopPcs, Goto("leave", s)
  PROVE  pc' \in [{"command", "leave"} -> Steps] /\ pc'.leave = s /\ pc'.command = pc.command
  BY DEF DesktopInv, TaskTypes, Goto, StopPcs, Steps

(* A start that fails says why and goes over into a stop.                   *)
LEMMA StartFails ==
  ASSUME DesktopInv, NEW r \in Reasons, FailAt(r)
  PROVE  /\ goal' = FailedGoal /\ pc' \in [{"command", "leave"} -> Steps] /\ pc'.command = "stop core" /\ pc'.leave = pc.leave
         /\ doc' \in DeskDocs /\ doc'.run = "Failed" /\ doc'.tun = doc.tun /\ doc'.reason # "none"
  <1>1. doc \in DeskDocs
    BY DEF DesktopInv, TaskTypes
  <1>2. doc.run = "Failed" => doc.reason # "none"
    BY DEF DesktopInv, Recorded
  <1>3. doc' = IF doc.run = "Failed" THEN doc ELSE [doc EXCEPT !.run = "Failed", !.reason = r, !.started = FALSE]
    BY DEF FailAt
  <1>4. doc' \in DeskDocs /\ doc'.run = "Failed" /\ doc'.tun = doc.tun /\ doc'.reason # "none"
    BY <1>1, <1>2, <1>3 DEF DeskDocs, Reasons
  <1>5. "stop core" \in Steps /\ Goto("command", "stop core")
    BY DEF FailAt, Steps
  <1> QED
    BY <1>4, <1>5, CommandGoes DEF FailAt

(* What a stop or a record writes to the document.                          *)
LEMMA DocWrites ==
  ASSUME DesktopInv
  PROVE  /\ Stopped \in DeskDocs /\ Stopped.run = "Stopped" /\ Stopped.tun = "none"
         /\ goal \in Plans => LET d == [Stopped EXCEPT !.run = "Connecting", !.tun = goal.tun, !.helper = goal.helper] IN
               d \in DeskDocs /\ d.run = "Connecting" /\ d.tun = goal.tun /\ d.helper = goal.helper
         /\ LET d == [doc EXCEPT !.run = "Failed", !.reason = "gated", !.started = FALSE] IN
               d \in DeskDocs /\ d.run = "Failed" /\ d.reason # "none"
         /\ LET d == [doc EXCEPT !.started = TRUE] IN
               d \in DeskDocs /\ d.run = doc.run /\ d.tun = doc.tun /\ d.helper = doc.helper /\ d.reason = doc.reason
  <1>1. doc \in DeskDocs
    BY DEF DesktopInv, TaskTypes
  <1>2. Stopped \in DeskDocs /\ Stopped.run = "Stopped" /\ Stopped.tun = "none"
    BY DEF Stopped, DeskDocs
  <1>3. ASSUME goal \in Plans
        PROVE  LET d == [Stopped EXCEPT !.run = "Connecting", !.tun = goal.tun, !.helper = goal.helper] IN
               d \in DeskDocs /\ d.run = "Connecting" /\ d.tun = goal.tun /\ d.helper = goal.helper
    BY <1>3, GoalsApart DEF Stopped, DeskDocs
  <1>4. LET d == [doc EXCEPT !.run = "Failed", !.reason = "gated", !.started = FALSE] IN
               d \in DeskDocs /\ d.run = "Failed" /\ d.reason # "none"
    BY <1>1 DEF DeskDocs
  <1>5. LET d == [doc EXCEPT !.started = TRUE] IN
               d \in DeskDocs /\ d.run = doc.run /\ d.tun = doc.tun /\ d.helper = doc.helper /\ d.reason = doc.reason
    BY <1>1 DEF DeskDocs
  <1> QED
    BY <1>2, <1>3, <1>4, <1>5

(* The addresses kept off the tun, and the device of the default route.      *)
LEMMA Addresses ==
  ASSUME uplink \in {"eth", "none"}
  PROVE  /\ Bypass \subseteq WindowsNet /\ ResolveServers \subseteq Bypass
         /\ \A e \in host.cfg : e.host \notin Loopback /\ e.key # "dns" => ResolveIps(e.host) \subseteq ResolveServers
         /\ UplinkDevice \subseteq {"eth"}
  <1>1. \A h : ResolveIps(h) \subseteq WindowsNet
    BY DEF ResolveIps, Literal, WindowsNet
  <1>2. ResolveServers \subseteq WindowsNet
    BY <1>1 DEF ResolveServers
  <1>3. Bypass \subseteq WindowsNet /\ ResolveServers \subseteq Bypass
    BY <1>2 DEF Bypass, BypassCidrs, Resolvers, WindowsNet
  <1>4. \A e \in host.cfg : e.host \notin Loopback /\ e.key # "dns" => ResolveIps(e.host) \subseteq ResolveServers
    BY DEF ResolveServers, CollectServers
  <1>5. \A r \in BestRoute(Table) : r.dev = "eth"
    BY DEF BestRoute, Table
  <1>6. UplinkDevice \subseteq {"eth"}
    BY <1>5 DEF UplinkDevice
  <1> QED
    BY <1>3, <1>4, <1>6

LEMMA SameHost ==
  ASSUME UNCHANGED host
  PROVE  /\ Linux' = Linux /\ ResolveServers' = ResolveServers
         /\ UNCHANGED <<goal, uplink>> => Bypass' = Bypass
  BY DEF Linux, ResolveServers, CollectServers, Bypass, BypassCidrs, Resolvers

(* Commands that may do nothing: what they take and add is what they were to, but what the
   ledger names.                                                            *)
LEMMA Failing == \A pieces : \A s \in FailSets(pieces) : s \subseteq pieces
  BY DEF FailSets

LEMMA RemoveFacts ==
  ASSUME NEW pieces, Remove(pieces)
  PROVE  /\ net' \subseteq net /\ net' \subseteq (net \ pieces) \cup stuck'
         /\ net \ pieces \subseteq net' /\ stuck \ pieces \subseteq stuck'
  BY Failing DEF Remove

LEMMA ReplaceFacts ==
  ASSUME NEW pieces, NEW new, Replace(pieces, new)
  PROVE  /\ net' \subseteq net \cup new /\ net' \subseteq (net \ pieces) \cup stuck' \cup new
         /\ net \ pieces \subseteq net' /\ stuck \ pieces \subseteq stuck'
         /\ new \subseteq net' \cup missed' /\ missed' \subseteq new
  BY Failing DEF Replace

(* A step that keeps to the routing of its system keeps NetTypes.           *)
LEMMA NetStays ==
  ASSUME NetTypes, UNCHANGED host,
         Linux => net' \subseteq LinuxNet /\ torn' = {},
         ~Linux => net' \subseteq WindowsNet \cup {"split"} /\ torn' \subseteq WindowsNet /\ missed' = {},
         UNCHANGED rows \/ rows' \subseteq WindowsNet \cup {"split"} \/ rows' = NoFile,
         UNCHANGED dnsGuard \/ dnsGuard' = {} \/ dnsGuard' = GuardPlan,
         hit' \subseteq hit \cup {"core"}
  PROVE  NetTypes'
  <1>1. Linux' = Linux
    BY SameHost
  <1>2. rows' = NoFile \/ rows' \subseteq WindowsNet \cup {"split"}
    BY DEF NetTypes
  <1>3. dnsGuard' = {} \/ dnsGuard' = GuardPlan
    BY DEF NetTypes
  <1>4. "helper" \notin hit'
    BY DEF NetTypes
  <1> QED
    BY <1>1, <1>2, <1>3, <1>4 DEF NetTypes

(* The guard lets by what its filters are for, and blocks other DNS.         *)
LEMMA GuardDecides ==
  ASSUME dnsGuard = {} \/ dnsGuard = GuardPlan
  PROVE  DnsStaysInTun
  <1> SUFFICES ASSUME NEW f \in Flows
               PROVE  Permitted(dnsGuard, f) <=> (dnsGuard = {} \/ ~f.dns \/ f.app = "core" \/ f.iface = "tun"
                             \/ (f.dst = "tun resolver" /\ f.layer = "v4"))
    BY DEF DnsStaysInTun
  <1>1. CASE dnsGuard = {}
    BY <1>1 DEF Permitted
  <1>2. CASE dnsGuard = GuardPlan
    <2> DEFINE Rule(w, p, m, l) == [weight |-> w, action |-> p, match |-> m, layer |-> l]
    <2>1. /\ f.app \in {"core", "browser"} /\ f.iface \in {"tun", "lan"} /\ f.dst \in {"tun resolver", "lan resolver"}
          /\ f.layer \in {"v4", "v6"} /\ f.dns \in BOOLEAN
      BY DEF Flows
    <2>0. \A g \in GuardPlan : \/ g.match = "app" /\ g.action = "permit"
                               \/ g.match = "iface" /\ g.action = "permit"
                               \/ g.match = "resolver" /\ g.action = "permit" /\ g.layer = "v4"
                               \/ g.match = "dns" /\ g.action = "block" /\ g.weight = 12
      <3>1. \A g \in {Rule(15, "permit", "app", l) : l \in {"v4", "v6"}} : g.match = "app" /\ g.action = "permit"
        OBVIOUS
      <3>2. \A g \in {Rule(14, "permit", "iface", l) : l \in {"v4", "v6"}} : g.match = "iface" /\ g.action = "permit"
        OBVIOUS
      <3>3. \A g \in {Rule(13, "permit", "resolver", "v4")} : g.match = "resolver" /\ g.action = "permit" /\ g.layer = "v4"
        OBVIOUS
      <3>4. \A g \in {Rule(12, "block", "dns", l) : l \in {"v4", "v6"}} : g.match = "dns" /\ g.action = "block" /\ g.weight = 12
        OBVIOUS
      <3>5. GuardPlan = {Rule(15, "permit", "app", l) : l \in {"v4", "v6"}} \cup {Rule(14, "permit", "iface", l) : l \in {"v4", "v6"}}
                        \cup {Rule(13, "permit", "resolver", "v4")} \cup {Rule(12, "block", "dns", l) : l \in {"v4", "v6"}}
        BY DEF GuardPlan
      <3> HIDE DEF Rule
      <3> QED
        BY <3>1, <3>2, <3>3, <3>4, <3>5
    <2>m. \A g \in GuardPlan : /\ g.match = "app" => (Matches(g, f) <=> g.layer = f.layer /\ f.app = "core")
                               /\ g.match = "iface" => (Matches(g, f) <=> g.layer = f.layer /\ f.iface = "tun")
                               /\ g.match = "resolver" => (Matches(g, f) <=> g.layer = f.layer /\ f.dns /\ f.dst = "tun resolver")
                               /\ g.match = "dns" => (Matches(g, f) <=> g.layer = f.layer /\ f.dns)
      BY DEF Matches
    <2>2. \A g \in GuardPlan : Matches(g, f) /\ g.action = "block" => f.dns /\ g.weight = 12
      <3> TAKE g \in GuardPlan
      <3>1. CASE g.match = "dns" /\ g.action = "block" /\ g.weight = 12
        BY <3>1, <2>m
      <3>2. CASE g.action = "permit"
        BY <3>2
      <3> QED
        BY <2>0, <3>1, <3>2
    <2>3. f.dns => Rule(12, "block", "dns", f.layer) \in GuardPlan /\ Matches(Rule(12, "block", "dns", f.layer), f)
      BY <2>1 DEF GuardPlan, Matches
    <2>4. f.app = "core" => \E g \in GuardPlan : Matches(g, f) /\ g.action = "permit" /\ g.weight > 12
      <3>1. Rule(15, "permit", "app", f.layer) \in GuardPlan
        BY <2>1 DEF GuardPlan
      <3>2. f.app = "core" => Matches(Rule(15, "permit", "app", f.layer), f)
        BY DEF Matches
      <3> QED
        BY <3>1, <3>2
    <2>5. f.iface = "tun" => \E g \in GuardPlan : Matches(g, f) /\ g.action = "permit" /\ g.weight > 12
      <3>1. Rule(14, "permit", "iface", f.layer) \in GuardPlan
        BY <2>1 DEF GuardPlan
      <3>2. f.iface = "tun" => Matches(Rule(14, "permit", "iface", f.layer), f)
        BY DEF Matches
      <3> QED
        BY <3>1, <3>2
    <2>6. f.dns /\ f.dst = "tun resolver" /\ f.layer = "v4" => \E g \in GuardPlan : Matches(g, f) /\ g.action = "permit" /\ g.weight > 12
      <3>1. Rule(13, "permit", "resolver", "v4") \in GuardPlan
        BY DEF GuardPlan
      <3>2. f.dns /\ f.dst = "tun resolver" /\ f.layer = "v4" => Matches(Rule(13, "permit", "resolver", "v4"), f)
        BY DEF Matches
      <3>3. Rule(13, "permit", "resolver", "v4").action = "permit" /\ Rule(13, "permit", "resolver", "v4").weight > 12
        OBVIOUS
      <3> HIDE DEF Rule
      <3> QED
        BY <3>1, <3>2, <3>3
    <2>7. \A g \in GuardPlan : Matches(g, f) /\ g.action = "permit" => f.app = "core" \/ f.iface = "tun" \/ (f.dst = "tun resolver" /\ f.layer = "v4")
      BY <2>0, <2>m
    <2>8. GuardPlan # {}
      BY DEF GuardPlan
    <2> QED
      BY <1>2, <2>2, <2>3, <2>4, <2>5, <2>6, <2>7, <2>8 DEF Permitted
  <1> QED
    BY <1>1, <1>2

LEMMA DesktopInitInv == DesktopInit => DesktopInv
  <1> SUFFICES ASSUME DesktopInit PROVE DesktopInv
    OBVIOUS
  <1> USE DEF DesktopInit
  <1>1. TaskTypes
    <2>1. pc \in [{"command", "leave"} -> Steps] /\ pc.leave = "idle"
      <3>1. "idle" \in Steps
        BY DEF Steps
      <3> QED
        BY <3>1
    <2>2. doc \in DeskDocs
      BY DEF Stopped, DeskDocs
    <2> QED
      BY <2>1, <2>2 DEF TaskTypes, StopPcs
  <1>5. ProcTypes /\ NetTypes
    BY DEF ProcTypes, NetTypes, Procs
  <1>2. Children /\ Absent
    BY PidFacts DEF Children, Absent, NoCoreYet, NoHelperYet, DeskDown, Bins
  <1>3. Recorded
    BY GoalsApart DEF Recorded, DeskPlaced, Stopped
  <1>4. LinuxRules /\ WindowsRoutes /\ DeviceRoutes /\ NoLoop
    BY DEF LinuxRules, WindowsRoutes, DeviceRoutes, NoLoop, DeskRunning, DeskDown, DeskPlaced, NoFile
  <1> QED
    BY <1>1, <1>2, <1>3, <1>4, <1>5 DEF DesktopInv

LEMMA BeginPathInv ==
  ASSUME DesktopInv, NEW g \in Plans \cup {StopGoal}, BeginPath(g)
  PROVE  DesktopInv'
  <1>0. /\ TaskTypes /\ ProcTypes /\ NetTypes /\ Children /\ Absent /\ Recorded
        /\ LinuxRules /\ WindowsRoutes /\ DeviceRoutes /\ NoLoop
    BY DEF DesktopInv
  <1> USE <1>0, GoalsApart, PidFacts, CommandGoes DEF BeginPath, tasks, procs, system, ledger, Steps,
      StopPcs, Reasons
  <1>1. TaskTypes'
    BY DEF TaskTypes
  <1>2. ProcTypes'
    BY DEF ProcTypes
  <1>3. NetTypes'
    BY DEF NetTypes, Linux
  <1>4. Children'
    BY DEF Children
  <1>5. Absent'
    BY DEF Absent, NoCoreYet, NoHelperYet, DeskDown
  <1>6. Recorded'
    BY DEF Recorded, DeskPlaced
  <1>7. LinuxRules'
    BY DEF LinuxRules, DeskDown, DeskPlaced, DeskRunning, Linux
  <1>8. WindowsRoutes'
    BY DEF WindowsRoutes, DeskDown, DeskRunning, Linux
  <1>9. NoLoop'
    BY DEF NoLoop, Captures, Linux
  <1>10. DeviceRoutes'
    BY DEF DeviceRoutes, DeskRunning, OfDevice
  <1> QED
    BY <1>1, <1>2, <1>3, <1>4, <1>5, <1>6, <1>7, <1>8, <1>9, <1>10 DEF DesktopInv

LEMMA LeaveInv ==
  ASSUME DesktopInv, Leave
  PROVE  DesktopInv'
  <1>0. /\ TaskTypes /\ ProcTypes /\ NetTypes /\ Children /\ Absent /\ Recorded
        /\ LinuxRules /\ WindowsRoutes /\ DeviceRoutes /\ NoLoop
    BY DEF DesktopInv
  <1> USE <1>0, GoalsApart, PidFacts, LeaveGoes DEF Leave, tasks, procs, system, ledger, Steps, StopPcs, Reasons
  <1>1. TaskTypes'
    BY DEF TaskTypes
  <1>2. ProcTypes'
    BY DEF ProcTypes
  <1>3. NetTypes'
    BY DEF NetTypes, Linux
  <1>4. Children'
    BY DEF Children
  <1>5. Absent'
    BY DEF Absent, NoCoreYet, NoHelperYet, DeskDown
  <1>6. Recorded'
    BY DEF Recorded, DeskPlaced
  <1>7. LinuxRules'
    BY DEF LinuxRules, DeskDown, DeskPlaced, DeskRunning, Linux
  <1>8. WindowsRoutes'
    BY DEF WindowsRoutes, DeskDown, DeskRunning, Linux
  <1>9. NoLoop'
    BY DEF NoLoop
  <1>10. DeviceRoutes'
    BY DEF DeviceRoutes, DeskRunning, OfDevice
  <1> QED
    BY <1>1, <1>2, <1>3, <1>4, <1>5, <1>6, <1>7, <1>8, <1>9, <1>10 DEF DesktopInv

LEMMA StopCoreByCommand ==
  ASSUME DesktopInv, StopCore("command")
  PROVE  DesktopInv'
  <1>0. /\ TaskTypes /\ ProcTypes /\ NetTypes /\ Children /\ Absent /\ Recorded
        /\ LinuxRules /\ WindowsRoutes /\ DeviceRoutes /\ NoLoop
    BY DEF DesktopInv
  <1> USE <1>0, GoalsApart, PidFacts, CommandGoes DEF StopCore, At, Ends, NetAfter, OwnsDevice,
      Without, OfDevice, tasks, procs, system, ledger, Steps, StopPcs, Reasons
  <1>a. core' = 0 /\ corePid' = 0 /\ helper' = helper
    BY DEF Children, CoreBins
  <1>b. exe' \in [Pids -> Procs] /\ \A p \in Pids : exe'[p] \in Bins => exe'[p] = exe[p] /\ p # corePid
    BY DEF ProcTypes, Procs, Bins
  <1>c. dev' \in BOOLEAN /\ (dev' => dev) /\ (dev' /\ doc.tun = "native" => core = 0)
    BY DEF ProcTypes, Children, CoreBins
  <1>d. net' \subseteq net
    OBVIOUS
  <1>e. \A p \in Pids : p # corePid => exe'[p] = exe[p]
    BY DEF ProcTypes
  <1>1. TaskTypes'
    BY DEF TaskTypes
  <1>2. ProcTypes'
    BY <1>a, <1>b, <1>c DEF ProcTypes
  <1>3. NetTypes'
    <2>1. NetTypes /\ net' \subseteq net /\ UNCHANGED <<host, torn, missed, rows, dnsGuard>>
      BY <1>d
    <2>2. hit' \subseteq hit \cup {"core"}
      OBVIOUS
    <2>3. Linux => net' \subseteq LinuxNet /\ torn' = {}
      <3> HIDE <1>0 DEF StopCore
      <3> QED
        BY <2>1 DEF NetTypes
    <2>4. ~Linux => net' \subseteq WindowsNet \cup {"split"} /\ torn' \subseteq WindowsNet /\ missed' = {}
      <3> HIDE <1>0 DEF StopCore
      <3> QED
        BY <2>1 DEF NetTypes
    <2> QED
      BY <2>1, <2>2, <2>3, <2>4, NetStays
  <1>4. Children'
    <2>1. helper # 0 => helper' # corePid /\ exe'[helper'] \in HelperBins
      BY <1>a, <1>e DEF ProcTypes, Children
    <2>2. dev' => IF doc.tun = "native" THEN core' # 0 ELSE helper' # 0
      BY <1>a, <1>c DEF Children
    <2>3. owner' = "up"
      OBVIOUS
    <2> QED
      BY <1>a, <1>b, <2>1, <2>2, <2>3 DEF Children
  <1>5. Absent'
    BY <1>a DEF Absent, NoHelperYet, DeskDown
  <1>6. Recorded'
    BY DEF Recorded, DeskPlaced
  <1>7. LinuxRules'
    BY DEF LinuxRules, DeskDown, DeskPlaced, DeskRunning, Linux
  <1>8. WindowsRoutes'
    BY DEF WindowsRoutes, DeskDown, DeskRunning, Linux
  <1>9. NoLoop'
    BY DEF Children, NoLoop, Captures, Linux
  <1>10. DeviceRoutes'
    BY DEF DeviceRoutes, DeskRunning, OfDevice
  <1> QED
    BY <1>1, <1>2, <1>3, <1>4, <1>5, <1>6, <1>7, <1>8, <1>9, <1>10 DEF DesktopInv

LEMMA StopCoreByLeave ==
  ASSUME DesktopInv, StopCore("leave")
  PROVE  DesktopInv'
  <1>0. /\ TaskTypes /\ ProcTypes /\ NetTypes /\ Children /\ Absent /\ Recorded
        /\ LinuxRules /\ WindowsRoutes /\ DeviceRoutes /\ NoLoop
    BY DEF DesktopInv
  <1> USE <1>0, GoalsApart, PidFacts, LeaveGoes DEF StopCore, At, Ends, NetAfter, OwnsDevice,
      Without, OfDevice, tasks, procs, system, ledger, Steps, StopPcs, Reasons
  <1>a. core' = 0 /\ corePid' = 0 /\ helper' = helper
    BY DEF Children, CoreBins
  <1>b. exe' \in [Pids -> Procs] /\ \A p \in Pids : exe'[p] \in Bins => exe'[p] = exe[p] /\ p # corePid
    BY DEF ProcTypes, Procs, Bins
  <1>c. dev' \in BOOLEAN /\ (dev' => dev) /\ (dev' /\ doc.tun = "native" => core = 0)
    BY DEF ProcTypes, Children, CoreBins
  <1>d. net' \subseteq net
    OBVIOUS
  <1>e. \A p \in Pids : p # corePid => exe'[p] = exe[p]
    BY DEF ProcTypes
  <1>1. TaskTypes'
    BY DEF TaskTypes
  <1>2. ProcTypes'
    BY <1>a, <1>b, <1>c DEF ProcTypes
  <1>3. NetTypes'
    <2>1. NetTypes /\ net' \subseteq net /\ UNCHANGED <<host, torn, missed, rows, dnsGuard>>
      BY <1>d
    <2>2. hit' \subseteq hit \cup {"core"}
      OBVIOUS
    <2>3. Linux => net' \subseteq LinuxNet /\ torn' = {}
      <3> HIDE <1>0 DEF StopCore
      <3> QED
        BY <2>1 DEF NetTypes
    <2>4. ~Linux => net' \subseteq WindowsNet \cup {"split"} /\ torn' \subseteq WindowsNet /\ missed' = {}
      <3> HIDE <1>0 DEF StopCore
      <3> QED
        BY <2>1 DEF NetTypes
    <2> QED
      BY <2>1, <2>2, <2>3, <2>4, NetStays
  <1>4. Children'
    <2>1. helper # 0 => helper' # corePid /\ exe'[helper'] \in HelperBins
      BY <1>a, <1>e DEF ProcTypes, Children
    <2>2. dev' => IF doc.tun = "native" THEN core' # 0 ELSE helper' # 0
      BY <1>a, <1>c DEF Children
    <2>3. owner' = "up"
      OBVIOUS
    <2> QED
      BY <1>a, <1>b, <2>1, <2>2, <2>3 DEF Children
  <1>5. Absent'
    BY <1>a DEF Absent, NoHelperYet, DeskDown
  <1>6. Recorded'
    BY DEF Recorded, DeskPlaced
  <1>7. LinuxRules'
    BY DEF LinuxRules, DeskDown, DeskPlaced, DeskRunning, Linux
  <1>8. WindowsRoutes'
    <2>1. /\ net' \subseteq net /\ pc'.leave # "idle" /\ pc'.command = pc.command
          /\ UNCHANGED <<host, goal, rows, torn, stuck, dnsGuard, last>>
      BY <1>d
    <2>2. ~Linux => pc.command = "idle"
      <3> HIDE <1>0
      <3> QED
        BY <1>0, <2>1 DEF WindowsRoutes
    <2> HIDE DEF StopCore
    <2> QED
      BY <2>1, <2>2 DEF WindowsRoutes, DeskDown, DeskRunning, Linux
  <1>9. NoLoop'
    BY DEF NoLoop
  <1>10. DeviceRoutes'
    BY DEF DeviceRoutes, DeskRunning, OfDevice
  <1> QED
    BY <1>1, <1>2, <1>3, <1>4, <1>5, <1>6, <1>7, <1>8, <1>9, <1>10 DEF DesktopInv

LEMMA StopRoutesByCommand ==
  ASSUME DesktopInv, StopRoutes("command")
  PROVE  DesktopInv'
  <1>0. /\ TaskTypes /\ ProcTypes /\ NetTypes /\ Children /\ Absent /\ Recorded
        /\ LinuxRules /\ WindowsRoutes /\ DeviceRoutes /\ NoLoop
    BY DEF DesktopInv
  <1> USE <1>0, GoalsApart, PidFacts, CommandGoes, ReplaceFacts DEF StopRoutes, At, ExternalRouting, SweptRules,
      RecordedRows, Linux, tasks, procs, system, ledger, Steps, StopPcs, Reasons
  <1>1. TaskTypes'
    BY DEF TaskTypes
  <1>2. ProcTypes'
    BY DEF ProcTypes
  <1>3. NetTypes'
    BY DEF NetTypes, Linux
  <1>4. Children'
    BY DEF Children
  <1>5. Absent'
    BY DEF Absent, NoCoreYet, NoHelperYet, DeskDown
  <1>6. Recorded'
    BY DEF Recorded, DeskPlaced
  <1>7. LinuxRules'
    <2>0. Replace(ExternalRouting, {}) /\ (Linux => ExternalRouting = SweptRules /\ net \subseteq LinuxNet)
      BY DEF NetTypes
    <2>1. Linux => net' \subseteq {"auto"} \cup stuck'
      BY ONLY <2>0, ReplaceFacts DEF SweptRules, LinuxNet
    <2>2. pc'.command = "stop auto" /\ rows' = NoFile /\ dnsGuard' = {} /\ UNCHANGED host
      OBVIOUS
    <2> HIDE <1>0 DEF StopRoutes
    <2> QED
      BY <2>1, <2>2 DEF LinuxRules, DeskDown, DeskPlaced, DeskRunning
  <1>8. WindowsRoutes'
    BY DEF WindowsRoutes, DeskDown, DeskRunning, Linux
  <1>9. NoLoop'
    BY DEF Absent, NoCoreYet, NoLoop
  <1>10. DeviceRoutes'
    BY DEF DeviceRoutes, DeskRunning, OfDevice
  <1> QED
    BY <1>1, <1>2, <1>3, <1>4, <1>5, <1>6, <1>7, <1>8, <1>9, <1>10 DEF DesktopInv

LEMMA StopRoutesByLeave ==
  ASSUME DesktopInv, StopRoutes("leave")
  PROVE  DesktopInv'
  <1>0. /\ TaskTypes /\ ProcTypes /\ NetTypes /\ Children /\ Absent /\ Recorded
        /\ LinuxRules /\ WindowsRoutes /\ DeviceRoutes /\ NoLoop
    BY DEF DesktopInv
  <1> USE <1>0, GoalsApart, PidFacts, LeaveGoes, ReplaceFacts DEF StopRoutes, At, ExternalRouting, SweptRules,
      RecordedRows, Linux, tasks, procs, system, ledger, Steps, StopPcs, Reasons
  <1>1. TaskTypes'
    BY DEF TaskTypes
  <1>2. ProcTypes'
    BY DEF ProcTypes
  <1>3. NetTypes'
    BY DEF NetTypes, Linux
  <1>4. Children'
    BY DEF Children
  <1>5. Absent'
    BY DEF Absent, NoCoreYet, NoHelperYet, DeskDown
  <1>6. Recorded'
    BY DEF Recorded, DeskPlaced
  <1>7. LinuxRules'
    BY DEF LinuxRules, DeskDown, DeskPlaced, DeskRunning, Linux
  <1>8. WindowsRoutes'
    BY DEF WindowsRoutes, DeskDown, DeskRunning, Linux
  <1>9. NoLoop'
    BY DEF NoLoop
  <1>10. DeviceRoutes'
    BY DEF DeviceRoutes, DeskRunning, OfDevice
  <1> QED
    BY <1>1, <1>2, <1>3, <1>4, <1>5, <1>6, <1>7, <1>8, <1>9, <1>10 DEF DesktopInv

LEMMA StopAutoByCommand ==
  ASSUME DesktopInv, StopAuto("command")
  PROVE  DesktopInv'
  <1>0. /\ TaskTypes /\ ProcTypes /\ NetTypes /\ Children /\ Absent /\ Recorded
        /\ LinuxRules /\ WindowsRoutes /\ DeviceRoutes /\ NoLoop
    BY DEF DesktopInv
  <1> USE <1>0, GoalsApart, PidFacts, CommandGoes, RemoveFacts DEF StopAuto, At, Autoroute, Linux, tasks,
      procs, system, ledger, Steps, StopPcs, Reasons
  <1>1. TaskTypes'
    BY DEF TaskTypes
  <1>2. ProcTypes'
    BY DEF ProcTypes
  <1>3. NetTypes'
    BY DEF NetTypes, Linux
  <1>4. Children'
    BY DEF Children
  <1>5. Absent'
    BY DEF Absent, NoCoreYet, NoHelperYet, DeskDown
  <1>6. Recorded'
    BY DEF Recorded, DeskPlaced
  <1>7. LinuxRules'
    <2>1. Linux /\ pc.leave = "idle" => net \subseteq {"auto"} \cup stuck /\ rows = NoFile
      BY DEF LinuxRules
    <2>5. Remove(Autoroute) /\ (Linux => Autoroute = {"auto"} \cup EscapeRules)
      OBVIOUS
    <2>2. Linux /\ pc.leave = "idle" => net' \subseteq stuck'
      BY ONLY <2>1, <2>5, RemoveFacts
    <2>3. pc'.command = "stop helper" /\ pc'.leave = pc.leave /\ UNCHANGED <<host, rows, dnsGuard>>
      OBVIOUS
    <2>4. Linux => dnsGuard = {}
      BY DEF LinuxRules
    <2> HIDE <1>0 DEF StopAuto
    <2> QED
      BY <2>1, <2>2, <2>3, <2>4 DEF LinuxRules, DeskDown, DeskPlaced, DeskRunning
  <1>8. WindowsRoutes'
    BY DEF WindowsRoutes, DeskDown, DeskRunning, Linux
  <1>9. NoLoop'
    BY DEF Absent, NoCoreYet, NoLoop
  <1>10. DeviceRoutes'
    BY DEF DeviceRoutes, DeskRunning, OfDevice
  <1> QED
    BY <1>1, <1>2, <1>3, <1>4, <1>5, <1>6, <1>7, <1>8, <1>9, <1>10 DEF DesktopInv

LEMMA StopAutoByLeave ==
  ASSUME DesktopInv, StopAuto("leave")
  PROVE  DesktopInv'
  <1>0. /\ TaskTypes /\ ProcTypes /\ NetTypes /\ Children /\ Absent /\ Recorded
        /\ LinuxRules /\ WindowsRoutes /\ DeviceRoutes /\ NoLoop
    BY DEF DesktopInv
  <1> USE <1>0, GoalsApart, PidFacts, LeaveGoes, RemoveFacts DEF StopAuto, At, Autoroute, Linux, tasks,
      procs, system, ledger, Steps, StopPcs, Reasons
  <1>1. TaskTypes'
    BY DEF TaskTypes
  <1>2. ProcTypes'
    BY DEF ProcTypes
  <1>3. NetTypes'
    BY DEF NetTypes, Linux
  <1>4. Children'
    BY DEF Children
  <1>5. Absent'
    BY DEF Absent, NoCoreYet, NoHelperYet, DeskDown
  <1>6. Recorded'
    BY DEF Recorded, DeskPlaced
  <1>7. LinuxRules'
    BY DEF LinuxRules, DeskDown, DeskPlaced, DeskRunning, Linux
  <1>8. WindowsRoutes'
    BY DEF WindowsRoutes, DeskDown, DeskRunning, Linux
  <1>9. NoLoop'
    BY DEF NoLoop
  <1>10. DeviceRoutes'
    BY DEF DeviceRoutes, DeskRunning, OfDevice
  <1> QED
    BY <1>1, <1>2, <1>3, <1>4, <1>5, <1>6, <1>7, <1>8, <1>9, <1>10 DEF DesktopInv

LEMMA StopHelperByCommand ==
  ASSUME DesktopInv, StopHelper("command")
  PROVE  DesktopInv'
  <1>0. /\ TaskTypes /\ ProcTypes /\ NetTypes /\ Children /\ Absent /\ Recorded
        /\ LinuxRules /\ WindowsRoutes /\ DeviceRoutes /\ NoLoop
    BY DEF DesktopInv
  <1> USE <1>0, GoalsApart, PidFacts, CommandGoes DEF StopHelper, At, Ends, NetAfter, OwnsDevice,
      Without, OfDevice, tasks, procs, system, ledger, Steps, StopPcs, Reasons
  <1>a. helper' = 0 /\ helperPid' = 0 /\ core' = core
    BY DEF Children
  <1>b. exe' \in [Pids -> Procs] /\ \A p \in Pids : exe'[p] \in Bins => exe'[p] = exe[p] /\ p # helper
    BY DEF ProcTypes, Children, Procs, Bins
  <1>c. (dev' => dev) /\ (dev' /\ doc.tun # "native" => helper = 0)
    BY DEF Children
  <1>e. \A p \in Pids : p # helperPid => exe'[p] = exe[p]
    BY DEF ProcTypes
  <1>1. TaskTypes'
    BY DEF TaskTypes
  <1>2. ProcTypes'
    BY DEF ProcTypes, Procs
  <1>3. NetTypes'
    BY DEF NetTypes, Linux
  <1>4. Children'
    <2>1. core # 0 => core' # helperPid /\ exe'[core'] \in CoreBins
      BY <1>a, <1>e DEF ProcTypes, Children
    <2>2. dev' => IF doc.tun = "native" THEN core' # 0 ELSE helper' # 0
      BY <1>a, <1>c DEF Children
    <2>3. owner' = "up"
      OBVIOUS
    <2> QED
      BY <1>a, <1>b, <2>1, <2>2, <2>3 DEF Children
  <1>5. Absent'
    BY DEF Children, Absent, NoCoreYet
  <1>6. Recorded'
    BY DEF Recorded, DeskPlaced
  <1>7. LinuxRules'
    BY DEF LinuxRules, DeskDown, DeskPlaced, DeskRunning, Linux
  <1>8. WindowsRoutes'
    BY DEF WindowsRoutes, DeskDown, DeskRunning, Linux
  <1>9. NoLoop'
    BY DEF Absent, NoCoreYet, NoLoop
  <1>10. DeviceRoutes'
    BY DEF DeviceRoutes, DeskRunning, OfDevice
  <1> QED
    BY <1>1, <1>2, <1>3, <1>4, <1>5, <1>6, <1>7, <1>8, <1>9, <1>10 DEF DesktopInv

LEMMA StopHelperByLeave ==
  ASSUME DesktopInv, StopHelper("leave")
  PROVE  DesktopInv'
  <1>0. /\ TaskTypes /\ ProcTypes /\ NetTypes /\ Children /\ Absent /\ Recorded
        /\ LinuxRules /\ WindowsRoutes /\ DeviceRoutes /\ NoLoop
    BY DEF DesktopInv
  <1> USE <1>0, GoalsApart, PidFacts, LeaveGoes DEF StopHelper, At, Ends, NetAfter, OwnsDevice,
      Without, OfDevice, tasks, procs, system, ledger, Steps, StopPcs, Reasons
  <1>a. helper' = 0 /\ helperPid' = 0 /\ core' = core
    BY DEF Children
  <1>b. exe' \in [Pids -> Procs] /\ \A p \in Pids : exe'[p] \in Bins => exe'[p] = exe[p] /\ p # helper
    BY DEF ProcTypes, Children, Procs, Bins
  <1>c. (dev' => dev) /\ (dev' /\ doc.tun # "native" => helper = 0)
    BY DEF Children
  <1>e. \A p \in Pids : p # helperPid => exe'[p] = exe[p]
    BY DEF ProcTypes
  <1>1. TaskTypes'
    BY DEF TaskTypes
  <1>2. ProcTypes'
    BY DEF ProcTypes, Procs
  <1>3. NetTypes'
    BY DEF NetTypes, Linux
  <1>4. Children'
    <2>1. core # 0 => core' # helperPid /\ exe'[core'] \in CoreBins
      BY <1>a, <1>e DEF ProcTypes, Children
    <2>2. dev' => IF doc.tun = "native" THEN core' # 0 ELSE helper' # 0
      BY <1>a, <1>c DEF Children
    <2>3. owner' = "up"
      OBVIOUS
    <2> QED
      BY <1>a, <1>b, <2>1, <2>2, <2>3 DEF Children
  <1>5. Absent'
    BY DEF Absent, NoCoreYet, NoHelperYet, DeskDown
  <1>6. Recorded'
    BY DEF Recorded, DeskPlaced
  <1>7. LinuxRules'
    BY DEF LinuxRules, DeskDown, DeskPlaced, DeskRunning, Linux
  <1>8. WindowsRoutes'
    BY DEF WindowsRoutes, DeskDown, DeskRunning, Linux
  <1>9. NoLoop'
    BY DEF NoLoop
  <1>10. DeviceRoutes'
    BY DEF DeviceRoutes, DeskRunning, OfDevice
  <1> QED
    BY <1>1, <1>2, <1>3, <1>4, <1>5, <1>6, <1>7, <1>8, <1>9, <1>10 DEF DesktopInv

LEMMA StopDocByCommand ==
  ASSUME DesktopInv, StopDoc("command")
  PROVE  DesktopInv'
  <1>0. /\ TaskTypes /\ ProcTypes /\ NetTypes /\ Children /\ Absent /\ Recorded
        /\ LinuxRules /\ WindowsRoutes /\ DeviceRoutes /\ NoLoop
    BY DEF DesktopInv
  <1> USE <1>0, GoalsApart, PidFacts, CommandGoes, DocWrites DEF StopDoc, At, Keep, Without,
      OfDevice, tasks, procs, system, ledger, Steps, StopPcs, Reasons
  <1>1. TaskTypes'
    BY DEF TaskTypes
  <1>2. ProcTypes'
    BY DEF ProcTypes
  <1>3. NetTypes'
    BY DEF NetTypes, Linux
  <1>4. Children'
    BY DEF Children, Absent, NoCoreYet, NoHelperYet
  <1>5. Absent'
    BY DEF Absent, NoCoreYet, NoHelperYet, DeskDown
  <1>6. Recorded'
    <2>1. CASE goal \in Plans /\ host.gated /\ goal.tun # "none"
      BY <2>1 DEF Recorded, DeskPlaced
    <2>2. CASE goal \in Plans /\ ~(host.gated /\ goal.tun # "none")
      BY <2>2 DEF Recorded
    <2>3. CASE goal \notin Plans
      <3>1. pc'.command = "idle" /\ last' = "down" /\ goal' = goal /\ doc' = (IF goal # StopGoal THEN doc ELSE Stopped)
        BY <2>3
      <3> QED
        BY <2>3, <3>1 DEF Recorded, DeskPlaced
    <2> QED
      BY <2>1, <2>2, <2>3
  <1>7. LinuxRules'
    BY DEF LinuxRules, DeskDown, DeskPlaced, DeskRunning, Linux
  <1>8. WindowsRoutes'
    BY DEF WindowsRoutes, DeskDown, DeskRunning, Linux
  <1>9. NoLoop'
    BY DEF NoLoop, Captures, Linux
  <1>10. DeviceRoutes'
    BY DEF DeviceRoutes, DeskRunning, OfDevice
  <1> QED
    BY <1>1, <1>2, <1>3, <1>4, <1>5, <1>6, <1>7, <1>8, <1>9, <1>10 DEF DesktopInv

LEMMA StopDocByLeave ==
  ASSUME DesktopInv, StopDoc("leave")
  PROVE  DesktopInv'
  <1>0. /\ TaskTypes /\ ProcTypes /\ NetTypes /\ Children /\ Absent /\ Recorded
        /\ LinuxRules /\ WindowsRoutes /\ DeviceRoutes /\ NoLoop
    BY DEF DesktopInv
  <1> USE <1>0, GoalsApart, PidFacts, LeaveGoes, DocWrites DEF StopDoc, At, Keep, Without, OfDevice,
      tasks, procs, system, ledger, Steps, StopPcs, Reasons
  <1>a. owner' = "down" /\ pc' = [pc EXCEPT !.command = "idle", !.leave = "idle"] /\ last' = "boot"
    OBVIOUS
  <1>b. pc' \in [{"command", "leave"} -> Steps] /\ pc'.command = "idle" /\ pc'.leave = "idle"
    BY <1>a DEF TaskTypes
  <1>c. core' = 0 /\ helper' = 0 /\ dev' = FALSE /\ exe' = [p \in Pids |-> IF p \in {core, helper} THEN "free" ELSE exe[p]]
    OBVIOUS
  <1>d. exe' \in [Pids -> Procs] /\ \A p \in Pids : exe'[p] \notin Bins
    BY <1>c DEF ProcTypes, Children, Procs, Bins
  <1>e. dnsGuard' = {} /\ net' \subseteq net
    OBVIOUS
  <1>1. TaskTypes'
    BY <1>a, <1>b DEF TaskTypes
  <1>2. ProcTypes'
    BY <1>c, <1>d DEF ProcTypes
  <1>3. NetTypes'
    BY DEF NetTypes, Linux
  <1>4. Children'
    BY <1>a, <1>b, <1>c, <1>d DEF Children
  <1>5. Absent'
    BY <1>c DEF Absent
  <1>6. Recorded'
    BY <1>a, <1>b DEF Recorded, DeskPlaced
  <1>7. LinuxRules'
    BY <1>a, <1>b, <1>e DEF LinuxRules, DeskDown, DeskPlaced, DeskRunning
  <1>8. WindowsRoutes'
    BY <1>a, <1>b, <1>e DEF WindowsRoutes, DeskDown, DeskRunning, Linux
  <1>9. NoLoop'
    BY <1>a DEF NoLoop
  <1>10. DeviceRoutes'
    BY DEF DeviceRoutes, DeskRunning, OfDevice
  <1> QED
    BY <1>1, <1>2, <1>3, <1>4, <1>5, <1>6, <1>7, <1>8, <1>9, <1>10 DEF DesktopInv

LEMMA PrepareInv ==
  ASSUME DesktopInv, Prepare
  PROVE  DesktopInv'
  <1>0. /\ TaskTypes /\ ProcTypes /\ NetTypes /\ Children /\ Absent /\ Recorded
        /\ LinuxRules /\ WindowsRoutes /\ DeviceRoutes /\ NoLoop
    BY DEF DesktopInv
  <1> USE <1>0, GoalsApart, PidFacts, CommandGoes, StartFails, ReplaceFacts DEF Prepare, At, Escapes,
      Autoroute, Escape, tasks, procs, system, ledger, Steps, StopPcs, Reasons
  <1>1. TaskTypes'
    BY DEF TaskTypes
  <1>2. ProcTypes'
    BY DEF ProcTypes
  <1>3. NetTypes'
    BY DEF NetTypes, Linux, LinuxNet
  <1>4. Children'
    BY DEF Children
  <1>5. Absent'
    BY DEF Absent, NoCoreYet, NoHelperYet, DeskDown
  <1>6. Recorded'
    BY DEF Recorded, DeskPlaced
  <1>7. LinuxRules'
    <2>1. Linux => dnsGuard = {} /\ (pc.leave = "idle" => net \subseteq stuck /\ rows = NoFile)
      BY DEF LinuxRules
    <2>2. UNCHANGED <<host, rows, dnsGuard>> /\ Linux' = Linux
      BY SameHost
    <2>3. CASE FailAt("prepare") /\ UNCHANGED <<net, missed, stuck, escaping, iface>>
      <3>1. pc'.command = "stop core" /\ goal' = FailedGoal
        BY <2>3
      <3> HIDE <1>0 DEF Prepare
      <3> QED
        BY <2>1, <2>2, <3>1 DEF LinuxRules, DeskDown, DeskPlaced, DeskRunning
    <2>4. CASE Goto("command", "spawn") /\ escaping' = Escapes(goal) /\ UNCHANGED goal
               /\ (IF goal.tun = "native" THEN Replace(Autoroute, Escape) ELSE missed' = {} /\ UNCHANGED <<net, stuck>>)
      <3>1. pc'.command = "spawn" /\ pc'.leave = pc.leave
        BY <2>4
      <3>2. Linux /\ goal.tun = "native" /\ pc.leave = "idle" =>
               net' \subseteq EscapeRules \cup stuck' /\ EscapeRules \subseteq net' \cup missed'
        <4>1. Linux => Escape = EscapeRules
          OBVIOUS
        <4> QED
          BY ONLY <2>1, <2>4, <4>1, ReplaceFacts
      <3>3. Linux /\ goal.tun # "native" /\ pc.leave = "idle" => net' \subseteq stuck'
        BY <2>1, <2>4
      <3>4. Linux /\ goal.tun # "none" => escaping'
        BY <2>4
      <3>5. UNCHANGED goal
        BY <2>4
      <3> HIDE <1>0 DEF Prepare
      <3> QED
        BY <2>1, <2>2, <3>1, <3>2, <3>3, <3>4, <3>5 DEF LinuxRules, DeskDown, DeskPlaced, DeskRunning
    <2> QED
      BY <2>3, <2>4
  <1>8. WindowsRoutes'
    BY DEF WindowsRoutes, DeskDown, DeskRunning, Linux
  <1>9. NoLoop'
    BY DEF Absent, NoCoreYet, NoLoop
  <1>10. DeviceRoutes'
    <2>1. ~dev /\ net \cap OfDevice = {}
      BY DEF Absent, NoCoreYet, NoHelperYet, Children, DeviceRoutes
    <2>2. (Replace(Autoroute, Escape) \/ UNCHANGED net) /\ UNCHANGED dev /\ Escape \subseteq EscapeRules
      OBVIOUS
    <2>3. net' \subseteq net \cup EscapeRules
      BY ONLY <2>2, ReplaceFacts
    <2> HIDE <1>0 DEF Prepare
    <2> QED
      BY <2>1, <2>2, <2>3 DEF DeviceRoutes, OfDevice, EscapeRules
  <1> QED
    BY <1>1, <1>2, <1>3, <1>4, <1>5, <1>6, <1>7, <1>8, <1>9, <1>10 DEF DesktopInv

LEMMA SpawnInv ==
  ASSUME DesktopInv, Spawn
  PROVE  DesktopInv'
  <1>0. /\ TaskTypes /\ ProcTypes /\ NetTypes /\ Children /\ Absent /\ Recorded
        /\ LinuxRules /\ WindowsRoutes /\ DeviceRoutes /\ NoLoop
    BY DEF DesktopInv
  <1> USE <1>0, GoalsApart, PidFacts, CommandGoes DEF Spawn, At, FreePids, tasks, procs, system, ledger,
      Steps, StopPcs, Reasons
  <1> PICK p \in FreePids : exe' = [exe EXCEPT ![p] = goal.engine] /\ core' = p /\ corePid' = p
    OBVIOUS
  <1>a. p \in Pids /\ p # helperPid /\ exe[p] = "free" /\ p # 0
    BY DEF FreePids
  <1>b. goal \in Plans /\ goal.engine \in CoreBins /\ doc.tun = goal.tun /\ core = 0 /\ helper = 0
    BY DEF Recorded, DeskPlaced, Absent, NoCoreYet, NoHelperYet
  <1>c. exe'[p] \in CoreBins /\ \A q \in Pids : q # p => exe'[q] = exe[q]
    BY <1>a, <1>b DEF ProcTypes
  <1>d. exe' \in [Pids -> Procs]
    BY <1>a, <1>b DEF ProcTypes, Procs, Bins, CoreBins
  <1>1. TaskTypes'
    BY DEF TaskTypes
  <1>2. ProcTypes'
    BY <1>a, <1>d DEF ProcTypes
  <1>3. NetTypes'
    BY DEF NetTypes, Linux, LinuxNet
  <1>4. Children'
    <2>1. corePid' # helperPid' /\ helper' = 0
      BY <1>a, <1>b
    <2>2. \A q \in Pids : exe'[q] \in Bins => q \in {core', helper'}
      BY <1>b, <1>c DEF Children
    <2>3. dev' => IF doc'.tun = "native" THEN core' # 0 ELSE helper' # 0
      BY <1>a, <1>b DEF Children
    <2> QED
      BY <1>a, <1>c, <2>1, <2>2, <2>3 DEF Children
  <1>5. Absent'
    BY DEF Absent, NoCoreYet, NoHelperYet, DeskDown
  <1>6. Recorded'
    BY DEF Recorded, DeskPlaced
  <1>7. LinuxRules'
    BY DEF LinuxRules, DeskDown, DeskPlaced, DeskRunning, Linux
  <1>8. WindowsRoutes'
    BY DEF WindowsRoutes, DeskDown, DeskRunning, Linux
  <1>9. NoLoop'
    <2>0. net \cap {"table", "split"} = {} /\ UNCHANGED <<host, escaping>>
      BY DEF DeviceRoutes, OfDevice
    <2>1. CASE Linux
      <3>1. CASE goal.tun = "native"
        <4>1. pc.leave = "idle" => escaping /\ EscapeRules \subseteq net \cup missed
          BY <2>1, <3>1 DEF LinuxRules, DeskPlaced
        <4>2. net \subseteq net' /\ UNCHANGED missed /\ pc'.leave = pc.leave
          <5>1. pc'.leave = pc.leave
            OBVIOUS
          <5>2. net' = net \cup {"auto"} /\ UNCHANGED missed
            BY <2>1, <3>1
          <5> QED
            BY ONLY <5>1, <5>2
        <4> HIDE <1>0 DEF Spawn
        <4> QED
          BY <2>0, <2>1, <4>1, <4>2, SameHost DEF NoLoop
      <3>2. CASE goal.tun # "native"
        <4>1. pc.leave = "idle" => net \subseteq stuck
          BY <1>b, <2>1, <3>2 DEF LinuxRules
        <4>2. UNCHANGED <<net, stuck>> /\ pc'.leave = pc.leave
          BY <3>2
        <4> HIDE <1>0 DEF Spawn
        <4> QED
          BY <2>0, <4>1, <4>2 DEF NoLoop, Captures
      <3> QED
        BY <3>1, <3>2
    <2>2. CASE ~Linux
      <3>1. UNCHANGED <<net, stuck>> /\ {"auto", "capture", "table"} \cap net = {}
        BY <2>0, <2>2 DEF NetTypes, WindowsNet
      <3> HIDE <1>0 DEF Spawn
      <3> QED
        BY <2>0, <3>1 DEF NoLoop, Captures
    <2> QED
      BY <2>1, <2>2
  <1>10. DeviceRoutes'
    BY DEF DeviceRoutes, DeskRunning, OfDevice
  <1> QED
    BY <1>1, <1>2, <1>3, <1>4, <1>5, <1>6, <1>7, <1>8, <1>9, <1>10 DEF DesktopInv

LEMMA VerifyInv ==
  ASSUME DesktopInv, Verify
  PROVE  DesktopInv'
  <1>0. /\ TaskTypes /\ ProcTypes /\ NetTypes /\ Children /\ Absent /\ Recorded
        /\ LinuxRules /\ WindowsRoutes /\ DeviceRoutes /\ NoLoop
    BY DEF DesktopInv
  <1> USE <1>0, GoalsApart, PidFacts, CommandGoes, StartFails DEF Verify, At, Tun, tasks, procs,
      system, ledger, Steps, StopPcs, Reasons
  <1>1. TaskTypes'
    BY DEF TaskTypes
  <1>2. ProcTypes'
    BY DEF ProcTypes
  <1>3. NetTypes'
    BY DEF NetTypes, Linux
  <1>4. Children'
    BY DEF Children
  <1>5. Absent'
    BY DEF Absent, NoCoreYet, NoHelperYet, DeskDown
  <1>6. Recorded'
    BY DEF Recorded, DeskPlaced
  <1>7. LinuxRules'
    BY DEF LinuxRules, DeskDown, DeskPlaced, DeskRunning, Linux
  <1>8. WindowsRoutes'
    BY DEF WindowsRoutes, DeskDown, DeskRunning, Linux
  <1>9. NoLoop'
    BY DEF NoLoop, Captures, Linux
  <1>10. DeviceRoutes'
    BY DEF DeviceRoutes, DeskRunning, OfDevice
  <1> QED
    BY <1>1, <1>2, <1>3, <1>4, <1>5, <1>6, <1>7, <1>8, <1>9, <1>10 DEF DesktopInv

LEMMA SpawnHelperInv ==
  ASSUME DesktopInv, SpawnHelper
  PROVE  DesktopInv'
  <1>0. /\ TaskTypes /\ ProcTypes /\ NetTypes /\ Children /\ Absent /\ Recorded
        /\ LinuxRules /\ WindowsRoutes /\ DeviceRoutes /\ NoLoop
    BY DEF DesktopInv
  <1> USE <1>0, GoalsApart, PidFacts, CommandGoes, StartFails DEF SpawnHelper, At, FreePids, tasks,
      procs, system, ledger, Steps, StopPcs, Reasons
  <1>a. goal \in Plans /\ goal.helper \in HelperBins /\ doc.tun = goal.tun /\ helper = 0 /\ goal.tun = "external"
    BY DEF Recorded, DeskPlaced, Absent, NoHelperYet
  <1>b. exe' \in [Pids -> Procs]
    BY <1>a DEF ProcTypes, Procs, Bins, HelperBins
  <1>1. TaskTypes'
    BY DEF TaskTypes
  <1>2. ProcTypes'
    BY <1>b DEF ProcTypes
  <1>3. NetTypes'
    BY DEF NetTypes, Linux
  <1>4. Children'
    <2>1. CASE FailAt("tun engine")
      BY <2>1, StartFails DEF Children
    <2>2. ASSUME NEW p \in FreePids, exe' = [exe EXCEPT ![p] = goal.helper], helper' = p, helperPid' = p, UNCHANGED doc
          PROVE  Children'
      <3>1. exe[p] = "free" /\ p # 0 /\ p # core /\ exe'[p] = goal.helper /\ goal.helper \in HelperBins
        BY <1>a, <2>2 DEF ProcTypes, Children, CoreBins, HelperBins
      <3>2. \A q \in Pids : q # p => exe'[q] = exe[q]
        BY <2>2 DEF ProcTypes
      <3>3. core # 0 => core' = corePid' /\ exe'[core'] \in CoreBins
        BY <3>1, <3>2 DEF ProcTypes, Children
      <3>4. corePid' = helperPid' => corePid' = 0
        BY <2>2, <3>1 DEF Children
      <3>5. \A q \in Pids : exe'[q] \in Bins => q \in {core', helper'}
        BY <1>a, <2>2, <3>2 DEF Children
      <3> QED
        BY <2>2, <3>1, <3>3, <3>4, <3>5 DEF Children
    <2> QED
      BY <2>1, <2>2
  <1>5. Absent'
    BY DEF Absent, NoCoreYet, NoHelperYet, DeskDown
  <1>6. Recorded'
    BY DEF Recorded, DeskPlaced
  <1>7. LinuxRules'
    BY DEF LinuxRules, DeskDown, DeskPlaced, DeskRunning, Linux
  <1>8. WindowsRoutes'
    BY DEF WindowsRoutes, DeskDown, DeskRunning, Linux
  <1>9. NoLoop'
    BY DEF NoLoop, Captures, Linux
  <1>10. DeviceRoutes'
    BY DEF DeviceRoutes, DeskRunning, OfDevice
  <1> QED
    BY <1>1, <1>2, <1>3, <1>4, <1>5, <1>6, <1>7, <1>8, <1>9, <1>10 DEF DesktopInv

LEMMA TunComesUpInv ==
  ASSUME DesktopInv, TunComesUp
  PROVE  DesktopInv'
  <1>0. /\ TaskTypes /\ ProcTypes /\ NetTypes /\ Children /\ Absent /\ Recorded
        /\ LinuxRules /\ WindowsRoutes /\ DeviceRoutes /\ NoLoop
    BY DEF DesktopInv
  <1> USE <1>0, GoalsApart, PidFacts, CommandGoes DEF TunComesUp, At, tasks, procs, system, ledger, Steps,
      StopPcs, Reasons
  <1>1. TaskTypes'
    BY DEF TaskTypes
  <1>2. ProcTypes'
    BY DEF ProcTypes
  <1>3. NetTypes'
    BY DEF NetTypes, Linux
  <1>4. Children'
    BY DEF Children, Recorded, DeskPlaced
  <1>5. Absent'
    BY DEF Absent, NoCoreYet, NoHelperYet, DeskDown
  <1>6. Recorded'
    BY DEF Recorded, DeskPlaced
  <1>7. LinuxRules'
    BY DEF LinuxRules, DeskDown, DeskPlaced, DeskRunning, Linux
  <1>8. WindowsRoutes'
    BY DEF WindowsRoutes, DeskDown, DeskRunning, Linux
  <1>9. NoLoop'
    BY DEF NoLoop, Captures, Linux
  <1>10. DeviceRoutes'
    BY DEF DeviceRoutes, DeskRunning, OfDevice
  <1> QED
    BY <1>1, <1>2, <1>3, <1>4, <1>5, <1>6, <1>7, <1>8, <1>9, <1>10 DEF DesktopInv

LEMMA AwaitTimesOutInv ==
  ASSUME DesktopInv, AwaitTimesOut
  PROVE  DesktopInv'
  <1>0. /\ TaskTypes /\ ProcTypes /\ NetTypes /\ Children /\ Absent /\ Recorded
        /\ LinuxRules /\ WindowsRoutes /\ DeviceRoutes /\ NoLoop
    BY DEF DesktopInv
  <1> USE <1>0, GoalsApart, PidFacts, CommandGoes, StartFails DEF AwaitTimesOut, At, tasks, procs,
      system, ledger, Steps, StopPcs, Reasons
  <1>1. TaskTypes'
    BY DEF TaskTypes
  <1>2. ProcTypes'
    BY DEF ProcTypes
  <1>3. NetTypes'
    BY DEF NetTypes, Linux
  <1>4. Children'
    BY DEF Children
  <1>5. Absent'
    BY DEF Absent, NoCoreYet, NoHelperYet, DeskDown
  <1>6. Recorded'
    BY DEF Recorded, DeskPlaced
  <1>7. LinuxRules'
    BY DEF LinuxRules, DeskDown, DeskPlaced, DeskRunning, Linux
  <1>8. WindowsRoutes'
    BY DEF WindowsRoutes, DeskDown, DeskRunning, Linux
  <1>9. NoLoop'
    BY DEF NoLoop, Captures, Linux
  <1>10. DeviceRoutes'
    BY DEF DeviceRoutes, DeskRunning, OfDevice
  <1> QED
    BY <1>1, <1>2, <1>3, <1>4, <1>5, <1>6, <1>7, <1>8, <1>9, <1>10 DEF DesktopInv

LEMMA RouteAroundLinuxInv ==
  ASSUME DesktopInv, RouteAroundLinux
  PROVE  DesktopInv'
  <1>0. /\ TaskTypes /\ ProcTypes /\ NetTypes /\ Children /\ Absent /\ Recorded
        /\ LinuxRules /\ WindowsRoutes /\ DeviceRoutes /\ NoLoop
    BY DEF DesktopInv
  <1> USE <1>0, GoalsApart, PidFacts, CommandGoes, ReplaceFacts DEF RouteAroundLinux, At, SweptRules, tasks,
      procs, system, ledger, Steps, StopPcs, Reasons
  <1>1. TaskTypes'
    BY DEF TaskTypes
  <1>2. ProcTypes'
    BY DEF ProcTypes
  <1>3. NetTypes'
    BY DEF NetTypes, Linux, LinuxNet
  <1>4. Children'
    BY DEF Children
  <1>5. Absent'
    BY DEF Absent, NoCoreYet, NoHelperYet, DeskDown
  <1>6. Recorded'
    BY DEF Recorded, DeskPlaced
  <1>7. LinuxRules'
    BY DEF LinuxRules, DeskDown, DeskPlaced, DeskRunning, Linux
  <1>8. WindowsRoutes'
    BY DEF WindowsRoutes, DeskDown, DeskRunning, Linux
  <1>9. NoLoop'
    <2>1. Linux' /\ pc'.leave = pc.leave /\ UNCHANGED escaping /\ EscapeRules \subseteq net' \cup missed'
      <3>1. Linux /\ UNCHANGED <<host, escaping>> /\ pc'.leave = pc.leave /\ Replace(SweptRules, EscapeRules)
        OBVIOUS
      <3> QED
        BY ONLY <3>1, SameHost, ReplaceFacts
    <2>2. goal.tun # "none" /\ (pc.leave = "idle" => escaping)
      BY DEF Recorded, LinuxRules, DeskPlaced
    <2> HIDE <1>0 DEF RouteAroundLinux
    <2> QED
      BY <2>1, <2>2 DEF NoLoop
  <1>10. DeviceRoutes'
    <2>1. net \cap OfDevice = {}
      BY DEF DeviceRoutes
    <2>3. Replace(SweptRules, EscapeRules) /\ pc'.command = "capture" /\ UNCHANGED dev
      OBVIOUS
    <2>2. net' \cap OfDevice = {} /\ pc'.command = "capture" /\ UNCHANGED dev
      BY ONLY <2>1, <2>3, ReplaceFacts DEF OfDevice, EscapeRules
    <2> QED
      BY <2>2 DEF DeviceRoutes
  <1> QED
    BY <1>1, <1>2, <1>3, <1>4, <1>5, <1>6, <1>7, <1>8, <1>9, <1>10 DEF DesktopInv

LEMMA CaptureLinuxInv ==
  ASSUME DesktopInv, CaptureLinux
  PROVE  DesktopInv'
  <1>0. /\ TaskTypes /\ ProcTypes /\ NetTypes /\ Children /\ Absent /\ Recorded
        /\ LinuxRules /\ WindowsRoutes /\ DeviceRoutes /\ NoLoop
    BY DEF DesktopInv
  <1> USE <1>0, GoalsApart, PidFacts, CommandGoes DEF CaptureLinux, At, tasks, procs, system, ledger, Steps,
      StopPcs, Reasons
  <1>1. TaskTypes'
    BY DEF TaskTypes
  <1>2. ProcTypes'
    BY DEF ProcTypes
  <1>3. NetTypes'
    <2>1. net' \subseteq LinuxNet
      BY DEF NetTypes, LinuxNet, TunCapture
    <2> QED
      BY <2>1, SameHost DEF NetTypes
  <1>4. Children'
    BY DEF Children
  <1>5. Absent'
    BY DEF Absent, NoCoreYet, NoHelperYet, DeskDown
  <1>6. Recorded'
    BY DEF Recorded, DeskPlaced
  <1>7. LinuxRules'
    BY DEF LinuxRules, DeskDown, DeskPlaced, DeskRunning, Capturing
  <1>8. WindowsRoutes'
    BY DEF WindowsRoutes, DeskDown, DeskRunning, Linux
  <1>9. NoLoop'
    BY DEF Recorded, LinuxRules, NoLoop, Linux, DeskPlaced
  <1>10. DeviceRoutes'
    <2>1. net \cap OfDevice = {} /\ goal.tun = "external"
      BY DEF DeviceRoutes, Recorded
    <2>2. pc'.command = "record" /\ UNCHANGED <<dev, goal>> /\ (dev \/ net' \cap OfDevice = {})
      BY <2>1 DEF OfDevice
    <2> HIDE <1>0 DEF CaptureLinux
    <2> QED
      BY <2>1, <2>2 DEF DeviceRoutes, DeskRunning
  <1> QED
    BY <1>1, <1>2, <1>3, <1>4, <1>5, <1>6, <1>7, <1>8, <1>9, <1>10 DEF DesktopInv

LEMMA RouteAroundWindowsInv ==
  ASSUME DesktopInv, RouteAroundWindows
  PROVE  DesktopInv'
  <1>0. /\ TaskTypes /\ ProcTypes /\ NetTypes /\ Children /\ Absent /\ Recorded
        /\ LinuxRules /\ WindowsRoutes /\ DeviceRoutes /\ NoLoop
    BY DEF DesktopInv
  <1> USE <1>0, GoalsApart, PidFacts, CommandGoes, StartFails, Addresses DEF RouteAroundWindows, At,
      AddsAll, tasks, procs, system, ledger, Steps, StopPcs, Reasons
  <1>a. Bypass \subseteq WindowsNet /\ ResolveServers \subseteq Bypass /\ "split" \notin WindowsNet /\ "auto" \notin WindowsNet /\ "capture" \notin WindowsNet
    BY DEF TaskTypes, WindowsNet
  <1>b. ~Linux /\ Linux' = Linux /\ rows = NoFile /\ dnsGuard = dnsGuard' /\ net \cap OfDevice = {} /\ net \subseteq torn \cup stuck
    BY SameHost DEF WindowsRoutes, DeviceRoutes, OfDevice
  <1>c. net \subseteq WindowsNet \cup {"split"} /\ torn \subseteq WindowsNet /\ missed = {}
    BY <1>b DEF NetTypes
  <1>d. net' \subseteq net \cup Bypass /\ net' \cap OfDevice = {} /\ stuck \subseteq stuck'
    <2>1. Bypass \cap OfDevice = {}
      BY <1>a DEF OfDevice, WindowsNet
    <2>2. net' \subseteq net \cup Bypass /\ stuck \subseteq stuck'
      BY Failing
    <2> QED
      BY <1>b, <2>1, <2>2
  <1>1. TaskTypes'
    BY DEF TaskTypes
  <1>2. ProcTypes'
    BY DEF ProcTypes
  <1>3. NetTypes'
    <2>1. UNCHANGED <<host, torn, rows, dnsGuard, hit, missed>>
      OBVIOUS
    <2> HIDE DEF RouteAroundWindows
    <2> QED
      BY <1>a, <1>b, <1>c, <1>d, <2>1, NetStays
  <1>4. Children'
    BY DEF Children
  <1>5. Absent'
    BY DEF Absent, NoCoreYet, NoHelperYet, DeskDown
  <1>6. Recorded'
    BY DEF Recorded, DeskPlaced
  <1>7. LinuxRules'
    BY <1>b DEF LinuxRules
  <1>8. WindowsRoutes'
    <2>0. UNCHANGED <<host, torn, rows, dnsGuard, last, helper, dev, missed>> /\ pc.leave = "idle" /\ (helper # 0 => dev)
      BY <1>b DEF WindowsRoutes
    <2>1. CASE FailAt("bypass")
      <3>1. pc'.command = "stop core" /\ pc'.leave = pc.leave /\ net' \subseteq net \cup stuck' /\ stuck \subseteq stuck'
        BY <2>1, Failing
      <3> HIDE <1>0 DEF RouteAroundWindows
      <3> QED
        BY <1>b, <2>0, <3>1 DEF WindowsRoutes, DeskDown, DeskRunning
    <2>2. CASE Goto("command", "capture") /\ UNCHANGED <<goal, doc>>
      <3>1. pc'.command = "capture" /\ pc'.leave = pc.leave /\ net' = net \cup Bypass /\ UNCHANGED stuck
        BY <2>2
      <3>2. Bypass' = Bypass
        BY <2>2, SameHost
      <3> HIDE <1>0 DEF RouteAroundWindows
      <3> QED
        BY <1>b, <2>0, <3>1, <3>2 DEF WindowsRoutes, DeskDown, DeskRunning
    <2> QED
      BY <2>1, <2>2
  <1>9. NoLoop'
    BY ONLY <1>a, <1>b, <1>c, <1>d DEF NoLoop, Captures, OfDevice, WindowsNet
  <1>10. DeviceRoutes'
    BY ONLY <1>d DEF DeviceRoutes
  <1> QED
    BY <1>1, <1>2, <1>3, <1>4, <1>5, <1>6, <1>7, <1>8, <1>9, <1>10 DEF DesktopInv

LEMMA CaptureWindowsInv ==
  ASSUME DesktopInv, CaptureWindows
  PROVE  DesktopInv'
  <1>0. /\ TaskTypes /\ ProcTypes /\ NetTypes /\ Children /\ Absent /\ Recorded
        /\ LinuxRules /\ WindowsRoutes /\ DeviceRoutes /\ NoLoop
    BY DEF DesktopInv
  <1> USE <1>0, GoalsApart, PidFacts, CommandGoes, StartFails, Addresses DEF CaptureWindows, At,
      tasks, procs, system, ledger, Steps, StopPcs, Reasons
  <1>a. Bypass \subseteq WindowsNet /\ ResolveServers \subseteq Bypass /\ "split" \notin WindowsNet /\ "auto" \notin WindowsNet /\ "capture" \notin WindowsNet
    BY DEF TaskTypes, WindowsNet
  <1>b. /\ ~Linux /\ Linux' = Linux /\ rows = NoFile /\ dnsGuard = dnsGuard' /\ net \cap OfDevice = {}
        /\ net \subseteq torn \cup stuck \cup Bypass /\ Bypass \subseteq net /\ goal.tun = "external"
    BY SameHost DEF WindowsRoutes, DeviceRoutes, Recorded
  <1>c. net \subseteq WindowsNet \cup {"split"} /\ torn \subseteq WindowsNet /\ missed = {}
    BY <1>b DEF NetTypes
  <1>d. net' \subseteq net \cup {"split"} /\ (dev \/ net' \subseteq net)
    <2>1. CASE FailAt("split default")
      BY <1>b, <2>1, Failing
    <2>2. CASE dev /\ net' = net \cup {"split"}
      BY <2>2
    <2> QED
      BY <2>1, <2>2
  <1>1. TaskTypes'
    BY DEF TaskTypes
  <1>2. ProcTypes'
    BY DEF ProcTypes
  <1>3. NetTypes'
    <2>1. UNCHANGED <<host, torn, rows, dnsGuard, hit, missed>>
      OBVIOUS
    <2> HIDE DEF CaptureWindows
    <2> QED
      BY <1>a, <1>b, <1>c, <1>d, <2>1, NetStays
  <1>4. Children'
    BY DEF Children
  <1>5. Absent'
    BY DEF Absent, NoCoreYet, NoHelperYet, DeskDown
  <1>6. Recorded'
    BY DEF Recorded, DeskPlaced
  <1>7. LinuxRules'
    BY <1>b DEF LinuxRules
  <1>e. ASSUME FailAt("split default")
        PROVE  WindowsRoutes' /\ NoLoop'
    <2>1. PICK left \in FailSets(Bypass \cup (IF dev THEN {"split"} ELSE {})) :
             net' = (net \ Bypass) \cup left /\ stuck' = stuck \cup left
      BY <1>e
    <2>2. /\ left \subseteq Bypass \cup {"split"} /\ pc'.command = "stop core" /\ pc'.leave = pc.leave
          /\ UNCHANGED <<host, torn, rows, dnsGuard, last, helper, dev, missed>> /\ pc.leave = "idle"
      BY <1>e, Failing DEF WindowsRoutes
    <2>3. WindowsRoutes'
      BY ONLY <1>b, <2>1, <2>2, <1>0 DEF WindowsRoutes, DeskDown, DeskRunning
    <2>4. "split" \notin net' \ stuck' /\ {"auto", "capture"} \cap net' = {}
      BY ONLY <1>a, <1>b, <1>c, <1>d, <2>1, <2>2 DEF OfDevice, WindowsNet
    <2>5. NoLoop'
      BY ONLY <2>4 DEF NoLoop, Captures
    <2> QED
      BY ONLY <2>3, <2>5
  <1>f. ASSUME Goto("command", "record") /\ net' = net \cup {"split"} /\ stuck' = stuck \ {"split"} /\ UNCHANGED <<goal, doc>>
        PROVE  WindowsRoutes' /\ NoLoop'
    <2>1. /\ pc'.command = "record" /\ pc'.leave = pc.leave /\ pc.leave = "idle" /\ (helper # 0 => dev)
          /\ UNCHANGED <<host, torn, rows, dnsGuard, last, helper, dev, missed>>
      BY <1>b, <1>f DEF WindowsRoutes
    <2>2. Bypass' = Bypass
      BY <1>f, SameHost
    <2>3. WindowsRoutes'
      BY ONLY <1>b, <1>f, <2>1, <2>2 DEF WindowsRoutes, DeskDown, DeskRunning
    <2>4. \A e \in host.cfg : e.host \notin Loopback /\ e.key # "dns" => ResolveIps(e.host) \subseteq ResolveServers
      BY DEF TaskTypes
    <2>5. NoLoop'
      BY ONLY <1>a, <1>b, <1>f, <2>1, <2>4 DEF NoLoop
    <2> QED
      BY ONLY <2>3, <2>5
  <1>8. WindowsRoutes'
    BY <1>e, <1>f
  <1>9. NoLoop'
    BY <1>e, <1>f
  <1>10. DeviceRoutes'
    <2>1. dev \/ net' \cap OfDevice = {}
      BY <1>b, <1>d
    <2>2. UNCHANGED dev /\ (pc'.command = "stop core" \/ (pc'.command = "record" /\ UNCHANGED goal))
      OBVIOUS
    <2> HIDE <1>0 DEF CaptureWindows
    <2> QED
      BY <1>b, <2>1, <2>2 DEF DeviceRoutes, DeskRunning
  <1> QED
    BY <1>1, <1>2, <1>3, <1>4, <1>5, <1>6, <1>7, <1>8, <1>9, <1>10 DEF DesktopInv

LEMMA RecordInv ==
  ASSUME DesktopInv, Record
  PROVE  DesktopInv'
  <1>0. /\ TaskTypes /\ ProcTypes /\ NetTypes /\ Children /\ Absent /\ Recorded
        /\ LinuxRules /\ WindowsRoutes /\ DeviceRoutes /\ NoLoop
    BY DEF DesktopInv
  <1> USE <1>0, GoalsApart, PidFacts, CommandGoes, StartFails, Addresses DEF Record, At, tasks, procs, system, ledger,
      Steps, StopPcs, Reasons
  <1>1. TaskTypes'
    BY DEF TaskTypes
  <1>2. ProcTypes'
    BY DEF ProcTypes
  <1>a. Bypass \subseteq WindowsNet /\ ResolveServers \subseteq Bypass /\ "split" \notin WindowsNet /\ "no file" \notin WindowsNet
    BY DEF TaskTypes, WindowsNet
  <1>b. /\ UNCHANGED <<host, last, net, dnsGuard, escaping, missed, stuck, hit, core, helper, dev>> /\ Linux' = Linux
        /\ pc.command = "record" /\ pc'.leave = pc.leave /\ goal \in Plans /\ goal.tun = "external"
    <2>1. UNCHANGED <<host, last, net, dnsGuard, escaping, missed, stuck, hit, core, helper, dev>> /\ pc.command = "record"
      OBVIOUS
    <2>2. pc'.leave = pc.leave
      OBVIOUS
    <2>3. goal \in Plans /\ goal.tun = "external"
      BY <2>1 DEF Recorded, DeskPlaced
    <2> QED
      BY ONLY <2>1, <2>2, <2>3, SameHost
  <1>3. NetTypes'
    <2>1. rows' = rows \/ rows' \subseteq WindowsNet \cup {"split"}
      BY <1>a
    <2>2. (Linux => torn' = torn) /\ torn' \subseteq torn \cup WindowsNet
      BY <1>a
    <2> HIDE DEF Record
    <2>3. (Linux => net' \subseteq LinuxNet /\ torn' = {}) /\ (~Linux => net' \subseteq WindowsNet \cup {"split"} /\ torn' \subseteq WindowsNet /\ missed' = {})
      BY <1>b, <2>2 DEF NetTypes
    <2> QED
      BY <1>b, <2>1, <2>3, NetStays
  <1>4. Children'
    BY DEF Children
  <1>5. Absent'
    BY DEF Absent, NoCoreYet, NoHelperYet, DeskDown
  <1>6. Recorded'
    BY DEF Recorded, DeskPlaced
  <1>c. ASSUME FailAt("record") /\ torn' = (IF Linux THEN torn ELSE torn \cup Bypass) /\ UNCHANGED rows
        PROVE  LinuxRules' /\ WindowsRoutes' /\ DeviceRoutes'
    <2>1. pc'.command = "stop core" /\ goal' = FailedGoal
      BY <1>c
    <2>2. LinuxRules'
      BY ONLY <1>0, <1>b, <2>1 DEF LinuxRules, DeskDown, DeskPlaced, DeskRunning
    <2>3. WindowsRoutes'
      BY ONLY <1>0, <1>b, <1>c, <2>1 DEF WindowsRoutes, DeskDown, DeskRunning
    <2>4. DeviceRoutes'
      BY ONLY <1>0, <1>b, <2>1 DEF DeviceRoutes, DeskRunning
    <2> QED
      BY ONLY <2>2, <2>3, <2>4
  <1>d. ASSUME Goto("command", "guard") /\ rows' = (IF Linux THEN {} ELSE Bypass \cup {"split"}) /\ UNCHANGED <<goal, doc, torn>>
        PROVE  LinuxRules' /\ WindowsRoutes' /\ DeviceRoutes'
    <2>1. pc'.command = "guard" /\ UNCHANGED <<goal, doc, torn>>
      BY <1>d
    <2>2. Capturing' = Capturing /\ Bypass' = Bypass /\ ResolveServers' = ResolveServers
      <3>1. UNCHANGED uplink
        OBVIOUS
      <3> QED
        BY ONLY <1>b, <2>1, <3>1, SameHost DEF Capturing
    <2>3. LinuxRules'
      BY ONLY <1>0, <1>b, <2>1, <2>2 DEF LinuxRules, DeskDown, DeskPlaced, DeskRunning
    <2>4. WindowsRoutes'
      BY ONLY <1>0, <1>a, <1>b, <1>d, <2>1, <2>2 DEF WindowsRoutes, DeskDown, DeskRunning, NoFile
    <2>5. DeviceRoutes'
      BY ONLY <1>0, <1>b, <2>1 DEF DeviceRoutes, DeskRunning
    <2> QED
      BY ONLY <2>3, <2>4, <2>5
  <1>7. LinuxRules'
    BY <1>c, <1>d
  <1>8. WindowsRoutes'
    BY <1>c, <1>d
  <1>9. NoLoop'
    <2>1. UNCHANGED owner
      OBVIOUS
    <2> QED
      BY ONLY <1>0, <1>b, <2>1, SameHost DEF NoLoop, Captures
  <1>10. DeviceRoutes'
    BY <1>c, <1>d
  <1> QED
    BY <1>1, <1>2, <1>3, <1>4, <1>5, <1>6, <1>7, <1>8, <1>9, <1>10 DEF DesktopInv

LEMMA GuardInv ==
  ASSUME DesktopInv, Guard
  PROVE  DesktopInv'
  <1>0. /\ TaskTypes /\ ProcTypes /\ NetTypes /\ Children /\ Absent /\ Recorded
        /\ LinuxRules /\ WindowsRoutes /\ DeviceRoutes /\ NoLoop
    BY DEF DesktopInv
  <1> USE <1>0, GoalsApart, PidFacts, CommandGoes DEF Guard, At, tasks, procs, system, ledger, Steps,
      StopPcs, Reasons
  <1>1. TaskTypes'
    BY DEF TaskTypes
  <1>2. ProcTypes'
    BY DEF ProcTypes
  <1>3. NetTypes'
    BY DEF NetTypes, Linux
  <1>4. Children'
    BY DEF Children
  <1>5. Absent'
    BY DEF Absent, NoCoreYet, NoHelperYet, DeskDown
  <1>6. Recorded'
    BY DEF Recorded, DeskPlaced
  <1>7. LinuxRules'
    BY DEF Recorded, LinuxRules, DeskDown, DeskPlaced, Capturing, Linux
  <1>8. WindowsRoutes'
    <2>1. Bypass \subseteq WindowsNet /\ ResolveServers \subseteq Bypass /\ "split" \notin WindowsNet /\ "no file" \notin WindowsNet
      BY Addresses DEF TaskTypes, WindowsNet
    <2> QED
      BY <2>1, SameHost DEF WindowsRoutes, DeskDown, NoFile, Recorded
  <1>9. NoLoop'
    BY DEF NoLoop, Captures, Linux
  <1>10. DeviceRoutes'
    <2>1. goal.tun = "external" /\ pc'.command = "commit" /\ UNCHANGED <<net, dev, goal>>
      BY DEF Recorded
    <2> HIDE DEF Guard
    <2> QED
      BY <2>1 DEF DeviceRoutes, DeskRunning
  <1> QED
    BY <1>1, <1>2, <1>3, <1>4, <1>5, <1>6, <1>7, <1>8, <1>9, <1>10 DEF DesktopInv

LEMMA CommitInv ==
  ASSUME DesktopInv, Commit
  PROVE  DesktopInv'
  <1>0. /\ TaskTypes /\ ProcTypes /\ NetTypes /\ Children /\ Absent /\ Recorded
        /\ LinuxRules /\ WindowsRoutes /\ DeviceRoutes /\ NoLoop
    BY DEF DesktopInv
  <1> USE <1>0, GoalsApart, PidFacts, CommandGoes, DocWrites DEF Commit, At, tasks, procs, system, ledger,
      Steps, StopPcs, Reasons
  <1>1. TaskTypes'
    BY DEF TaskTypes
  <1>2. ProcTypes'
    BY DEF ProcTypes
  <1>3. NetTypes'
    BY DEF NetTypes, Linux
  <1>4. Children'
    <2>1. UNCHANGED <<procs, owner>> /\ doc'.tun = doc.tun
      BY DocWrites
    <2>2. owner # "down"
      BY DEF Children
    <2> HIDE DEF Commit
    <2> QED
      BY <2>1, <2>2 DEF Children
  <1>5. Absent'
    BY DEF Absent, NoCoreYet, NoHelperYet, DeskDown
  <1>6. Recorded'
    BY DEF Recorded, DeskPlaced
  <1>7. LinuxRules'
    BY DEF LinuxRules, DeskDown, DeskPlaced, DeskRunning, Capturing, Linux
  <1>8. WindowsRoutes'
    <2>1. Bypass \subseteq WindowsNet /\ ResolveServers \subseteq Bypass /\ "split" \notin WindowsNet /\ "no file" \notin WindowsNet
      BY Addresses DEF TaskTypes, WindowsNet
    <2> QED
      BY <2>1, SameHost DEF WindowsRoutes, DeskDown, DeskRunning
  <1>9. NoLoop'
    BY DEF NoLoop, Captures, Linux
  <1>10. DeviceRoutes'
    BY DEF DeviceRoutes, DeskRunning, OfDevice
  <1> QED
    BY <1>1, <1>2, <1>3, <1>4, <1>5, <1>6, <1>7, <1>8, <1>9, <1>10 DEF DesktopInv

LEMMA DaemonDiesInv ==
  ASSUME DesktopInv, DaemonDies
  PROVE  DesktopInv'
  <1>0. /\ TaskTypes /\ ProcTypes /\ NetTypes /\ Children /\ Absent /\ Recorded
        /\ LinuxRules /\ WindowsRoutes /\ DeviceRoutes /\ NoLoop
    BY DEF DesktopInv
  <1> USE <1>0, GoalsApart, PidFacts DEF DaemonDies, Without, OfDevice, tasks, procs, system, ledger, Steps,
      StopPcs, Reasons
  <1>a. owner' = "down" /\ pc' = [pc EXCEPT !.command = "idle", !.leave = "idle"] /\ last' = "boot"
    OBVIOUS
  <1>b. pc' \in [{"command", "leave"} -> Steps] /\ pc'.command = "idle" /\ pc'.leave = "idle"
    BY <1>a DEF TaskTypes
  <1>c. core' = 0 /\ helper' = 0 /\ dev' = FALSE /\ exe' = [p \in Pids |-> IF p \in {core, helper} THEN "free" ELSE exe[p]]
    OBVIOUS
  <1>d. exe' \in [Pids -> Procs] /\ \A p \in Pids : exe'[p] \notin Bins
    BY <1>c DEF ProcTypes, Children, Procs, Bins
  <1>e. dnsGuard' = {} /\ net' \subseteq net
    OBVIOUS
  <1>1. TaskTypes'
    BY <1>a, <1>b DEF TaskTypes
  <1>2. ProcTypes'
    BY <1>c, <1>d DEF ProcTypes
  <1>3. NetTypes'
    BY DEF NetTypes, Linux
  <1>4. Children'
    BY <1>a, <1>b, <1>c, <1>d DEF Children
  <1>5. Absent'
    BY <1>c DEF Absent
  <1>6. Recorded'
    BY <1>a, <1>b DEF Recorded, DeskPlaced
  <1>7. LinuxRules'
    BY <1>a, <1>b, <1>e DEF LinuxRules, DeskDown, DeskPlaced, DeskRunning
  <1>8. WindowsRoutes'
    BY <1>a, <1>b, <1>e DEF WindowsRoutes, DeskDown, DeskRunning, Linux
  <1>9. NoLoop'
    BY <1>a DEF NoLoop
  <1>10. DeviceRoutes'
    BY DEF DeviceRoutes, DeskRunning, OfDevice
  <1> QED
    BY <1>1, <1>2, <1>3, <1>4, <1>5, <1>6, <1>7, <1>8, <1>9, <1>10 DEF DesktopInv

LEMMA BootInv ==
  ASSUME DesktopInv, Boot
  PROVE  DesktopInv'
  <1>0. /\ TaskTypes /\ ProcTypes /\ NetTypes /\ Children /\ Absent /\ Recorded
        /\ LinuxRules /\ WindowsRoutes /\ DeviceRoutes /\ NoLoop
    BY DEF DesktopInv
  <1> USE <1>0, GoalsApart, PidFacts, DocWrites DEF Boot, tasks, procs, system, ledger, Steps, StopPcs, Reasons
  <1>1. TaskTypes'
    BY DEF TaskTypes
  <1>2. ProcTypes'
    BY DEF ProcTypes
  <1>3. NetTypes'
    BY DEF NetTypes, Linux
  <1>4. Children'
    BY DEF Children
  <1>5. Absent'
    BY DEF Children, Absent, NoCoreYet
  <1>6. Recorded'
    BY DEF Recorded, DeskPlaced, Children
  <1>7. LinuxRules'
    BY DEF LinuxRules, DeskDown, DeskPlaced, DeskRunning, Capturing, Linux
  <1>8. WindowsRoutes'
    BY DEF Children, WindowsRoutes, DeskDown, DeskRunning, Linux
  <1>9. NoLoop'
    BY DEF Children, NoLoop, Captures, Linux
  <1>10. DeviceRoutes'
    BY DEF DeviceRoutes, DeskRunning, OfDevice
  <1> QED
    BY <1>1, <1>2, <1>3, <1>4, <1>5, <1>6, <1>7, <1>8, <1>9, <1>10 DEF DesktopInv

LEMMA ChildDiesInv ==
  ASSUME DesktopInv, ChildDies
  PROVE  DesktopInv'
  <1>0. /\ TaskTypes /\ ProcTypes /\ NetTypes /\ Children /\ Absent /\ Recorded
        /\ LinuxRules /\ WindowsRoutes /\ DeviceRoutes /\ NoLoop
    BY DEF DesktopInv
  <1> USE <1>0, GoalsApart, PidFacts DEF ChildDies, Ends, NetAfter, OwnsDevice, Without, OfDevice,
      tasks, procs, system, ledger, Steps, StopPcs, Reasons
  <1> PICK p \in {core, helper} \ {0} : Ends(p) /\ net' = NetAfter(p)
    OBVIOUS
  <1>a. p \in Pids /\ \A q \in Pids : q # p => exe'[q] = exe[q]
    BY DEF ProcTypes
  <1>b. exe' \in [Pids -> Procs] /\ exe'[p] = "free"
    BY <1>a DEF ProcTypes, Procs
  <1>c. (core' = core \/ core' = 0) /\ (helper' = helper \/ helper' = 0) /\ (core' # 0 => core' # p) /\ (helper' # 0 => helper' # p)
    OBVIOUS
  <1>d. (dev' => dev) /\ (dev' => p # (IF doc.tun = "native" THEN core ELSE helper))
    OBVIOUS
  <1>1. TaskTypes'
    BY DEF TaskTypes
  <1>2. ProcTypes'
    BY <1>b, <1>c DEF ProcTypes
  <1>3. NetTypes'
    BY DEF NetTypes, Linux
  <1>4. Children'
    <2>1. \A q \in Pids : exe'[q] \in Bins => q \in {core', helper'}
      BY <1>a, <1>b DEF Children, Bins
    <2>2. core' # 0 => core' = corePid' /\ exe'[core'] \in CoreBins
      BY <1>a, <1>c DEF Children
    <2>3. helper' # 0 => helper' = helperPid' /\ exe'[helper'] \in HelperBins
      BY <1>a, <1>c DEF Children
    <2>4. dev' => IF doc'.tun = "native" THEN core' # 0 ELSE helper' # 0
      BY <1>d DEF Children
    <2> QED
      BY <2>1, <2>2, <2>3, <2>4 DEF Children
  <1>5. Absent'
    BY DEF Absent, NoCoreYet, NoHelperYet, DeskDown
  <1>6. Recorded'
    BY DEF Recorded, DeskPlaced
  <1>7. LinuxRules'
    <2>1. /\ net' \subseteq net /\ net \ {"table", "split"} \subseteq net'
          /\ ((dev' <=> dev) /\ net' = net) \/ (~dev' /\ net' = net \ {"table", "split"})
          /\ UNCHANGED <<host, pc, goal, last, rows, dnsGuard, escaping, missed, stuck>>
      OBVIOUS
    <2>2. {"table", "split"} \cap (EscapeRules \cup {"capture", "exclude", "auto"}) = {}
      BY DEF EscapeRules
    <2>3. /\ EscapeRules \subseteq net \cup missed => EscapeRules \subseteq net' \cup missed
          /\ "auto" \in net => "auto" \in net'
      BY <2>1, <2>2
    <2>4. /\ net \subseteq Capturing \cup stuck => net' \subseteq Capturing' \cup stuck'
          /\ Capturing \subseteq net \cup missed => Capturing' \subseteq net' \cup missed'
      BY <2>1, <2>2 DEF Capturing
    <2>5. core' # 0 => core # 0
      BY <1>c
    <2> HIDE DEF ChildDies, Ends, NetAfter
    <2> QED
      BY <2>1, <2>3, <2>4, <2>5 DEF LinuxRules, DeskDown, DeskPlaced, DeskRunning, Linux
  <1>8. WindowsRoutes'
    <2>1. net' = net \/ (net' = net \ {"table", "split"} /\ dev' = FALSE)
      OBVIOUS
    <2>2. dev' => dev
      BY <1>d
    <2>3. "split" \notin WindowsNet /\ "table" \notin WindowsNet
      BY DEF WindowsNet
    <2>4. DeskPlaced /\ goal.tun = "external" => (helper' # 0 /\ dev => dev')
      BY DEF Recorded
    <2>5. pc.command \in {"escape", "capture", "record", "guard"} \/ (DeskRunning /\ goal.tun = "external") => DeskPlaced /\ goal.tun = "external"
      BY DEF Recorded, DeskPlaced, DeskRunning
    <2> QED
      <3>1. /\ net' \subseteq net /\ UNCHANGED <<host, uplink, pc, goal, last, rows, torn, stuck, dnsGuard>>
            /\ dev' /\ "split" \in net => "split" \in net'
        BY <2>1
      <3>2. \A S : S \subseteq net /\ S \subseteq WindowsNet => S \subseteq net'
        BY <2>1, <2>3
      <3>3. ~Linux => Bypass \subseteq WindowsNet /\ ResolveServers \subseteq WindowsNet
        BY Addresses DEF TaskTypes
      <3>4. ~Linux /\ rows # NoFile => rows \ {"split"} \subseteq WindowsNet
        BY DEF NetTypes
      <3>5. helper' # 0 => helper # 0
        BY <1>c
      <3> HIDE DEF ChildDies, Ends, NetAfter
      <3> QED
        BY <2>2, <2>4, <2>5, <3>1, <3>2, <3>3, <3>4, <3>5, SameHost DEF WindowsRoutes, DeskDown,
            DeskRunning, Linux
  <1>9. NoLoop'
    <2>1. net' = net \/ net' = net \ {"table", "split"}
      OBVIOUS
    <2>2. "split" \notin WindowsNet /\ "table" \notin WindowsNet /\ "table" \notin EscapeRules /\ "split" \notin EscapeRules
      BY DEF WindowsNet, EscapeRules
    <2>3. \A h : ResolveIps(h) \subseteq WindowsNet
      BY DEF ResolveIps, Literal, WindowsNet
    <2> QED
      BY <1>c, <2>1, <2>2, <2>3, SameHost DEF NoLoop, Captures
  <1>10. DeviceRoutes'
    BY DEF DeviceRoutes, DeskRunning, OfDevice
  <1> QED
    BY <1>1, <1>2, <1>3, <1>4, <1>5, <1>6, <1>7, <1>8, <1>9, <1>10 DEF DesktopInv

LEMMA RecycleInv ==
  ASSUME DesktopInv, Recycle
  PROVE  DesktopInv'
  <1>0. /\ TaskTypes /\ ProcTypes /\ NetTypes /\ Children /\ Absent /\ Recorded
        /\ LinuxRules /\ WindowsRoutes /\ DeviceRoutes /\ NoLoop
    BY DEF DesktopInv
  <1> USE <1>0, GoalsApart, PidFacts DEF Recycle, tasks, procs, system, ledger, Steps, StopPcs, Reasons
  <1> PICK p \in Pids : exe[p] \in {"free", "other"} /\ exe' = [exe EXCEPT ![p] = IF @ = "free" THEN "other" ELSE "free"]
    OBVIOUS
  <1>a. exe' \in [Pids -> Procs] /\ exe'[p] \in {"free", "other"} /\ \A q \in Pids : q # p => exe'[q] = exe[q]
    BY DEF ProcTypes, Procs
  <1>b. UNCHANGED <<host, uplink, owner, pc, goal, last, doc, core, helper, corePid, helperPid, dev, net, rows, dnsGuard, escaping>>
    OBVIOUS
  <1>1. TaskTypes'
    BY DEF TaskTypes
  <1>2. ProcTypes'
    BY <1>a DEF ProcTypes
  <1>3. NetTypes'
    BY DEF NetTypes, Linux
  <1>4. Children'
    <2>1. core # 0 => core # p
      BY DEF Children, CoreBins
    <2>2. helper # 0 => helper # p
      BY DEF Children, HelperBins
    <2> QED
      BY <1>a, <1>b, <2>1, <2>2 DEF Children, Bins
  <1>5. Absent'
    BY DEF Absent, NoCoreYet, NoHelperYet, DeskDown
  <1>6. Recorded'
    BY DEF Recorded, DeskPlaced
  <1>7. LinuxRules'
    BY <1>b DEF LinuxRules, DeskDown, DeskPlaced, DeskRunning, Capturing, Linux
  <1>8. WindowsRoutes'
    BY <1>b, SameHost DEF WindowsRoutes, DeskDown, DeskRunning
  <1>9. NoLoop'
    BY <1>b, SameHost DEF NoLoop, Captures
  <1>10. DeviceRoutes'
    BY DEF DeviceRoutes, DeskRunning, OfDevice
  <1> QED
    BY <1>1, <1>2, <1>3, <1>4, <1>5, <1>6, <1>7, <1>8, <1>9, <1>10 DEF DesktopInv

LEMMA UplinkChangesInv ==
  ASSUME DesktopInv, UplinkChanges
  PROVE  DesktopInv'
  <1>0. /\ TaskTypes /\ ProcTypes /\ NetTypes /\ Children /\ Absent /\ Recorded
        /\ LinuxRules /\ WindowsRoutes /\ DeviceRoutes /\ NoLoop
    BY DEF DesktopInv
  <1> USE <1>0, GoalsApart, PidFacts DEF UplinkChanges, tasks, procs, system, ledger, Steps, StopPcs, Reasons
  <1>1. TaskTypes'
    BY DEF TaskTypes
  <1>2. ProcTypes'
    BY DEF ProcTypes
  <1>3. NetTypes'
    BY DEF NetTypes, Linux
  <1>4. Children'
    BY DEF Children
  <1>5. Absent'
    BY DEF Absent, NoCoreYet, NoHelperYet, DeskDown
  <1>6. Recorded'
    BY DEF Recorded, DeskPlaced
  <1>7. LinuxRules'
    BY DEF LinuxRules, DeskDown, DeskPlaced, DeskRunning, Linux
  <1>8. WindowsRoutes'
    BY SameHost DEF WindowsRoutes, DeskDown, DeskRunning
  <1>9. NoLoop'
    BY DEF NoLoop, Captures, Linux
  <1>10. DeviceRoutes'
    BY DEF DeviceRoutes, DeskRunning, OfDevice
  <1> QED
    BY <1>1, <1>2, <1>3, <1>4, <1>5, <1>6, <1>7, <1>8, <1>9, <1>10 DEF DesktopInv

(* Every step of the owner and of the world.                                *)
LEMMA DesktopStep == DesktopInv /\ [DesktopNext]_desktopVars => DesktopInv'
  <1> SUFFICES ASSUME DesktopInv, [DesktopNext]_desktopVars PROVE DesktopInv'
    OBVIOUS
  <1>1. CASE UNCHANGED desktopVars
    <2>1. UNCHANGED <<host, uplink, owner, tasks, doc, procs, system, escaping, ledger, hit>>
      BY <1>1 DEF desktopVars
    <2>2. TaskTypes' /\ ProcTypes' /\ NetTypes'
      BY <2>1, SameHost DEF DesktopInv, TaskTypes, ProcTypes, NetTypes, tasks, procs, system, ledger
    <2>3. Children' /\ Absent' /\ Recorded'
      BY <2>1 DEF DesktopInv, Children, Absent, NoCoreYet, NoHelperYet, DeskDown, Recorded,
          DeskPlaced, tasks, procs, system
    <2>4. LinuxRules'
      BY <2>1, SameHost DEF DesktopInv, LinuxRules, DeskDown, DeskRunning, DeskPlaced, Capturing,
          tasks, procs, system, ledger
    <2>5. WindowsRoutes'
      BY <2>1, SameHost DEF DesktopInv, WindowsRoutes, DeskDown, DeskRunning, tasks, procs, system, ledger
    <2>6. NoLoop'
      BY <2>1, SameHost DEF DesktopInv, NoLoop, Captures, tasks, procs, system, ledger
    <2>7. DeviceRoutes'
      BY <2>1 DEF DesktopInv, DeviceRoutes, DeskRunning, tasks, procs, system
    <2> QED
      BY <2>2, <2>3, <2>4, <2>5, <2>6, <2>7 DEF DesktopInv
  <1>2. CASE DesktopNext
    <2>1. CASE \E g \in Plans \cup {StopGoal} : BeginPath(g)
      BY <2>1, BeginPathInv
    <2>2. CASE Leave \/ Boot
      BY <2>2, LeaveInv, BootInv
    <2>3. CASE StartSteps
      BY <2>3, PrepareInv, SpawnInv, VerifyInv, SpawnHelperInv, TunComesUpInv, AwaitTimesOutInv,
          RouteAroundLinuxInv,
         CaptureLinuxInv, RouteAroundWindowsInv, CaptureWindowsInv, RecordInv, GuardInv, CommitInv DEF StartSteps
    <2>4. CASE World
      BY <2>4, DaemonDiesInv, ChildDiesInv, RecycleInv, UplinkChangesInv DEF World
    <2>5. CASE StopSteps("command")
      BY <2>5, StopCoreByCommand, StopRoutesByCommand, StopAutoByCommand, StopHelperByCommand,
          StopDocByCommand DEF StopSteps
    <2>6. CASE StopSteps("leave")
      BY <2>6, StopCoreByLeave, StopRoutesByLeave, StopAutoByLeave, StopHelperByLeave,
          StopDocByLeave DEF StopSteps
    <2> QED
      BY <1>2, <2>1, <2>2, <2>3, <2>4, <2>5, <2>6 DEF DesktopNext
  <1> QED
    BY <1>1, <1>2

(* What a stop, or a failed start, leaves: no process, no device and no route of its own. *)
LEMMA NothingIsLeft == DesktopInv => StopLeavesNothing
  <1> SUFFICES ASSUME DesktopInv, owner = "up", pc.command = "idle", pc.leave = "idle", last = "down"
               PROVE  net \subseteq torn \cup stuck /\ dnsGuard = {} /\ rows = NoFile /\ core = 0 /\ helper = 0 /\ ~dev
    BY DEF StopLeavesNothing, Quiet
  <1>1. core = 0 /\ helper = 0
    BY DEF DesktopInv, Absent, NoCoreYet, NoHelperYet, DeskDown
  <1>2. ~dev
    BY <1>1 DEF DesktopInv, Children
  <1>3. "split" \notin net
    BY <1>2 DEF DesktopInv, DeviceRoutes, OfDevice
  <1>4. ASSUME Linux PROVE net \subseteq torn \cup stuck /\ dnsGuard = {} /\ rows = NoFile
    BY <1>4 DEF DesktopInv, LinuxRules, DeskDown
  <1>5. ASSUME ~Linux PROVE net \subseteq torn \cup stuck /\ dnsGuard = {} /\ rows = NoFile
    BY <1>3, <1>5 DEF DesktopInv, WindowsRoutes, DeskDown
  <1> QED
    BY <1>1, <1>2, <1>4, <1>5

(* The core's pid file and the helper's never name one process, so a core that is found
   running is the owner's child; what is routed is then what the step before left. *)
LEMMA WholeWhenHealthy == DesktopInv => HealthyIsWhole
  <1> SUFFICES ASSUME DesktopInv, owner = "up", pc.command = "idle", pc.leave = "idle", last = "up", Healthy
               PROVE  core = corePid /\ (doc.helper # "none" => helper = helperPid) /\ (~Linux => missed = {})
                      /\ Wanted \ missed \subseteq net /\ net \subseteq Wanted \cup torn \cup stuck
    BY DEF HealthyIsWhole, Quiet
  <1>1. corePid \in Pids /\ exe[corePid] \in CoreBins
    BY DEF DesktopInv, ProcTypes, Healthy
  <1>2. corePid \in {core, helper} /\ (helper # 0 => helper = helperPid) /\ corePid # helperPid
    BY <1>1, PidFacts DEF DesktopInv, Children, CoreBins, Bins
  <1>3. core = corePid /\ core # 0
    BY <1>1, <1>2, PidFacts
  <1>4. goal \in Plans /\ doc.tun = goal.tun /\ doc.helper = goal.helper
    BY DEF DesktopInv, Recorded, DeskPlaced
  <1>5. ASSUME doc.helper # "none"
        PROVE  helper = helperPid /\ helper # 0
    <2>1. helperPid \in Pids /\ exe[helperPid] = doc.helper /\ doc.helper \in HelperBins
      BY <1>5 DEF DesktopInv, TaskTypes, DeskDocs, ProcTypes, Healthy
    <2>2. helperPid \in {core, helper}
      BY <2>1 DEF DesktopInv, Children, HelperBins, Bins
    <2> QED
      BY <1>2, <1>3, <2>1, <2>2, PidFacts
  <1>6. doc.tun \in {"none", "native", "external"} /\ (doc.tun = "external" => helper # 0)
    BY <1>4, <1>5, GoalsApart DEF HelperBins
  <1>7. ASSUME Linux
        PROVE  (~Linux => missed = {}) /\ Wanted \ missed \subseteq net /\ net \subseteq Wanted \cup torn \cup stuck
    <2>1. CASE doc.tun = "none"
      BY <1>4, <1>7, <2>1 DEF DesktopInv, LinuxRules, DeskRunning, Wanted
    <2>2. CASE doc.tun = "native"
      BY <1>3, <1>4, <1>7, <2>2 DEF DesktopInv, LinuxRules, DeskRunning, Wanted
    <2>3. CASE doc.tun = "external"
      BY <1>4, <1>7, <2>3 DEF DesktopInv, LinuxRules, DeskRunning, Wanted, Capturing
    <2> QED
      BY <1>6, <1>7, <2>1, <2>2, <2>3
  <1>8. ASSUME ~Linux
        PROVE  (~Linux => missed = {}) /\ Wanted \ missed \subseteq net /\ net \subseteq Wanted \cup torn \cup stuck
    <2>1. CASE doc.tun # "external"
      <3>1. net \cap OfDevice = {} /\ rows = NoFile /\ net \subseteq torn \cup stuck \cup {"split"}
        BY <1>4, <1>8, <2>1 DEF DesktopInv, WindowsRoutes, DeviceRoutes, DeskRunning
      <3>2. Wanted = {}
        BY <1>6, <1>8, <2>1 DEF Wanted
      <3> QED
        BY <1>8, <3>1, <3>2 DEF OfDevice, DesktopInv, NetTypes
    <2>2. CASE doc.tun = "external"
      <3>1. Wanted = rows
        BY <1>8, <2>2 DEF Wanted
      <3>2. helper # 0 /\ dev
        BY <1>4, <1>6, <1>8, <2>2 DEF DesktopInv, WindowsRoutes, DeskRunning
      <3>3. rows \subseteq net /\ net \subseteq torn \cup stuck \cup rows
        BY <1>4, <1>8, <2>2, <3>2 DEF DesktopInv, WindowsRoutes, DeskRunning
      <3> QED
        BY <1>8, <3>1, <3>3 DEF DesktopInv, NetTypes
    <2> QED
      BY <2>1, <2>2
  <1> QED
    BY <1>3, <1>5, <1>7, <1>8

(* On a desktop, whatever the processes, plans and configs, and wherever the owner, one of its
   children or the connection to it goes: a stop, or a start that failed, leaves nothing of a
   data path but what a command of the stop failed to take and the Windows routes of a start that
   crashed before it had recorded them or could not write the record, never signals a stranger by
   the tun helper's pid file, and says why it failed (StopDataPath, start_proxy's rollback). *)
THEOREM StopsAreClean == DesktopSpec => []StopIsClean
  <1>1. DesktopInv => SparesStrangers
    BY DEF DesktopInv, NetTypes, SparesStrangers
  <1>2. DesktopInv => FailureIsReported
    BY DEF DesktopInv, Recorded, FailureIsReported, Quiet
  <1>3. DesktopInv => StopIsClean
    BY <1>1, <1>2, NothingIsLeft DEF StopIsClean
  <1> QED
    BY DesktopInitInv, DesktopStep, <1>3, PTL DEF DesktopSpec

(* ... and a path that passes for healthy is the owner's own and routed as its plan wants it,
   but for what commands of its start failed to add, on Windows none, what commands before it
   failed to take and the Windows routes no record names; the core's dials stay out of the tun
   at every step of a start or a stop, unless the command that adds their rule failed, DNS stays
   in it while it is guarded, and the uplink is never the tun.                               *)
THEOREM PathStaysSound == DesktopSpec => []PathIsSound
  <1>1. DesktopInv => PathTypeOK
    BY DEF DesktopInv, TaskTypes, ProcTypes, Children, DeskDocs, PathTypeOK
  <1>2. DesktopInv => DnsStaysInTun
    BY GuardDecides DEF DesktopInv, NetTypes
  <1>3. DesktopInv => UplinkIsPhysical
    BY Addresses DEF DesktopInv, TaskTypes, UplinkIsPhysical
  <1>4. DesktopInv => PathIsSound
    BY <1>1, <1>2, <1>3, WholeWhenHealthy DEF DesktopInv, PathIsSound
  <1> QED
    BY DesktopInitInv, DesktopStep, <1>4, PTL DEF DesktopSpec

-----------------------------------------------------------------------------
(* What holds of the data path on Android at each step of a command *)

Engines == ABins \cup {"native"}
AndroidGoals == {StopPlan} \cup {PlanOf(s) : s \in [tun : Engines, filter : AFilters]}
AndroidDocs == [run : {"Stopped", "Connecting", "Failed"}, tun : Engines \cup {"none"}, force : BOOLEAN]
Fixed == {"listener", "listener2", "guards", "mark", "mark6", "rule", "rule2", "table", "table2", "reject6"}
Traces == Fixed \cup {"mss", "old mss", "auto", "watcher", "orphan"}

AndroidTypes ==
    /\ aUp \in BOOLEAN /\ aPc \in ASteps /\ aGoal \in AndroidGoals /\ aFailed \in BOOLEAN
    /\ aLast \in {"boot", "up", "down"} /\ aTries \in BOOLEAN
    /\ aDoc \in AndroidDocs
    /\ aCore \in {"none", "native", "socks"} /\ aHelper \in [Slots -> ABins \cup {"none"}]
    /\ aCorePid \in BOOLEAN /\ aHelperPid \subseteq Slots /\ aIface \subseteq Slots
    /\ aDev \subseteq Slots /\ (aPc # "stop helpers" => aDev \subseteq aIface)
    /\ aNet \subseteq Traces /\ aSet \in [tun : Engines, filter : AFilters]

NoHelpers == aHelper = [s \in Slots |-> "none"]

(* What runs is on file, and of the engine in the document; a device is of what runs. *)
OnFile ==
    /\ aCore # "none" => aCorePid
    /\ aCore = "native" => aDoc.tun = "native"
    /\ aCore = "socks" => aDoc.tun \in ABins
    /\ \A s \in Slots : aHelper[s] # "none" => s \in aHelperPid /\ aHelper[s] = aDoc.tun
    /\ \A s \in aDev : aCore = "native" \/ aHelper[s] # "none"
    /\ "mss" \in aNet => "main" \in aIface
    /\ "old mss" \in aNet => "old mss" \in aStuck

(* Nothing outlives the daemon, and a rollback is one of a failed start. *)
DownOrFailed ==
    /\ ~aUp => aPc = "idle" /\ ~aFailed /\ aLast = "boot" /\ aCore = "none" /\ NoHelpers /\ aDev = {}
    /\ aFailed => aDoc.run = "Failed" /\ aGoal = StopPlan

(* A stop, from what the last command left to nothing but rules of a core that died and
   what a command failed to take. *)
NoAndroidPath == NoHelpers /\ aDev = {} /\ aNet \subseteq {"auto"} \cup aStuck
StopProgress ==
    /\ aPc \in {"stop rules", "stop helpers", "stop doc", "prepare"} \/ (aPc = "idle" /\ aLast = "down") =>
          aCore = "none" /\ "watcher" \notin aNet
    /\ aPc = "stop helpers" => aIface = {} /\ aNet \subseteq {"auto", "orphan"} \cup aStuck
    /\ aPc \in {"stop doc", "prepare"} \/ (aPc = "idle" /\ aLast = "down") => NoAndroidPath /\ aIface = {} /\ aHelperPid = {}

(* A start, and what it leaves: the engine's own tun, or helpers and routes. *)
AndroidUp == aPc = "idle" /\ aLast = "up"
AndroidPlaced == aPc \in {"spawn", "helpers", "route", "verify", "listen", "guard", "commit"} \/ AndroidUp
Fronted == aPc \in {"route", "verify", "listen", "guard", "commit"} \/ AndroidUp
StartProgress ==
    /\ aPc = "prepare" => aGoal # StopPlan
    /\ AndroidPlaced => aGoal # StopPlan /\ aDoc = DocOf(aGoal, "Connecting")
    /\ aPc = "spawn" => aCore = "none" /\ NoAndroidPath /\ aHelperPid = {} /\ (~Native(aGoal) => aIface = {})
    /\ aPc = "helpers" => NoAndroidPath /\ aHelperPid = {} /\ aIface = {}
    /\ aPc \in {"helpers", "route"} => ~Native(aGoal)
    /\ aPc = "listen" => Native(aGoal)
NativeProgress ==
    AndroidPlaced /\ Native(aGoal) =>
        /\ NoHelpers /\ aHelperPid = {}
        /\ aPc = "verify" => NoAndroidPath
        /\ (aPc \in {"listen", "guard", "commit"} \/ AndroidUp) /\ aCore # "none" => aDev = aIface /\ "auto" \in aNet
FrontedProgress ==
    Fronted /\ ~Native(aGoal) =>
        /\ aIface = HelpersOf(aDoc)
        /\ \A s \in HelpersOf(aDoc) : aHelper[s] # "none" => s \in aDev
        /\ aPc # "route" => RoutingOf(aGoal) \ (TablesOf(aDev) \cup aMissed) \subseteq aNet /\ aMarked = aGoal.filter
Guarded ==
    /\ aPc \in {"guard", "commit"} \/ AndroidUp => "listener" \in aNet \cup aMissed
    /\ aPc = "commit" \/ AndroidUp => "guards" \in aNet \cup aMissed /\ "watcher" \in aNet

AndroidInv == AndroidTypes /\ OnFile /\ DownOrFailed /\ StopProgress /\ StartProgress
              /\ NativeProgress /\ FrontedProgress /\ Guarded

-----------------------------------------------------------------------------
LEMMA EnginesApart ==
  /\ "native" \notin ABins /\ "stop" \notin Engines /\ "none" \notin Engines /\ "none" \notin ABins
  /\ \A rec : /\ HelpersOf(rec) \subseteq Slots /\ (rec.tun \in ABins => "main" \in HelpersOf(rec))
              /\ rec.tun \notin ABins => HelpersOf(rec) = {}
  <1>1. /\ "native" \notin ABins /\ "stop" \notin Engines /\ "none" \notin Engines /\ "none" \notin ABins
    BY AndroidConstants DEF Engines
  <1>2. \A rec : /\ HelpersOf(rec) \subseteq Slots /\ (rec.tun \in ABins => "main" \in HelpersOf(rec))
                 /\ rec.tun \notin ABins => HelpersOf(rec) = {}
    BY SMT DEF HelpersOf, Slots
  <1> QED
    BY <1>1, <1>2

(* What a command brings up is a plan of some saved settings.               *)
LEMMA GoalFacts ==
  ASSUME AndroidInv
  PROVE  /\ PlanOf(aSet) \in AndroidGoals /\ PlanOf(aSet) # StopPlan /\ StopPlan \in AndroidGoals /\ StopPlan.tun = "stop"
         /\ aGoal # StopPlan => /\ aGoal.tun \in Engines /\ aGoal.force \in BOOLEAN /\ aGoal.filter \in AFilters
                               /\ aGoal.force = (aGoal.filter.force # {})
                               /\ aGoal.tun # "stop" /\ (~Native(aGoal) => aGoal.tun \in ABins)
         /\ aGoal.tun = "stop" => aGoal = StopPlan
  <1>1. \A s \in [tun : Engines, filter : AFilters] :
           /\ PlanOf(s).tun \in Engines /\ PlanOf(s).force \in BOOLEAN /\ PlanOf(s).filter \in AFilters
           /\ PlanOf(s).force = (PlanOf(s).filter.force # {}) /\ PlanOf(s).tun # "stop"
    BY EnginesApart DEF PlanOf
  <1>2. StopPlan.tun = "stop" /\ aSet \in [tun : Engines, filter : AFilters]
    BY DEF StopPlan, AndroidInv, AndroidTypes
  <1>3. \A s \in [tun : Engines, filter : AFilters] : PlanOf(s) # StopPlan
    BY <1>1, <1>2
  <1>4. aGoal = StopPlan \/ \E s \in [tun : Engines, filter : AFilters] : aGoal = PlanOf(s)
    BY DEF AndroidInv, AndroidTypes, AndroidGoals
  <1>5. PlanOf(aSet) \in AndroidGoals /\ StopPlan \in AndroidGoals
    BY <1>2 DEF AndroidGoals
  <1> QED
    BY <1>1, <1>2, <1>3, <1>4, <1>5 DEF Native, Engines

(* The documents that a start and a stop write.                             *)
LEMMA DocFacts ==
  ASSUME AndroidInv
  PROVE  /\ aDoc.tun \in Engines \cup {"none"} /\ aDoc.force \in BOOLEAN
         /\ StoppedDoc \in AndroidDocs /\ StoppedDoc.tun = "none" /\ StoppedDoc.run = "Stopped"
         /\ aGoal # StopPlan => LET rec == DocOf(aGoal, "Connecting") IN
               rec \in AndroidDocs /\ rec.tun = aGoal.tun /\ rec.force = aGoal.force /\ rec.run = "Connecting"
  <1>1. aDoc \in AndroidDocs
    BY DEF AndroidInv, AndroidTypes
  <1>2. aDoc.tun \in Engines \cup {"none"} /\ aDoc.force \in BOOLEAN
    BY <1>1 DEF AndroidDocs
  <1>3. StoppedDoc \in AndroidDocs /\ StoppedDoc.tun = "none" /\ StoppedDoc.run = "Stopped"
    BY DEF AndroidDocs, StoppedDoc
  <1>4. ASSUME aGoal # StopPlan
        PROVE  LET rec == DocOf(aGoal, "Connecting") IN
               rec \in AndroidDocs /\ rec.tun = aGoal.tun /\ rec.force = aGoal.force /\ rec.run = "Connecting"
    BY <1>4, GoalFacts DEF AndroidDocs, DocOf
  <1> QED
    BY <1>2, <1>3, <1>4

(* A start that fails leaves its rollback to do.                            *)
LEMMA FailFacts ==
  ASSUME AndroidInv, FailStart
  PROVE  /\ aPc' = "stop core" /\ aGoal' = StopPlan /\ aGoal' \in AndroidGoals /\ aFailed' = TRUE
         /\ aDoc' \in AndroidDocs /\ aDoc'.run = "Failed" /\ aDoc'.tun = aDoc.tun /\ aDoc'.force = aDoc.force
  <1>1. aDoc \in AndroidDocs
    BY DEF AndroidInv, AndroidTypes
  <1>2. aDoc' = [aDoc EXCEPT !.run = "Failed"]
    BY DEF FailStart
  <1>3. aDoc' \in AndroidDocs /\ aDoc'.run = "Failed" /\ aDoc'.tun = aDoc.tun /\ aDoc'.force = aDoc.force
    BY <1>1, <1>2 DEF AndroidDocs
  <1> QED
    BY <1>3, GoalFacts DEF FailStart

(* During a start, and while what it left runs, the document is the plan's. *)
LEMMA PlacedFacts ==
  ASSUME AndroidInv, AndroidPlaced \/ aPc = "prepare"
  PROVE  /\ aGoal # StopPlan /\ aGoal.tun \in Engines /\ aGoal.force \in BOOLEAN /\ aGoal.filter \in AFilters
         /\ aGoal.force = (aGoal.filter.force # {}) /\ (~Native(aGoal) => aGoal.tun \in ABins)
         /\ AndroidPlaced => /\ aDoc.tun = aGoal.tun /\ aDoc.force = aGoal.force /\ aDoc.run = "Connecting"
                             /\ HelpersOf(aDoc) = HelpersOf(aGoal)
  BY GoalFacts, DocFacts DEF AndroidInv, StartProgress, HelpersOf

(* What commands fail to do is among what they are to do.                   *)
LEMMA SomeFail == \A pieces : \A left \in AFailSets(pieces) : left \subseteq pieces
  BY DEF AFailSets

LEMMA AndroidInitInv == AndroidInit => AndroidInv
  <1> SUFFICES ASSUME AndroidInit PROVE AndroidInv
    OBVIOUS
  <1> USE DEF AndroidInit, StoppedDoc, StopPlan, NoFilter
  <1>1. AndroidTypes
    BY DEF AndroidTypes, ASteps, AndroidGoals, AndroidDocs, Engines, Traces, Slots
  <1>2. OnFile /\ DownOrFailed
    BY DEF OnFile, DownOrFailed, NoHelpers
  <1>3. StopProgress /\ StartProgress
    BY DEF StopProgress, StartProgress, AndroidPlaced, AndroidUp
  <1>4. NativeProgress /\ FrontedProgress /\ Guarded
    BY DEF NativeProgress, FrontedProgress, Fronted, Guarded, AndroidPlaced, AndroidUp
  <1> QED
    BY <1>1, <1>2, <1>3, <1>4 DEF AndroidInv

LEMMA CommandStartInv ==
  ASSUME AndroidInv, Command(PlanOf(aSet))
  PROVE  AndroidInv'
  <1>0. AndroidTypes /\ OnFile /\ DownOrFailed /\ StopProgress /\ StartProgress /\ NativeProgress /\ FrontedProgress /\ Guarded
    BY DEF AndroidInv
  <1> USE <1>0, GoalFacts DEF Command, aProcs, aRules, aLedger
  <1>1. AndroidTypes'
    BY DEF AndroidTypes, ASteps
  <1>2. OnFile'
    BY DEF OnFile, Native
  <1>3. DownOrFailed'
    BY DEF DownOrFailed
  <1>4. StopProgress'
    BY DEF StopProgress
  <1>5. StartProgress'
    BY DEF AndroidPlaced, StartProgress, AndroidUp, Native
  <1>6. NativeProgress'
    BY DEF NativeProgress, AndroidUp, AndroidPlaced
  <1>7. FrontedProgress'
    BY DEF FrontedProgress, AndroidUp, Fronted, RoutingOf
  <1>8. Guarded'
    BY DEF Guarded, AndroidUp, RoutingOf
  <1> QED
    BY <1>1, <1>2, <1>3, <1>4, <1>5, <1>6, <1>7, <1>8 DEF AndroidInv

LEMMA CommandStopInv ==
  ASSUME AndroidInv, Command(StopPlan)
  PROVE  AndroidInv'
  <1>0. AndroidTypes /\ OnFile /\ DownOrFailed /\ StopProgress /\ StartProgress /\ NativeProgress /\ FrontedProgress /\ Guarded
    BY DEF AndroidInv
  <1> USE <1>0, GoalFacts DEF Command, aProcs, aRules, aLedger
  <1>1. AndroidTypes'
    BY DEF AndroidTypes, ASteps
  <1>2. OnFile'
    BY DEF OnFile, Native
  <1>3. DownOrFailed'
    BY DEF DownOrFailed
  <1>4. StopProgress'
    BY DEF StopProgress
  <1>5. StartProgress'
    BY DEF AndroidPlaced, StartProgress, AndroidUp, Native
  <1>6. NativeProgress'
    BY DEF NativeProgress, AndroidUp, AndroidPlaced
  <1>7. FrontedProgress'
    BY DEF FrontedProgress, AndroidUp, Fronted, RoutingOf
  <1>8. Guarded'
    BY DEF Guarded, AndroidUp, RoutingOf
  <1> QED
    BY <1>1, <1>2, <1>3, <1>4, <1>5, <1>6, <1>7, <1>8 DEF AndroidInv

LEMMA EditInv ==
  ASSUME AndroidInv, Edit
  PROVE  AndroidInv'
  <1>0. AndroidTypes /\ OnFile /\ DownOrFailed /\ StopProgress /\ StartProgress /\ NativeProgress /\ FrontedProgress /\ Guarded
    BY DEF AndroidInv
  <1> USE <1>0 DEF Edit, aProcs, aRules, aLedger, aCmd
  <1>1. AndroidTypes'
    BY DEF AndroidTypes, Engines
  <1>2. OnFile'
    BY DEF OnFile, Native
  <1>3. DownOrFailed'
    BY DEF DownOrFailed, NoHelpers
  <1>4. StopProgress'
    BY DEF StopProgress, NoAndroidPath, NoHelpers
  <1>5. StartProgress'
    BY DEF StartProgress, NoAndroidPath, AndroidUp, AndroidPlaced, NoHelpers, Native
  <1>6. NativeProgress'
    BY DEF NativeProgress, NoHelpers, NoAndroidPath, AndroidUp, AndroidPlaced, Native
  <1>7. FrontedProgress'
    BY DEF FrontedProgress, AndroidUp, Fronted, RoutingOf
  <1>8. Guarded'
    BY DEF Guarded, AndroidUp, RoutingOf
  <1> QED
    BY <1>1, <1>2, <1>3, <1>4, <1>5, <1>6, <1>7, <1>8 DEF AndroidInv

LEMMA StopAndroidCoreInv ==
  ASSUME AndroidInv, StopAndroidCore
  PROVE  AndroidInv'
  <1>0. AndroidTypes /\ OnFile /\ DownOrFailed /\ StopProgress /\ StartProgress /\ NativeProgress /\ FrontedProgress /\ Guarded
    BY DEF AndroidInv
  <1> USE <1>0 DEF StopAndroidCore, WithoutDevices, TablesOf, aLedger
  <1>1. AndroidTypes'
    BY DEF AndroidTypes, ASteps
  <1>2. OnFile'
    BY DEF OnFile, Native
  <1>3. DownOrFailed'
    BY DEF DownOrFailed
  <1>4. StopProgress'
    BY DEF OnFile, StopProgress
  <1>5. StartProgress'
    BY DEF AndroidPlaced, StartProgress, AndroidUp, Native
  <1>6. NativeProgress'
    BY DEF NativeProgress, AndroidUp, AndroidPlaced
  <1>7. FrontedProgress'
    BY DEF FrontedProgress, AndroidUp, Fronted, RoutingOf
  <1>8. Guarded'
    BY DEF Guarded, AndroidUp, RoutingOf
  <1> QED
    BY <1>1, <1>2, <1>3, <1>4, <1>5, <1>6, <1>7, <1>8 DEF AndroidInv

LEMMA StopRulesInv ==
  ASSUME AndroidInv, StopRules
  PROVE  AndroidInv'
  <1>0. AndroidTypes /\ OnFile /\ DownOrFailed /\ StopProgress /\ StartProgress /\ NativeProgress /\ FrontedProgress /\ Guarded
    BY DEF AndroidInv
  <1> USE <1>0 DEF StopRules
  <1> DEFINE Rest(left) == (aNet \ RoutingRules) \cup Renamed(left)
  <1>a. PICK left \in AFailSets((aNet \cap RoutingRules) \cup (IF aDev = {} THEN {} ELSE {"tun"})) :
          /\ aDev' = (IF "tun" \in left THEN aDev ELSE aDev \ aIface)
          /\ aNet' = WithoutDevices(Rest(left), aDev')
          /\ aStuck' = (aStuck \ RoutingRules) \cup Renamed(left)
    OBVIOUS
  <1>b. left \subseteq aNet \cup {"tun"} /\ left \subseteq RoutingRules \cup {"tun"}
    BY <1>a, SomeFail
  <1>c. Renamed(left) \subseteq Traces /\ "mss" \notin Renamed(left)
    BY <1>b DEF Renamed, AndroidTypes, Traces
  <1>d. aNet' \subseteq (aNet \ RoutingRules) \cup Renamed(left) /\ aDev' \subseteq aDev
    BY <1>a DEF WithoutDevices
  <1>1. AndroidTypes'
    BY <1>c, <1>d DEF AndroidTypes, ASteps
  <1>2. OnFile'
    <2>1. "mss" \notin aNet'
      BY <1>c, <1>d DEF OnFile, RoutingRules
    <2> QED
      <3>1. "old mss" \in aNet' => "old mss" \in aStuck'
        BY <1>a, <1>d DEF OnFile, RoutingRules
      <3> QED
        BY <1>d, <2>1, <3>1 DEF OnFile
  <1>3. DownOrFailed'
    BY DEF DownOrFailed
  <1>4. StopProgress'
    <2>1. aNet' \subseteq {"auto", "orphan"} \cup aStuck'
      <3>1. aCore = "none" /\ "watcher" \notin aNet
        BY DEF StopProgress
      <3>2. aNet \ RoutingRules \subseteq {"auto", "orphan", "old mss"}
        BY <3>1 DEF AndroidTypes, OnFile, Traces, Fixed, RoutingRules
      <3>3. "old mss" \in aNet => "old mss" \in aStuck'
        BY <1>a DEF OnFile, RoutingRules
      <3> QED
        BY <1>a, <1>d, <3>2, <3>3
    <2>2. aCore' = "none" /\ "watcher" \notin aNet' /\ aIface' = {} /\ aPc' = "stop helpers"
      BY <1>b, <1>d DEF StopProgress, Renamed, RoutingRules
    <2> QED
      BY <2>1, <2>2 DEF StopProgress
  <1>5. StartProgress'
    BY DEF AndroidPlaced, StartProgress, AndroidUp, Native
  <1>6. NativeProgress'
    BY DEF NativeProgress, AndroidUp, AndroidPlaced
  <1>7. FrontedProgress'
    BY DEF FrontedProgress, AndroidUp, Fronted, RoutingOf
  <1>8. Guarded'
    BY DEF Guarded, AndroidUp, RoutingOf
  <1> QED
    BY <1>1, <1>2, <1>3, <1>4, <1>5, <1>6, <1>7, <1>8 DEF AndroidInv

LEMMA StopHelpersInv ==
  ASSUME AndroidInv, StopHelpers
  PROVE  AndroidInv'
  <1>0. AndroidTypes /\ OnFile /\ DownOrFailed /\ StopProgress /\ StartProgress /\ NativeProgress /\ FrontedProgress /\ Guarded
    BY DEF AndroidInv
  <1> USE <1>0 DEF StopHelpers, RunningHelperBin
  <1>a. PICK left \in AFailSets(aNet \cap {"orphan"}) :
          aNet' = WithoutDevices((aNet \ {"orphan"}) \cup left, aDev') /\ aStuck' = (aStuck \ {"orphan"}) \cup left
    OBVIOUS
  <1>b. left \subseteq aNet \cap {"orphan"}
    BY <1>a, SomeFail
  <1>c. aNet' \subseteq (aNet \ {"orphan"}) \cup left
    BY <1>a DEF WithoutDevices
  <1>d. \A s \in Slots : aHelper'[s] = "none"
    BY DEF AndroidTypes, OnFile
  <1>e. aDev' = {}
    <2>1. \A s \in aDev : s \in aHelperPid /\ aHelper[s] = RunningHelperBin(aDoc)
      BY DEF AndroidTypes, OnFile, StopProgress
    <2> QED
      BY <2>1
  <1>1. AndroidTypes'
    BY <1>b, <1>c, <1>e DEF AndroidTypes, ASteps
  <1>2. OnFile'
    <2>1. /\ "mss" \in aNet' => "mss" \in aNet
          /\ "old mss" \in aNet' => "old mss" \in aNet /\ ("old mss" \in aStuck => "old mss" \in aStuck')
      BY <1>a, <1>b, <1>c
    <2>2. UNCHANGED <<aCore, aCorePid, aIface, aDoc>>
      OBVIOUS
    <2> HIDE DEF StopHelpers
    <2> QED
      BY <1>d, <1>e, <2>1, <2>2 DEF OnFile
  <1>3. DownOrFailed'
    BY DEF DownOrFailed
  <1>4. StopProgress'
    <2>1. NoHelpers'
      BY <1>d DEF NoHelpers
    <2>2. aNet' \subseteq {"auto"} \cup aStuck'
      BY <1>a, <1>b, <1>c DEF StopProgress
    <2>3. aCore' = "none" /\ "watcher" \notin aNet' /\ aIface' = {} /\ aHelperPid' = {} /\ aPc' = "stop doc"
      BY <1>b, <1>c DEF StopProgress
    <2> HIDE <1>0 DEF StopHelpers
    <2> QED
      BY <1>e, <2>1, <2>2, <2>3 DEF StopProgress, NoAndroidPath
  <1>5. StartProgress'
    BY DEF AndroidPlaced, StartProgress, AndroidUp, Native
  <1>6. NativeProgress'
    BY DEF NativeProgress, AndroidUp, AndroidPlaced
  <1>7. FrontedProgress'
    BY DEF FrontedProgress, AndroidUp, Fronted, RoutingOf
  <1>8. Guarded'
    BY DEF Guarded, AndroidUp, RoutingOf
  <1> QED
    BY <1>1, <1>2, <1>3, <1>4, <1>5, <1>6, <1>7, <1>8 DEF AndroidInv

LEMMA ResetDocInv ==
  ASSUME AndroidInv, ResetDoc
  PROVE  AndroidInv'
  <1>0. AndroidTypes /\ OnFile /\ DownOrFailed /\ StopProgress /\ StartProgress /\ NativeProgress /\ FrontedProgress /\ Guarded
    BY DEF AndroidInv
  <1> USE <1>0, GoalFacts, DocFacts DEF ResetDoc, aProcs, aRules, aLedger
  <1>1. AndroidTypes'
    BY DEF AndroidTypes, ASteps
  <1>2. OnFile'
    BY DEF OnFile, StopProgress, NoAndroidPath, NoHelpers
  <1>3. DownOrFailed'
    BY DEF DownOrFailed
  <1>4. StopProgress'
    BY DEF StopProgress, NoAndroidPath, NoHelpers
  <1>5. StartProgress'
    BY DEF AndroidPlaced, StartProgress, AndroidUp, Native
  <1>6. NativeProgress'
    BY DEF AndroidTypes, OnFile, StopProgress, NativeProgress, NoHelpers
  <1>7. FrontedProgress'
    BY DEF FrontedProgress, AndroidUp, Fronted, RoutingOf
  <1>8. Guarded'
    BY DEF Guarded, AndroidUp, RoutingOf
  <1> QED
    BY <1>1, <1>2, <1>3, <1>4, <1>5, <1>6, <1>7, <1>8 DEF AndroidInv

LEMMA RecordPlanInv ==
  ASSUME AndroidInv, RecordPlan
  PROVE  AndroidInv'
  <1>0. AndroidTypes /\ OnFile /\ DownOrFailed /\ StopProgress /\ StartProgress /\ NativeProgress /\ FrontedProgress /\ Guarded
    BY DEF AndroidInv
  <1> USE <1>0, DocFacts, PlacedFacts DEF RecordPlan, aProcs, aRules, aLedger
  <1>1. AndroidTypes'
    BY DEF AndroidTypes, ASteps
  <1>2. OnFile'
    BY DEF OnFile, StopProgress, NoAndroidPath, NoHelpers
  <1>3. DownOrFailed'
    BY DEF DownOrFailed
  <1>4. StopProgress'
    BY DEF StopProgress
  <1>5. StartProgress'
    BY DEF StopProgress, StartProgress, NoAndroidPath, AndroidPlaced, NoHelpers, Native
  <1>6. NativeProgress'
    BY DEF AndroidTypes, OnFile, StopProgress, NativeProgress, NoHelpers
  <1>7. FrontedProgress'
    BY DEF FrontedProgress, AndroidUp, Fronted, RoutingOf
  <1>8. Guarded'
    BY DEF Guarded, AndroidUp, RoutingOf
  <1> QED
    BY <1>1, <1>2, <1>3, <1>4, <1>5, <1>6, <1>7, <1>8 DEF AndroidInv

LEMMA SpawnCoreInv ==
  ASSUME AndroidInv, SpawnCore
  PROVE  AndroidInv'
  <1>0. AndroidTypes /\ OnFile /\ DownOrFailed /\ StopProgress /\ StartProgress /\ NativeProgress /\ FrontedProgress /\ Guarded
    BY DEF AndroidInv
  <1> USE <1>0, PlacedFacts, FailFacts DEF SpawnCore, aRules, aLedger
  <1>1. AndroidTypes'
    <2>1. aGoal' \in AndroidGoals /\ aDoc' \in AndroidDocs /\ aFailed' \in BOOLEAN /\ aPc' \in ASteps
      BY DEF AndroidTypes, ASteps
    <2>2. aDev' \subseteq aIface' /\ aIface' \subseteq Slots
      BY DEF AndroidTypes, StartProgress, NoAndroidPath, Slots
    <2> QED
      BY <2>1, <2>2 DEF AndroidTypes
  <1>2. OnFile'
    BY DEF OnFile, AndroidPlaced, Slots, Native
  <1>3. DownOrFailed'
    <2>1. CASE FailStart
      BY <2>1 DEF DownOrFailed
    <2>2. CASE UNCHANGED <<aGoal, aFailed, aDoc>>
      BY <2>2 DEF DownOrFailed
    <2> QED
      BY <2>1, <2>2
  <1>4. StopProgress'
    BY DEF StopProgress
  <1>5. StartProgress'
    BY DEF StartProgress, NoAndroidPath, AndroidUp, AndroidPlaced, NoHelpers, Native
  <1>6. NativeProgress'
    BY DEF StartProgress, NativeProgress, NoHelpers, NoAndroidPath, AndroidUp, AndroidPlaced, Native
  <1>7. FrontedProgress'
    BY DEF FrontedProgress, AndroidUp, Fronted, RoutingOf
  <1>8. Guarded'
    BY DEF Guarded, AndroidUp, RoutingOf
  <1> QED
    BY <1>1, <1>2, <1>3, <1>4, <1>5, <1>6, <1>7, <1>8 DEF AndroidInv

LEMMA BringUpHelpersInv ==
  ASSUME AndroidInv, BringUpHelpers
  PROVE  AndroidInv'
  <1>0. AndroidTypes /\ OnFile /\ DownOrFailed /\ StopProgress /\ StartProgress /\ NativeProgress /\ FrontedProgress /\ Guarded
    BY DEF AndroidInv
  <1> USE <1>0 DEF BringUpHelpers, aRules, aLedger
  <1>a. /\ AndroidPlaced /\ ~Native(aGoal) /\ aGoal.tun \in ABins /\ aDoc.tun = aGoal.tun /\ NoHelpers /\ aDev = {} /\ aIface = {}
        /\ HelpersOf(aDoc) \subseteq Slots /\ "mss" \notin aNet
    <2>1. AndroidPlaced /\ ~Native(aGoal) /\ NoHelpers /\ aDev = {} /\ aIface = {}
      BY DEF AndroidPlaced, StartProgress, NoAndroidPath
    <2>2. aGoal.tun \in ABins /\ aDoc.tun = aGoal.tun
      BY ONLY <2>1, AndroidInv, PlacedFacts
    <2>3. "mss" \notin aNet
      BY <2>1 DEF OnFile
    <2> QED
      BY <2>1, <2>2, <2>3, EnginesApart
  <1>b. \A s \in Slots : aHelper'[s] = (IF s \in HelpersOf(aDoc) THEN aGoal.tun ELSE "none")
    BY <1>a DEF NoHelpers
  <1>1. AndroidTypes'
    <2>1. aHelper' \in [Slots -> ABins \cup {"none"}]
      BY <1>a DEF AndroidTypes
    <2> QED
      BY <1>a, <2>1 DEF AndroidTypes, ASteps
  <1>2. OnFile'
    <2>1. \A s \in Slots : aHelper'[s] # "none" => s \in aHelperPid' /\ aHelper'[s] = aDoc'.tun
      BY <1>a, <1>b
    <2>2. \A s \in aDev' : aHelper'[s] # "none"
      BY <1>a, <1>b, EnginesApart
    <2> QED
      BY <1>a, <2>1, <2>2 DEF OnFile
  <1>3. DownOrFailed'
    BY DEF DownOrFailed
  <1>4. StopProgress'
    BY DEF StopProgress
  <1>5. StartProgress'
    BY <1>a DEF AndroidPlaced, StartProgress, AndroidUp, Native
  <1>6. NativeProgress'
    BY <1>a DEF NativeProgress
  <1>7. FrontedProgress'
    BY <1>a DEF FrontedProgress
  <1>8. Guarded'
    BY DEF Guarded, AndroidUp
  <1> QED
    BY <1>1, <1>2, <1>3, <1>4, <1>5, <1>6, <1>7, <1>8 DEF AndroidInv

LEMMA HelperFailsInv ==
  ASSUME AndroidInv, NEW s \in Slots, HelperFails(s)
  PROVE  AndroidInv'
  <1>0. AndroidTypes /\ OnFile /\ DownOrFailed /\ StopProgress /\ StartProgress /\ NativeProgress /\ FrontedProgress /\ Guarded
    BY DEF AndroidInv
  <1> USE <1>0, FailFacts DEF HelperFails, aRules, aLedger
  <1>a. /\ AndroidPlaced /\ ~Native(aGoal) /\ aGoal.tun \in ABins /\ aDoc.tun = aGoal.tun /\ NoHelpers /\ aDev = {} /\ aIface = {}
        /\ HelpersOf(aDoc) \subseteq Slots /\ "mss" \notin aNet
    <2>1. AndroidPlaced /\ ~Native(aGoal) /\ NoHelpers /\ aDev = {} /\ aIface = {}
      BY DEF AndroidPlaced, StartProgress, NoAndroidPath
    <2>2. aGoal.tun \in ABins /\ aDoc.tun = aGoal.tun
      BY ONLY <2>1, AndroidInv, PlacedFacts
    <2>3. "mss" \notin aNet
      BY <2>1 DEF OnFile
    <2> QED
      BY <2>1, <2>2, <2>3, EnginesApart
  <1>b. PICK spawned \in {Before(s), Before(s) \cup {s}} :
          aHelper' = [x \in Slots |-> IF x \in spawned THEN aGoal.tun ELSE aHelper[x]] /\ aHelperPid' = spawned
    OBVIOUS
  <1>c. Before(s) \subseteq spawned /\ spawned \subseteq Slots /\ Before(s) \subseteq Slots
    BY DEF Before, Slots
  <1>d. \A x \in Slots : aHelper'[x] = (IF x \in spawned THEN aGoal.tun ELSE "none")
    BY <1>a, <1>b DEF NoHelpers
  <1>1. AndroidTypes'
    <2>1. aGoal' \in AndroidGoals /\ aDoc' \in AndroidDocs /\ aFailed' \in BOOLEAN /\ aPc' = "stop core"
      OBVIOUS
    <2>2. aHelper' \in [Slots -> ABins \cup {"none"}]
      BY <1>a, <1>b DEF AndroidTypes
    <2> QED
      BY <1>a, <1>b, <1>c, <2>1, <2>2 DEF AndroidTypes, ASteps
  <1>2. OnFile'
    <2>1. \A x \in Slots : aHelper'[x] # "none" => x \in aHelperPid' /\ aHelper'[x] = aDoc'.tun
      BY <1>a, <1>b, <1>d
    <2>2. \A x \in aDev' : aHelper'[x] # "none"
      BY <1>a, <1>c, <1>d, EnginesApart
    <2> QED
      BY <1>a, <2>1, <2>2 DEF OnFile
  <1>3. DownOrFailed'
    BY DEF DownOrFailed
  <1>4. StopProgress'
    BY DEF StopProgress
  <1>5. StartProgress'
    BY DEF AndroidPlaced, StartProgress, AndroidUp
  <1>6. NativeProgress'
    BY DEF NativeProgress, AndroidUp, AndroidPlaced
  <1>7. FrontedProgress'
    BY DEF FrontedProgress, AndroidUp, Fronted
  <1>8. Guarded'
    BY DEF Guarded, AndroidUp
  <1> QED
    BY <1>1, <1>2, <1>3, <1>4, <1>5, <1>6, <1>7, <1>8 DEF AndroidInv

LEMMA ApplyRoutingInv ==
  ASSUME AndroidInv, ApplyRouting
  PROVE  AndroidInv'
  <1>0. AndroidTypes /\ OnFile /\ DownOrFailed /\ StopProgress /\ StartProgress /\ NativeProgress /\ FrontedProgress /\ Guarded
    BY DEF AndroidInv
  <1> USE <1>0, EnginesApart, GoalFacts, DocFacts DEF ApplyRouting, WithoutDevices, TablesOf,
      RoutingOf, aProcs
  <1>1. AndroidTypes'
    BY DEF AndroidTypes, ASteps, Traces, Fixed
  <1>2. OnFile'
    <2>1. "main" \in aIface
      <3>1. AndroidPlaced /\ Fronted /\ ~Native(aGoal)
        BY DEF StartProgress, Fronted, AndroidPlaced
      <3>2. aDoc.tun \in ABins
        BY ONLY <1>0, AndroidInv, PlacedFacts, <3>1
      <3>3. "main" \in HelpersOf(aDoc)
        BY ONLY EnginesApart, <3>2
      <3>4. aIface = HelpersOf(aDoc)
        BY <3>1 DEF FrontedProgress
      <3> QED
        BY <3>3, <3>4
    <2>2. "old mss" \in aNet' => "old mss" \in aNet
      <3>1. aNet' \subseteq aNet \cup RoutingOf(aGoal)
        OBVIOUS
      <3> QED
        BY ONLY <3>1 DEF RoutingOf
    <2>3. UNCHANGED <<aCore, aCorePid, aHelper, aHelperPid, aIface, aDev, aDoc, aStuck>>
      OBVIOUS
    <2> HIDE DEF ApplyRouting
    <2> QED
      BY <2>1, <2>2, <2>3 DEF OnFile
  <1>3. DownOrFailed'
    BY DEF DownOrFailed
  <1>4. StopProgress'
    BY DEF StopProgress
  <1>5. StartProgress'
    BY DEF StartProgress, AndroidPlaced
  <1>6. NativeProgress'
    BY DEF StartProgress, NativeProgress
  <1>7. FrontedProgress'
    <2>1. PICK lost \in AFailSets(RoutingOf(aGoal)) :
             aNet' = WithoutDevices(aNet \cup (RoutingOf(aGoal) \ lost), aDev) /\ aMissed' = aMissed \cup lost
      OBVIOUS
    <2>2. RoutingOf(aGoal) \ (TablesOf(aDev) \cup aMissed') \subseteq aNet'
      BY ONLY <2>1 DEF WithoutDevices
    <2>3. aMarked' = aGoal.filter /\ UNCHANGED <<aGoal, aDoc, aIface, aDev, aHelper>> /\ Fronted /\ ~Native(aGoal)
      BY DEF Fronted, StartProgress
    <2>4. aIface = HelpersOf(aDoc) /\ \A s \in HelpersOf(aDoc) : aHelper[s] # "none" => s \in aDev
      BY <2>3 DEF FrontedProgress
    <2>5. RoutingOf(aGoal') = RoutingOf(aGoal) /\ TablesOf(aDev') = TablesOf(aDev) /\ HelpersOf(aDoc') = HelpersOf(aDoc)
      BY <2>3
    <2> QED
      BY ONLY <2>2, <2>3, <2>4, <2>5 DEF FrontedProgress
  <1>8. Guarded'
    BY DEF Guarded, AndroidUp, AndroidPlaced, Native, RoutingOf
  <1> QED
    BY <1>1, <1>2, <1>3, <1>4, <1>5, <1>6, <1>7, <1>8 DEF AndroidInv

LEMMA VerifyCoreInv ==
  ASSUME AndroidInv, VerifyCore
  PROVE  AndroidInv'
  <1>0. AndroidTypes /\ OnFile /\ DownOrFailed /\ StopProgress /\ StartProgress /\ NativeProgress /\ FrontedProgress /\ Guarded
    BY DEF AndroidInv
  <1> USE <1>0, FailFacts DEF VerifyCore, MayRetry, aLedger
  <1>1. AndroidTypes'
    BY DEF AndroidTypes, ASteps, Traces
  <1>2. OnFile'
    <2>1. AndroidPlaced /\ aDoc.tun = aGoal.tun /\ (~Native(aGoal) => aGoal.tun \in ABins)
      <3>1. AndroidPlaced
        BY DEF AndroidPlaced
      <3> QED
        BY ONLY <3>1, AndroidInv, PlacedFacts
    <2>2. aDoc'.tun = aDoc.tun /\ UNCHANGED <<aCorePid, aHelper, aHelperPid, aIface, aStuck>>
      OBVIOUS
    <2>3. aNet' \subseteq aNet \cup {"auto"}
      OBVIOUS
    <2>4. /\ "mss" \in aNet' => "mss" \in aNet
          /\ "old mss" \in aNet' => "old mss" \in aNet
      BY ONLY <2>3
    <2>5. \A s \in aDev' : aCore' = "native" \/ aHelper[s] # "none"
      <3>1. aCore = "native" => Native(aGoal)
        BY <2>1 DEF OnFile, Native
      <3>2. Native(aGoal) => aDev = {} /\ (aCore # "none" => aCore = "native")
        BY <2>1, EnginesApart DEF NativeProgress, NoAndroidPath, OnFile, Native, AndroidTypes
      <3>3. aCore' = aCore \/ (aCore' = "none" /\ UNCHANGED aDev)
        OBVIOUS
      <3>4. ~Native(aGoal) => UNCHANGED aDev
        OBVIOUS
      <3>5. \A s \in aDev : aCore = "native" \/ aHelper[s] # "none"
        BY DEF OnFile
      <3>6. aCore' = aCore => aCore # "none" \/ UNCHANGED aDev
        OBVIOUS
      <3> QED
        BY ONLY <3>1, <3>2, <3>3, <3>4, <3>5, <3>6
    <2>6. aCore' = aCore \/ aCore' = "none"
      OBVIOUS
    <2> HIDE DEF VerifyCore
    <2> QED
      BY <2>2, <2>4, <2>5, <2>6 DEF OnFile
  <1>3. DownOrFailed'
    <2>1. CASE FailStart
      BY <2>1 DEF DownOrFailed
    <2>2. CASE UNCHANGED <<aGoal, aFailed, aDoc>>
      BY <2>2 DEF DownOrFailed
    <2> QED
      BY <2>1, <2>2
  <1>4. StopProgress'
    BY DEF StopProgress
  <1>5. StartProgress'
    <2>1. CASE aCore # "none" /\ aPc' = (IF Native(aGoal) THEN "listen" ELSE "guard") /\ UNCHANGED <<aCore, aTries, aGoal, aFailed, aDoc>>
      BY <2>1 DEF StartProgress, AndroidPlaced, Native
    <2>2. CASE aCore' = "none" /\ MayRetry /\ aPc' = "spawn" /\ UNCHANGED <<aDev, aNet, aGoal, aFailed, aDoc>>
      BY <2>2 DEF StartProgress, NativeProgress, NoAndroidPath, AndroidPlaced, NoHelpers
    <2>3. CASE FailStart
      BY <2>3 DEF StartProgress, AndroidUp, AndroidPlaced
    <2> QED
      BY <2>1, <2>2, <2>3
  <1>6. NativeProgress'
    BY DEF NativeProgress, NoHelpers, AndroidUp, AndroidPlaced
  <1>7. FrontedProgress'
    <2>1. CASE aCore # "none" /\ aPc' = (IF Native(aGoal) THEN "listen" ELSE "guard") /\ UNCHANGED <<aCore, aTries, aGoal, aFailed, aDoc>>
      BY <2>1 DEF FrontedProgress, Fronted, AndroidTypes
    <2>2. CASE aPc' = "spawn" \/ FailStart
      BY <2>2 DEF FrontedProgress, Fronted, AndroidUp
    <2> QED
      BY <2>1, <2>2
  <1>8. Guarded'
    <2>1. CASE aCore # "none" /\ aPc' = (IF Native(aGoal) THEN "listen" ELSE "guard") /\ UNCHANGED <<aCore, aTries, aGoal, aFailed, aDoc>>
      BY <2>1 DEF Guarded, FrontedProgress, Fronted, AndroidUp, Native, RoutingOf, TablesOf
    <2>2. CASE aPc' = "spawn" \/ FailStart
      BY <2>2 DEF Guarded, AndroidUp
    <2> QED
      BY <2>1, <2>2
  <1> QED
    BY <1>1, <1>2, <1>3, <1>4, <1>5, <1>6, <1>7, <1>8 DEF AndroidInv

LEMMA ListenInv ==
  ASSUME AndroidInv, Listen
  PROVE  AndroidInv'
  <1>0. AndroidTypes /\ OnFile /\ DownOrFailed /\ StopProgress /\ StartProgress /\ NativeProgress /\ FrontedProgress /\ Guarded
    BY DEF AndroidInv
  <1> USE <1>0 DEF Listen, ListenersOf, aProcs
  <1>1. AndroidTypes'
    BY DEF AndroidTypes, ASteps, Traces, Fixed
  <1>2. OnFile'
    <2>1. /\ "mss" \in aNet' => "mss" \in aNet
          /\ "old mss" \in aNet' => "old mss" \in aNet
      <3>1. aNet' \subseteq aNet \cup {"listener", "listener2"}
        OBVIOUS
      <3> QED
        BY ONLY <3>1
    <2>2. UNCHANGED <<aCore, aCorePid, aHelper, aHelperPid, aIface, aDev, aDoc, aStuck>>
      OBVIOUS
    <2> HIDE DEF Listen
    <2> QED
      BY <2>1, <2>2 DEF OnFile
  <1>3. DownOrFailed'
    BY DEF DownOrFailed
  <1>4. StopProgress'
    BY DEF StopProgress
  <1>5. StartProgress'
    BY DEF StartProgress, AndroidPlaced
  <1>6. NativeProgress'
    BY DEF NativeProgress, NoHelpers, AndroidPlaced
  <1>7. FrontedProgress'
    BY DEF StartProgress, FrontedProgress
  <1>8. Guarded'
    BY DEF Guarded, AndroidUp, RoutingOf
  <1> QED
    BY <1>1, <1>2, <1>3, <1>4, <1>5, <1>6, <1>7, <1>8 DEF AndroidInv

LEMMA RefreshGuardsInv ==
  ASSUME AndroidInv, RefreshGuards
  PROVE  AndroidInv'
  <1>0. AndroidTypes /\ OnFile /\ DownOrFailed /\ StopProgress /\ StartProgress /\ NativeProgress /\ FrontedProgress /\ Guarded
    BY DEF AndroidInv
  <1> USE <1>0 DEF RefreshGuards, aProcs
  <1>1. AndroidTypes'
    BY DEF AndroidTypes, ASteps, Traces, Fixed
  <1>2. OnFile'
    BY DEF OnFile, Native
  <1>3. DownOrFailed'
    BY DEF DownOrFailed
  <1>4. StopProgress'
    BY DEF StopProgress
  <1>5. StartProgress'
    BY DEF StartProgress, AndroidPlaced
  <1>6. NativeProgress'
    BY DEF NativeProgress, NoHelpers, AndroidPlaced
  <1>7. FrontedProgress'
    BY DEF FrontedProgress, Fronted, RoutingOf
  <1>8. Guarded'
    BY DEF Guarded
  <1> QED
    BY <1>1, <1>2, <1>3, <1>4, <1>5, <1>6, <1>7, <1>8 DEF AndroidInv

LEMMA MarkUpInv ==
  ASSUME AndroidInv, MarkUp
  PROVE  AndroidInv'
  <1>0. AndroidTypes /\ OnFile /\ DownOrFailed /\ StopProgress /\ StartProgress /\ NativeProgress /\ FrontedProgress /\ Guarded
    BY DEF AndroidInv
  <1> USE <1>0 DEF MarkUp, aProcs, aRules, aLedger
  <1>1. AndroidTypes'
    BY DEF AndroidTypes, ASteps
  <1>2. OnFile'
    BY DEF OnFile, Native
  <1>3. DownOrFailed'
    BY DEF DownOrFailed
  <1>4. StopProgress'
    BY DEF StopProgress
  <1>5. StartProgress'
    BY DEF StartProgress, AndroidPlaced
  <1>6. NativeProgress'
    BY DEF NativeProgress, NoHelpers, AndroidPlaced
  <1>7. FrontedProgress'
    BY DEF FrontedProgress, Fronted, RoutingOf
  <1>8. Guarded'
    BY DEF Guarded
  <1> QED
    BY <1>1, <1>2, <1>3, <1>4, <1>5, <1>6, <1>7, <1>8 DEF AndroidInv

LEMMA CoreDiesInv ==
  ASSUME AndroidInv, CoreDies
  PROVE  AndroidInv'
  <1>0. AndroidTypes /\ OnFile /\ DownOrFailed /\ StopProgress /\ StartProgress /\ NativeProgress /\ FrontedProgress /\ Guarded
    BY DEF AndroidInv
  <1> USE <1>0, EnginesApart DEF CoreDies, WithoutDevices, TablesOf, aLedger, aCmd
  <1>1. AndroidTypes'
    <2>1. aNet' \subseteq aNet /\ aDev' \subseteq aDev
      OBVIOUS
    <2> QED
      BY <2>1 DEF AndroidTypes
  <1>2. OnFile'
    BY DEF OnFile, Native
  <1>3. DownOrFailed'
    BY DEF DownOrFailed
  <1>4. StopProgress'
    BY DEF StopProgress
  <1>5. StartProgress'
    BY DEF StartProgress, NoAndroidPath, AndroidUp, AndroidPlaced, NoHelpers, Native
  <1>6. NativeProgress'
    BY DEF NativeProgress, NoHelpers, NoAndroidPath, AndroidUp, AndroidPlaced, Native
  <1>7. FrontedProgress'
    BY DEF OnFile, FrontedProgress, AndroidUp, AndroidPlaced, Fronted, Native, HelpersOf, RoutingOf
  <1>8. Guarded'
    BY DEF Guarded, AndroidUp, RoutingOf
  <1> QED
    BY <1>1, <1>2, <1>3, <1>4, <1>5, <1>6, <1>7, <1>8 DEF AndroidInv

LEMMA HelperDiesInv ==
  ASSUME AndroidInv, NEW s \in Slots, HelperDies(s)
  PROVE  AndroidInv'
  <1>0. AndroidTypes /\ OnFile /\ DownOrFailed /\ StopProgress /\ StartProgress /\ NativeProgress /\ FrontedProgress /\ Guarded
    BY DEF AndroidInv
  <1> USE <1>0 DEF HelperDies, WithoutDevices, TablesOf, aLedger, aCmd
  <1>1. AndroidTypes'
    <2>1. aNet' \subseteq aNet \cup {"orphan"} /\ aDev' \subseteq aDev
      OBVIOUS
    <2> QED
      BY <2>1 DEF AndroidTypes, Traces
  <1>2. OnFile'
    <2>1. \A q \in Slots : aHelper'[q] = (IF q = s THEN "none" ELSE aHelper[q])
      BY DEF AndroidTypes
    <2>2. /\ "mss" \in aNet' => "mss" \in aNet
          /\ "old mss" \in aNet' => "old mss" \in aNet
      <3>1. aNet' \subseteq aNet \cup {"orphan"}
        OBVIOUS
      <3> QED
        BY ONLY <3>1
    <2>3. aDev' = aDev \ {s} /\ aDev \subseteq Slots
      BY DEF AndroidTypes
    <2>4. UNCHANGED <<aCore, aCorePid, aHelperPid, aIface, aDoc, aStuck>>
      OBVIOUS
    <2> HIDE DEF HelperDies
    <2> QED
      BY <2>1, <2>2, <2>3, <2>4 DEF OnFile
  <1>3. DownOrFailed'
    BY DEF DownOrFailed, NoHelpers
  <1>4. StopProgress'
    <2>1. aNet' \subseteq aNet \cup {"orphan"} /\ aDev' \subseteq aDev
      OBVIOUS
    <2>2. ~(aPc \in {"stop doc", "prepare"} \/ (aPc = "idle" /\ aLast = "down"))
      BY DEF StopProgress, NoAndroidPath, NoHelpers
    <2> QED
      BY <2>1, <2>2 DEF StopProgress
  <1>5. StartProgress'
    BY DEF StartProgress, NoAndroidPath, AndroidUp, AndroidPlaced, NoHelpers, Native
  <1>6. NativeProgress'
    BY DEF OnFile, NativeProgress, AndroidUp, AndroidPlaced
  <1>7. FrontedProgress'
    <2>1. aNet' = aNet' \ TablesOf(aDev') /\ aNet \ TablesOf(aDev') \subseteq aNet' /\ aDev' = aDev \ {s}
      OBVIOUS
    <2>2. \A q \in Slots : aHelper'[q] # "none" => aHelper[q] # "none" /\ q # s
      BY DEF AndroidTypes
    <2>3. TablesOf(aDev) \subseteq TablesOf(aDev') /\ UNCHANGED aMissed
      BY <2>1
    <2> QED
      BY <2>1, <2>2, <2>3 DEF FrontedProgress, Fronted, AndroidUp, HelpersOf
  <1>8. Guarded'
    BY DEF Guarded, AndroidUp, RoutingOf
  <1> QED
    BY <1>1, <1>2, <1>3, <1>4, <1>5, <1>6, <1>7, <1>8 DEF AndroidInv

LEMMA DaemonCrashesInv ==
  ASSUME AndroidInv, DaemonCrashes
  PROVE  AndroidInv'
  <1>0. AndroidTypes /\ OnFile /\ DownOrFailed /\ StopProgress /\ StartProgress /\ NativeProgress /\ FrontedProgress /\ Guarded
    BY DEF AndroidInv
  <1> USE <1>0, GoalFacts DEF DaemonCrashes, WithoutDevices, TablesOf, aLedger
  <1>1. AndroidTypes'
    BY DEF AndroidTypes, ASteps
  <1>2. OnFile'
    BY DEF OnFile, Native
  <1>3. DownOrFailed'
    BY DEF DownOrFailed, NoHelpers
  <1>4. StopProgress'
    BY DEF StopProgress
  <1>5. StartProgress'
    BY DEF AndroidPlaced, StartProgress, AndroidUp, Native
  <1>6. NativeProgress'
    BY DEF NativeProgress, AndroidUp, AndroidPlaced
  <1>7. FrontedProgress'
    BY DEF FrontedProgress, AndroidUp, Fronted, RoutingOf
  <1>8. Guarded'
    BY DEF Guarded, AndroidUp, RoutingOf
  <1> QED
    BY <1>1, <1>2, <1>3, <1>4, <1>5, <1>6, <1>7, <1>8 DEF AndroidInv

LEMMA AndroidBootInv ==
  ASSUME AndroidInv, AndroidBoot
  PROVE  AndroidInv'
  <1>0. AndroidTypes /\ OnFile /\ DownOrFailed /\ StopProgress /\ StartProgress /\ NativeProgress /\ FrontedProgress /\ Guarded
    BY DEF AndroidInv
  <1> USE <1>0, DocFacts DEF AndroidBoot, aProcs, aRules, aLedger, aCmd
  <1>1. AndroidTypes'
    BY DEF AndroidTypes
  <1>2. OnFile'
    BY DEF OnFile, DownOrFailed, NoHelpers
  <1>3. DownOrFailed'
    BY DEF DownOrFailed
  <1>4. StopProgress'
    BY DEF DownOrFailed, StopProgress
  <1>5. StartProgress'
    BY DEF DownOrFailed, AndroidPlaced, StartProgress, AndroidUp, Native
  <1>6. NativeProgress'
    BY DEF DownOrFailed, NativeProgress, AndroidUp, AndroidPlaced
  <1>7. FrontedProgress'
    BY DEF DownOrFailed, FrontedProgress, AndroidUp, Fronted, RoutingOf
  <1>8. Guarded'
    BY DEF Guarded, AndroidUp, RoutingOf
  <1> QED
    BY <1>1, <1>2, <1>3, <1>4, <1>5, <1>6, <1>7, <1>8 DEF AndroidInv

LEMMA AndroidStep == AndroidInv /\ [AndroidNext]_pathVars => AndroidInv'
  <1> SUFFICES ASSUME AndroidInv, [AndroidNext]_pathVars PROVE AndroidInv'
    OBVIOUS
  <1>1. CASE UNCHANGED pathVars
    <2> USE <1>1 DEF AndroidInv, pathVars, aCmd, aProcs, aRules, aLedger
    <2>1. AndroidTypes' /\ OnFile' /\ DownOrFailed'
      BY DEF AndroidTypes, OnFile, DownOrFailed, NoHelpers
    <2>2. StopProgress'
      BY DEF StopProgress, NoAndroidPath, NoHelpers
    <2>3. StartProgress'
      BY DEF StartProgress, AndroidPlaced, AndroidUp, NoAndroidPath, NoHelpers
    <2>4. NativeProgress'
      BY DEF NativeProgress, AndroidPlaced, AndroidUp, NoAndroidPath, NoHelpers
    <2>5. FrontedProgress' /\ Guarded'
      BY DEF FrontedProgress, Fronted, Guarded, AndroidUp
    <2> QED
      BY <2>1, <2>2, <2>3, <2>4, <2>5
  <1>2. CASE AndroidNext
    <2>1. CASE Command(PlanOf(aSet)) \/ Command(StopPlan) \/ Edit \/ AndroidBoot
      BY <2>1, CommandStartInv, CommandStopInv, EditInv, AndroidBootInv
    <2>2. CASE StopAndroidCore \/ StopRules \/ StopHelpers \/ ResetDoc
      BY <2>2, StopAndroidCoreInv, StopRulesInv, StopHelpersInv, ResetDocInv
    <2>3. CASE RecordPlan \/ SpawnCore \/ BringUpHelpers \/ (\E s \in Slots : HelperFails(s)) \/ ApplyRouting
      BY <2>3, RecordPlanInv, SpawnCoreInv, BringUpHelpersInv, HelperFailsInv, ApplyRoutingInv
    <2>4. CASE VerifyCore \/ Listen \/ RefreshGuards \/ MarkUp
      BY <2>4, VerifyCoreInv, ListenInv, RefreshGuardsInv, MarkUpInv
    <2>5. CASE CoreDies \/ (\E s \in Slots : HelperDies(s)) \/ DaemonCrashes
      BY <2>5, CoreDiesInv, HelperDiesInv, DaemonCrashesInv
    <2> QED
      BY <1>2, <2>1, <2>2, <2>3, <2>4, <2>5 DEF AndroidNext
  <1> QED
    BY <1>1, <1>2

(* A path the watchdog takes for healthy is whole.                          *)
LEMMA AndroidWholeWhenHealthy == AndroidInv => AndroidHealthyIsWhole
  <1> SUFFICES ASSUME AndroidInv, aPc = "idle", aLast = "up", AndroidHealthy
               PROVE  /\ {"listener", "guards"} \subseteq aNet \cup aMissed /\ "watcher" \in aNet
                      /\ aDoc.tun \in ABins => RoutingOf([force |-> aDoc.force]) \subseteq aNet \cup aMissed /\ aDev = HelpersOf(aDoc)
                      /\ aDoc.tun = "native" => aDev = aIface /\ "auto" \in aNet
    BY DEF AndroidHealthyIsWhole
  <1> USE DEF AndroidInv
  <1>1. AndroidUp /\ AndroidPlaced /\ Fronted
    BY DEF AndroidUp, AndroidPlaced, Fronted
  <1>2. {"listener", "guards"} \subseteq aNet \cup aMissed /\ "watcher" \in aNet
    BY <1>1 DEF Guarded
  <1>3. ASSUME aDoc.tun \in ABins
        PROVE  RoutingOf([force |-> aDoc.force]) \subseteq aNet \cup aMissed /\ aDev = HelpersOf(aDoc)
    <2>1. ~Native(aGoal)
      BY <1>1, <1>3, PlacedFacts, EnginesApart DEF Native
    <2>2. \A s \in HelpersOf(aDoc) : aHelper[s] # "none"
      BY <1>3, EnginesApart DEF AndroidHealthy, WatchedHelpers
    <2>3. aDev = HelpersOf(aDoc)
      BY <1>1, <2>1, <2>2 DEF FrontedProgress, AndroidTypes
    <2>4. RoutingOf(aGoal) \cap TablesOf(aDev) = {}
      BY <1>1, <1>3, <2>3, PlacedFacts DEF RoutingOf, TablesOf, HelpersOf
    <2>5. RoutingOf(aGoal) \subseteq aNet \cup aMissed
      BY <1>1, <2>1, <2>4 DEF FrontedProgress
    <2>6. RoutingOf([force |-> aDoc.force]) = RoutingOf(aGoal)
      BY <1>1, PlacedFacts DEF RoutingOf
    <2> QED
      BY <2>3, <2>5, <2>6
  <1>4. ASSUME aDoc.tun = "native"
        PROVE  aDev = aIface /\ "auto" \in aNet
    BY <1>1, <1>4, PlacedFacts DEF NativeProgress, Native, AndroidHealthy
  <1> QED
    BY <1>2, <1>3, <1>4

(* The chains do what the filter they were built from says.                 *)
LEMMA FilterHonoured == AndroidInv => FilterIsHonoured
  <1> SUFFICES ASSUME AndroidInv, aPc = "idle", aLast = "up", aDoc.tun \in ABins, aMarked = aGuarded, NEW u \in Uids
               PROVE  /\ MarkOf(aMarked, u) # 0 => u # 0 /\ (OnTun(aGuarded, u) \/ (aMarked.strict /\ ~aMarked.all))
                      /\ MarkOf(aMarked, u) = 2 => "rule2" \in aNet \cup aMissed
                      /\ (u \in aMarked.bypass \/ (~aMarked.all /\ ~aMarked.strict /\ u \notin {0} \cup aMarked.force))
                            => MarkOf(aMarked, u) = 0 /\ ~OnTun(aGuarded, u)
                      /\ u \in aMarked.bypass => ~OnPorts(aGuarded, u)
    BY DEF FilterIsHonoured
  <1>1. AndroidUp /\ AndroidPlaced /\ Fronted
    BY DEF AndroidUp, AndroidPlaced, Fronted
  <1>2. ~Native(aGoal) /\ aGoal.filter \in AFilters /\ aGoal.force = (aGoal.filter.force # {})
    BY <1>1, PlacedFacts, EnginesApart DEF Native
  <1>3. aMarked = aGoal.filter /\ RoutingOf(aGoal) \ (TablesOf(aDev) \cup aMissed) \subseteq aNet
    BY <1>1, <1>2 DEF AndroidInv, FrontedProgress, AndroidUp
  <1>4. /\ aMarked.all \in BOOLEAN /\ aMarked.strict \in BOOLEAN
        /\ 0 \notin aMarked.bypass \cup aMarked.force /\ aMarked.force \cap aMarked.bypass = {}
    BY <1>2, <1>3, AndroidConstants
  <1>5. aMarked.force # {} => "rule2" \in aNet \cup aMissed
    BY <1>2, <1>3 DEF RoutingOf, TablesOf
  <1>6. MarkOf(aMarked, u) = 2 => aMarked.force # {}
    BY DEF MarkOf
  <1>7. MarkOf(aMarked, u) # 0 => u # 0 /\ (OnTun(aMarked, u) \/ (aMarked.strict /\ ~aMarked.all))
    BY <1>4 DEF MarkOf, OnTun, Uids
  <1>8. (u \in aMarked.bypass \/ (~aMarked.all /\ ~aMarked.strict /\ u \notin {0} \cup aMarked.force))
           => MarkOf(aMarked, u) = 0 /\ ~OnTun(aMarked, u)
    BY <1>4 DEF MarkOf, OnTun
  <1> QED
    BY <1>5, <1>6, <1>7, <1>8 DEF OnPorts

(* AndroidIsSound, for any helpers and app filters and any number of edits, crashes and commands
   that do nothing: after every stop nothing of the path is left but what a command failed to
   take, a path that passes for healthy is whole but for what a command of its start failed to
   add, the chains do what the app filter says where their commands went through, and a failed
   start is on record. *)
THEOREM AndroidStaysSound == AndroidSpec => []AndroidIsSound
  <1>1. AndroidInv => AndroidTypeOK
    BY DEF AndroidInv, AndroidTypes, AndroidTypeOK, AndroidDocs
  <1>2. AndroidInv => AndroidStopIsWhole
    BY DEF AndroidInv, AndroidStopIsWhole, StopProgress, NoAndroidPath, NoHelpers
  <1>3. AndroidInv => FailureIsOnRecord
    BY DEF AndroidInv, DownOrFailed, FailureIsOnRecord
  <1>4. AndroidInv => AndroidIsSound
    BY <1>1, <1>2, <1>3, AndroidWholeWhenHealthy, FilterHonoured DEF AndroidIsSound
  <1> QED
    BY AndroidInitInv, AndroidStep, <1>4, PTL DEF AndroidSpec

-----------------------------------------------------------------------------
(* The OS proxy: whose settings they are at each step of a call *)

(* The types of a call, of a full record and of what a call writes; the writes of a list. *)
Cmds == [key : Keys, value : Whose]
Settings == [Keys -> Whose]
Elem(s) == {s[i] : i \in 1..Len(s)}
Calls == [at : {"idle", "snapshot", "create", "fill", "write"},
          kind : {"none", "system", "pac"} \cup Clears,
          snap : {<<>>} \cup [Layers -> Settings],
          rest : {<<>>, <<"env">>, <<"wininet">>, <<"kde", "env">>, <<"gsettings", "env">>},
          layer : Layers \cup {"none"},
          todo : Seq(Cmds), ok : {"yes", "no", "off"}]
FullRecords == [state : {"full"}, snap : [Layers -> Settings]]

ProxyTypes ==
    /\ desk \in {"gnome", "kde", "windows"} /\ os \in [Layers -> Settings]
    /\ record \in {NoRecord, TornRecord} \cup FullRecords
    /\ job \in [Tasks -> Calls] /\ pacServer \in BOOLEAN /\ gui \in {"up", "crashed", "quit"}
    /\ settled \in {"none", "apply", "clear"} /\ faults \in Nat /\ unsaved \in BOOLEAN /\ spoilt \in BOOLEAN

(* A command of the environment is on its one variable. *)
EnvPlain(o) == \A l \in DOMAIN o : l = "env" => o[l].mode = "user" /\ o[l].script = "user"
PlainKeys == /\ EnvPlain(os) /\ EnvPlain(record.snap)
             /\ \A t \in Tasks : job[t].layer = "env" => \A w \in Elem(job[t].todo) : w.key = "server"

(* What a call has in hand at each step. *)
Fresh(j) == j.layer = "none" /\ j.rest = LayersInOrder /\ j.todo = <<>> /\ j.ok = "yes"
Placed(j) == \/ Fresh(j)
             \/ j.layer \in Layers /\ j.rest = (IF j.layer \in {"gsettings", "kde"} THEN <<"env">> ELSE <<>>)
CallShape(j) ==
    /\ j.at = "idle" => j = Idle
    /\ j.at \in {"snapshot", "create", "fill"} => j.kind \in {"system", "pac"} /\ Fresh(j)
    /\ j.at = "write" => j.kind # "none" /\ Placed(j)
    /\ j.ok # "yes" => j.kind = "restore" /\ j.layer # "env" /\ faults > 0
OneCall ==
    /\ job["service"] = Idle \/ job["exit"] = Idle
    /\ gui # "up" \/ settled = "clear" => \A t \in Tasks : job[t] = Idle
    /\ \A t \in Tasks : CallShape(job[t])
    /\ job["exit"].kind \in {"none"} \cup Clears

(* The record at each step of a call. *)
OnRecord(j) ==
    /\ j.at \in {"snapshot", "create"} => record = NoRecord
    /\ j.at = "fill" => record = TornRecord
    /\ j.at \in {"create", "fill"} => j.snap = os
    /\ j.kind \in {"system", "pac"} /\ j.at = "write" => record \in FullRecords \/ (unsaved /\ record = NoRecord)
    /\ j.kind = "restore" => record \in FullRecords /\ record.snap = j.snap
    /\ j.kind = "blank" => record = TornRecord /\ spoilt
    /\ j.kind = "pac" => pacServer
RecordFits ==
    /\ \A t \in Tasks : OnRecord(job[t])
    /\ record = TornRecord => spoilt \/ \E t \in Tasks : job[t].at = "fill"
    /\ record = TornRecord /\ gui = "up" => \E t \in Tasks : job[t] # Idle
    /\ settled = "clear" => record = NoRecord
    /\ unsaved => faults > 0

(* Settings of a layer that are not the app's. *)
Given(l, s) ==
    \/ s = [k \in Keys |-> "user"]
    \/ l = "env" /\ (faults > 0 \/ (spoilt /\ s.server = "off"))
    \/ l # "env" /\ (faults > 0 \/ spoilt) /\ s.mode = "off" /\ (l = "wininet" => s.script # "pac")
    \/ l # "env" /\ spoilt /\ \A k \in Keys : s[k] \in {"user", "off"}

(* The layers a call has not begun. *)
Ahead(j) == IF j.layer = "none" THEN Layers ELSE IF j.layer = "env" THEN {} ELSE Layers \ {j.layer}

(* The layer a call is at: what is not back yet is still to be written; a layer that fails is
   switched off; a blanket clear only switches off. *)
Restoring(j, l) ==
    /\ j.ok = "yes" /\ (l = "env" => faults = 0) =>
          /\ \A k \in Keys : os[l][k] = j.snap[l][k] \/ [key |-> k, value |-> j.snap[l][k]] \in Elem(j.todo)
          /\ \A w \in Elem(j.todo) : w.value = j.snap[l][w.key]
    /\ j.ok = "off" => /\ \A w \in Elem(j.todo) : w.value = "off"
                       /\ os[l].mode = "off" \/ [key |-> "mode", value |-> "off"] \in Elem(j.todo)
                       /\ l = "wininet" => os[l].script # "pac" \/ [key |-> "script", value |-> "off"] \in Elem(j.todo)
Blanking(j, l) == \A w \in Elem(j.todo) : w.value = "off" /\ w.key \in {"mode"} \cup (IF l = "wininet" THEN {"script"} ELSE IF l = "env" THEN {"server"} ELSE {})

(* Without a record nothing is the app's; with one it holds the user's; a clear has dealt with
   the layers behind it. *)
Progress(j) == \A l \in Layers \ Ahead(j) :
    /\ j.kind = "restore" => IF l = j.layer THEN Restoring(j, l) ELSE Given(l, os[l])
    /\ j.kind = "blank" /\ l = j.layer => Blanking(j, l)
NotOurs ==
    ~unsaved /\ faults <= 1 =>
        /\ record \notin FullRecords => \A l \in Layers : Given(l, os[l])
        /\ record \in FullRecords => \A l \in Layers : Given(l, record.snap[l])
        /\ \A t \in Tasks : Progress(job[t])

(* Without its server no layer at rest is at a PAC script: the system mode overwrites it. *)
LeavesPac(j, l) ==
    /\ \A w \in Elem(j.todo) : w.value # "pac"
    /\ IF l = "wininet" THEN os[l].script = "pac" => [key |-> "script", value |-> "off"] \in Elem(j.todo)
                        ELSE os[l].mode = "pac" => [key |-> "mode", value |-> "ours"] \in Elem(j.todo)
PacFits ==
    faults = 0 /\ gui = "up" =>
        /\ (\A t \in Tasks : job[t] = Idle) /\ ~pacServer => \A l \in Layers : ~PacActive(l)
        /\ \A t \in Tasks : job[t].kind = "system" /\ job[t].at = "write" => \A l \in Layers \ Ahead(job[t]) :
              IF l = job[t].layer THEN LeavesPac(job[t], l) ELSE ~PacActive(l)

ProxyInv == ProxyTypes /\ PlainKeys /\ OneCall /\ RecordFits /\ NotOurs /\ PacFits

(* Elem of the four ways a list of writes comes about. *)
LEMMA ElemEmpty == Elem(<<>>) = {}
BY DEF Elem

LEMMA ElemHead == ASSUME NEW s \in Seq(Cmds), s # <<>>
                  PROVE /\ Head(s) \in Cmds /\ Tail(s) \in Seq(Cmds)
                        /\ Elem(s) = {Head(s)} \cup Elem(Tail(s))
<1>1. Head(s) = s[1] /\ Len(s) \in Nat \ {0} /\ Len(Tail(s)) = Len(s) - 1
      /\ (\A i \in 1..(Len(s) - 1) : Tail(s)[i] = s[i + 1]) /\ Tail(s) \in Seq(Cmds) /\ s[1] \in Cmds
  OBVIOUS
<1>2. \A i \in 1..Len(s) : i = 1 \/ (i - 1 \in 1..Len(Tail(s)) /\ s[i] = Tail(s)[i - 1])
  BY <1>1
<1>3. \A i \in 1..Len(Tail(s)) : i + 1 \in 1..Len(s) /\ Tail(s)[i] = s[i + 1]
  BY <1>1
<1>4. 1 \in 1..Len(s) BY <1>1
<1>5. Elem(s) \subseteq {Head(s)} \cup Elem(Tail(s)) BY <1>1, <1>2 DEF Elem
<1>6. {Head(s)} \cup Elem(Tail(s)) \subseteq Elem(s) BY <1>1, <1>3, <1>4 DEF Elem
<1> QED BY <1>1, <1>5, <1>6

LEMMA ElemPut == ASSUME NEW k \in Keys, NEW v \in Whose
                 PROVE Put(k, v) \in Seq(Cmds) /\ Elem(Put(k, v)) = {[key |-> k, value |-> v]}
<1>1. [key |-> k, value |-> v] \in Cmds BY DEF Cmds
<1> QED BY <1>1 DEF Put, Elem

LEMMA ElemCat == ASSUME NEW s \in Seq(Cmds), NEW r \in Seq(Cmds)
                 PROVE s \o r \in Seq(Cmds) /\ Elem(s \o r) = Elem(s) \cup Elem(r)
<1>1. /\ s \o r \in Seq(Cmds) /\ Len(s \o r) = Len(s) + Len(r) /\ Len(s) \in Nat /\ Len(r) \in Nat
      /\ \A i \in 1..Len(s) : (s \o r)[i] = s[i]
      /\ \A i \in 1..(Len(s) + Len(r)) : i > Len(s) => (s \o r)[i] = r[i - Len(s)]
  OBVIOUS
<1>2. \A i \in 1..Len(r) : i + Len(s) \in 1..(Len(s) + Len(r)) /\ i + Len(s) > Len(s) /\ (i + Len(s)) - Len(s) = i BY <1>1
<1>3. \A i \in 1..(Len(s) + Len(r)) : i \in 1..Len(s) \/ (i > Len(s) /\ i - Len(s) \in 1..Len(r)) BY <1>1
<1>4. \A x \in Elem(r) : x \in Elem(s \o r)
  <2>1. TAKE x \in Elem(r)
  <2>2. PICK i \in 1..Len(r) : x = r[i] BY DEF Elem
  <2>3. (s \o r)[i + Len(s)] = x BY <1>1, <1>2, <2>2
  <2> QED BY <1>1, <1>2, <2>3 DEF Elem
<1>5. Elem(s) \subseteq Elem(s \o r) BY <1>1 DEF Elem
<1>6. Elem(s \o r) \subseteq Elem(s) \cup Elem(r) BY <1>1, <1>3 DEF Elem
<1> QED BY <1>1, <1>4, <1>5, <1>6

(* The layers of each session. *)
LEMMA DeskLayers ==
  ASSUME desk \in {"gnome", "kde", "windows"}
  PROVE  \/ desk = "windows" /\ Layers = {"wininet"} /\ LayersInOrder = <<"wininet">>
         \/ desk = "kde" /\ Layers = {"kde", "env"} /\ LayersInOrder = <<"kde", "env">>
         \/ desk = "gnome" /\ Layers = {"gsettings", "env"} /\ LayersInOrder = <<"gsettings", "env">>
BY DEF Layers, LayersInOrder, Kde

(* What a call writes to a layer. *)
LEMMA SystemWrites ==
  ASSUME NEW l \in {"gsettings", "kde", "env", "wininet"}
  PROVE  /\ SystemProxy(l) \in Seq(Cmds)
         /\ \A w \in Elem(SystemProxy(l)) : w.value # "pac" /\ (l = "env" => w.key = "server")
         /\ l = "wininet" => [key |-> "script", value |-> "off"] \in Elem(SystemProxy(l))
         /\ l \in {"gsettings", "kde"} => [key |-> "mode", value |-> "ours"] \in Elem(SystemProxy(l))
<1>1. /\ Put("mode", "ours") \in Seq(Cmds) /\ Put("server", "ours") \in Seq(Cmds) /\ Put("script", "off") \in Seq(Cmds)
      /\ Elem(Put("mode", "ours")) = {[key |-> "mode", value |-> "ours"]}
      /\ Elem(Put("server", "ours")) = {[key |-> "server", value |-> "ours"]}
      /\ Elem(Put("script", "off")) = {[key |-> "script", value |-> "off"]}
  BY ElemPut DEF Keys, Whose
<1>2. /\ Put("mode", "ours") \o Put("server", "ours") \in Seq(Cmds)
      /\ Put("script", "off") \o Put("server", "ours") \in Seq(Cmds)
      /\ Put("script", "off") \o Put("server", "ours") \o Put("mode", "ours") \in Seq(Cmds)
      /\ Elem(Put("mode", "ours") \o Put("server", "ours")) = {[key |-> "mode", value |-> "ours"], [key |-> "server", value |-> "ours"]}
      /\ Elem(Put("script", "off") \o Put("server", "ours") \o Put("mode", "ours"))
            = {[key |-> "script", value |-> "off"], [key |-> "server", value |-> "ours"], [key |-> "mode", value |-> "ours"]}
  <2> HIDE DEF Put, Elem, Cmds
  <2>1. /\ Put("mode", "ours") \o Put("server", "ours") \in Seq(Cmds)
        /\ Elem(Put("mode", "ours") \o Put("server", "ours")) = Elem(Put("mode", "ours")) \cup Elem(Put("server", "ours"))
    BY <1>1, ElemCat
  <2>2. /\ Put("script", "off") \o Put("server", "ours") \in Seq(Cmds)
        /\ Elem(Put("script", "off") \o Put("server", "ours")) = Elem(Put("script", "off")) \cup Elem(Put("server", "ours"))
    BY <1>1, ElemCat
  <2>3. /\ (Put("script", "off") \o Put("server", "ours")) \o Put("mode", "ours") \in Seq(Cmds)
        /\ Elem((Put("script", "off") \o Put("server", "ours")) \o Put("mode", "ours"))
              = Elem(Put("script", "off") \o Put("server", "ours")) \cup Elem(Put("mode", "ours"))
    BY <1>1, <2>2, ElemCat
  <2> QED BY <1>1, <2>1, <2>2, <2>3
<1> QED BY <1>1, <1>2 DEF SystemProxy, GsettingsManual, KdeManual, EnvApply, WininetManual

LEMMA PacWrites ==
  ASSUME NEW l \in {"gsettings", "kde", "env", "wininet"}
  PROVE  PacProxy(l) \in Seq(Cmds) /\ (l = "env" => \A w \in Elem(PacProxy(l)) : w.key = "server")
<1>1. /\ Put("mode", "pac") \in Seq(Cmds) /\ Put("script", "pac") \in Seq(Cmds) /\ Put("mode", "off") \in Seq(Cmds)
      /\ Put("server", "off") \in Seq(Cmds) /\ Elem(Put("server", "off")) = {[key |-> "server", value |-> "off"]}
  BY ElemPut DEF Keys, Whose
<1>2. /\ Put("mode", "pac") \o Put("script", "pac") \in Seq(Cmds)
      /\ Put("mode", "off") \o Put("script", "pac") \in Seq(Cmds)
  BY <1>1, ElemCat
<1> QED BY <1>1, <1>2 DEF PacProxy, GsettingsAuto, KdePac, EnvClear, WininetPac

LEMMA DisableWrites ==
  ASSUME NEW l \in {"gsettings", "kde", "env", "wininet"}
  PROVE  /\ Disable(l) \in Seq(Cmds)
         /\ Elem(Disable(l)) = CASE l = "env" -> {[key |-> "server", value |-> "off"]}
                                 [] l = "wininet" -> {[key |-> "mode", value |-> "off"], [key |-> "script", value |-> "off"]}
                                 [] OTHER -> {[key |-> "mode", value |-> "off"]}
<1>1. /\ Put("mode", "off") \in Seq(Cmds) /\ Elem(Put("mode", "off")) = {[key |-> "mode", value |-> "off"]}
      /\ Put("script", "off") \in Seq(Cmds) /\ Elem(Put("script", "off")) = {[key |-> "script", value |-> "off"]}
      /\ Put("server", "off") \in Seq(Cmds) /\ Elem(Put("server", "off")) = {[key |-> "server", value |-> "off"]}
  BY ElemPut DEF Keys, Whose
<1>2. /\ Put("mode", "off") \o Put("script", "off") \in Seq(Cmds)
      /\ Elem(Put("mode", "off") \o Put("script", "off")) = Elem(Put("mode", "off")) \cup Elem(Put("script", "off"))
  BY <1>1, ElemCat
<1> QED BY <1>1, <1>2 DEF Disable, EnvClear

LEMMA RestoreWrites ==
  ASSUME NEW l \in {"gsettings", "kde", "env", "wininet"}, NEW snap, l \in DOMAIN snap, snap[l] \in Settings
  PROVE  /\ RestoreLayer(snap, l) \in Seq(Cmds)
         /\ Elem(RestoreLayer(snap, l)) = {[key |-> k, value |-> snap[l][k]] : k \in IF l = "env" THEN {"server"} ELSE Keys}
<1> DEFINE m == Put("mode", snap[l].mode)
           r == Put("server", snap[l].server)
           c == Put("script", snap[l].script)
<1>1. /\ m \in Seq(Cmds) /\ Elem(m) = {[key |-> "mode", value |-> snap[l].mode]}
      /\ r \in Seq(Cmds) /\ Elem(r) = {[key |-> "server", value |-> snap[l].server]}
      /\ c \in Seq(Cmds) /\ Elem(c) = {[key |-> "script", value |-> snap[l].script]}
  BY ElemPut DEF Keys, Settings
<1>2. RestoreLayer(snap, l) = CASE l = "env" -> r [] l = "wininet" -> (r \o c) \o m [] OTHER -> (m \o r) \o c
  BY DEF RestoreLayer, WininetRestore
<1>3. {[key |-> k, value |-> snap[l][k]] : k \in Keys} = {[key |-> "mode", value |-> snap[l].mode],
          [key |-> "server", value |-> snap[l].server], [key |-> "script", value |-> snap[l].script]}
  BY DEF Keys, Settings
<1> HIDE DEF m, r, c
<1>4. r \o c \in Seq(Cmds) /\ Elem(r \o c) = Elem(r) \cup Elem(c) /\ m \o r \in Seq(Cmds) /\ Elem(m \o r) = Elem(m) \cup Elem(r)
  BY <1>1, ElemCat
<1>5. /\ (r \o c) \o m \in Seq(Cmds) /\ Elem((r \o c) \o m) = Elem(r \o c) \cup Elem(m)
      /\ (m \o r) \o c \in Seq(Cmds) /\ Elem((m \o r) \o c) = Elem(m \o r) \cup Elem(c)
  BY <1>1, <1>4, ElemCat
<1>6. RestoreLayer(snap, l) \in Seq(Cmds) BY <1>1, <1>2, <1>5
<1>7. CASE l = "env" BY <1>1, <1>2, <1>6, <1>7
<1>8. CASE l # "env"
  <2>1. Elem(RestoreLayer(snap, l)) = Elem(m) \cup Elem(r) \cup Elem(c)
    <3>1. CASE l = "wininet" BY <1>2, <1>4, <1>5, <3>1
    <3>2. CASE l # "wininet" BY <1>2, <1>4, <1>5, <1>8, <3>2
    <3> QED BY <3>1, <3>2
  <2> QED BY <1>1, <1>3, <1>6, <1>8, <2>1
<1> QED BY <1>7, <1>8

(* The session is fixed, and all that is read off it. *)
LEMMA DeskKeeps ==
  ASSUME desk' = desk
  PROVE  /\ Layers' = Layers /\ LayersInOrder' = LayersInOrder /\ Calls' = Calls /\ FullRecords' = FullRecords
         /\ \A j : Ahead(j)' = Ahead(j)
<1>1. Layers' = Layers /\ LayersInOrder' = LayersInOrder BY DEF Layers, LayersInOrder, Kde
<1> QED BY <1>1 DEF Calls, FullRecords, Ahead

(* Every call that can begin is one. *)
LEMMA CallTypes ==
  ASSUME desk \in {"gnome", "kde", "windows"}
  PROVE  /\ Idle \in Calls
         /\ \A a \in {"snapshot", "write"}, k \in {"system", "pac", "blank"} : Call(a, k, <<>>) \in Calls
         /\ \A s \in [Layers -> Settings] : Call("write", "restore", s) \in Calls
<1>1. LayersInOrder \in {<<"wininet">>, <<"kde", "env">>, <<"gsettings", "env">>} BY DeskLayers
<1>2. <<>> \in Seq(Cmds) OBVIOUS
<1> QED BY <1>1, <1>2 DEF Call, Idle, Calls, Clears

(* Who is at work is alone, and nothing else is settled. *)
LEMMA OthersRest ==
  ASSUME ProxyInv, NEW t \in Tasks, job[t] # Idle
  PROVE  gui = "up" /\ settled # "clear" /\ \A u \in Tasks : u # t => job[u] = Idle
BY DEF ProxyInv, OneCall, Tasks

(* What is said of every call holds of a task at rest. *)
LEMMA OneAtATime ==
  ASSUME NEW t \in Tasks, \A u \in Tasks : u # t => job'[u] = Idle,
         CallShape(job[t])', OnRecord(job[t])'
  PROVE  /\ (\A u \in Tasks : CallShape(job[u]))' /\ (\A u \in Tasks : OnRecord(job[u]))'
         /\ job'["service"] = Idle \/ job'["exit"] = Idle
<1>1. \A u \in Tasks : CallShape(job[u])' /\ OnRecord(job[u])'
  <2>1. TAKE u \in Tasks
  <2>2. CASE u = t BY <2>2
  <2>3. CASE u # t BY <2>3 DEF CallShape, OnRecord, Idle, Clears
  <2> QED BY <2>2, <2>3
<1> QED BY <1>1 DEF Tasks

(* The same of the layers a call is at. *)
LEMMA RestMakesNoProgress ==
  ASSUME NEW t \in Tasks, \A u \in Tasks : u # t => job'[u] = Idle, Progress(job[t])'
  PROVE  (\A u \in Tasks : Progress(job[u]))'
<1>1. \A u \in Tasks : Progress(job[u])'
  <2>1. TAKE u \in Tasks
  <2>2. CASE u = t BY <2>2
  <2>3. CASE u # t BY <2>3 DEF Progress, Idle
  <2> QED BY <2>2, <2>3
<1> QED BY <1>1

(* At first everything is the user's. *)
LEMMA ProxyBegins == ASSUME OsProxyInit, "kde without reader" \notin Desks PROVE ProxyInv
<1> USE DEF OsProxyInit
<1>1. desk \in {"gnome", "kde", "windows"} BY OsProxyConstants
<1>2. ProxyTypes BY <1>1, CallTypes DEF ProxyTypes, Users, Settings, Keys, Whose, Tasks
<1>3. PlainKeys
  <2>1. EnvPlain(os) BY DEF EnvPlain, Users, Keys
  <2>3. record.snap = <<>> /\ DOMAIN <<>> = {}
    <3>1. record.snap = <<>> BY DEF NoRecord
    <3>2. DOMAIN <<>> = {} BY ONLY SMT
    <3> QED BY <3>1, <3>2
  <2>4. EnvPlain(record.snap) BY ONLY <2>3 DEF EnvPlain
  <2>2. \A t \in Tasks : job[t].layer # "env" BY DEF Idle
  <2> QED BY <2>1, <2>2, <2>4 DEF PlainKeys
<1>4. OneCall BY DEF OneCall, CallShape, Idle, Tasks
<1>5. RecordFits BY DEF RecordFits, OnRecord, Idle, NoRecord, TornRecord, Tasks
<1>6. NotOurs BY DEF NotOurs, Given, Users, Progress, Idle, FullRecords, NoRecord
<1>7. PacFits BY DEF PacFits, PacActive, Users, Keys, Idle
<1> QED BY <1>2, <1>3, <1>4, <1>5, <1>6, <1>7 DEF ProxyInv

(* A call that applies begins, ... *)
LEMMA AppliesBegin ==
  ASSUME ProxyInv, MayCall, NEW k \in {"system", "pac"}, Set("service", Call(DecideApply, k, <<>>)),
         pacServer' \in BOOLEAN, k = "pac" => pacServer', settled' = "none", UNCHANGED <<desk, os, record, gui, faults, unsaved, spoilt>>
  PROVE  ProxyInv'
<1> DEFINE j == Call(DecideApply, k, <<>>)
<1>1. /\ ProxyTypes /\ PlainKeys /\ OneCall /\ RecordFits /\ NotOurs /\ PacFits
      /\ gui = "up" /\ \A u \in Tasks : job[u] = Idle
  BY DEF ProxyInv, MayCall, Tasks
<1>2. /\ j \in Calls /\ j.at \in {"snapshot", "write"} /\ j.kind = k /\ j.snap = <<>> /\ j.rest = LayersInOrder
      /\ j.layer = "none" /\ j.todo = <<>> /\ j.ok = "yes" /\ (j.at = "snapshot" <=> record.state = "none")
  BY <1>1, CallTypes DEF ProxyTypes, DecideApply, Call
<1>3. job' = [u \in Tasks |-> IF u = "service" THEN j ELSE Idle]
  BY <1>1 DEF Set, ProxyTypes
<1>4. "service" \in Tasks /\ job'["service"] = j /\ \A u \in Tasks : u # "service" => job'[u] = Idle
  BY <1>3 DEF Tasks
<1> HIDE DEF j
<1>5. ProxyTypes' BY <1>1, <1>2, <1>3, CallTypes, DeskKeeps DEF ProxyTypes
<1>6. PlainKeys' BY <1>1, <1>2, <1>4, ElemEmpty DEF PlainKeys, EnvPlain, Idle
<1>7. record # TornRecord BY <1>1 DEF RecordFits, Idle
<1>8. record = NoRecord \/ record \in FullRecords BY <1>1, <1>7 DEF ProxyTypes
<1>9. CallShape(job["service"])' BY <1>2, <1>4 DEF CallShape, Placed, Fresh, LayersInOrder, Kde, Idle
<1>10. OnRecord(job["service"])'
  <2>1. j.at = "snapshot" => record = NoRecord BY <1>2, <1>8 DEF NoRecord, FullRecords
  <2>2. j.at = "write" => record \in FullRecords BY <1>2, <1>8 DEF NoRecord, FullRecords
  <2> QED BY <1>2, <1>4, <2>1, <2>2, DeskKeeps DEF OnRecord
<1>11. OneCall'
  BY <1>1, <1>4, <1>9, <1>10, OneAtATime DEF OneCall, Idle, Tasks
<1>12. RecordFits'
  BY <1>1, <1>4, <1>7, <1>9, <1>10, OneAtATime DEF RecordFits
<1>14. Progress(job["service"])' BY <1>2, <1>4 DEF Progress, Ahead
<1>15. NotOurs'
  BY <1>1, <1>4, <1>14, RestMakesNoProgress DEF NotOurs, Given, Layers, Kde, FullRecords
<1>16. PacFits'
  BY <1>1, <1>2, <1>4 DEF PacFits, Ahead, Idle
<1> QED BY <1>5, <1>6, <1>11, <1>12, <1>15, <1>16 DEF ProxyInv

(* ... or one that clears, if there is something on record, ... *)
LEMMA ClearsBegin ==
  ASSUME ProxyInv, NEW t \in Tasks, \A u \in Tasks : job[u] = Idle,
         job' = [u \in Tasks |-> IF u = t THEN DecideClear ELSE Idle],
         pacServer' \in BOOLEAN,
         settled' = IF DecideClear = Idle THEN "clear" ELSE "none",
         gui' \in {"up", "crashed", "quit"}, gui' = "up" \/ DecideClear = Idle,
         UNCHANGED <<desk, os, record, faults, unsaved, spoilt>>
  PROVE  ProxyInv'
<1> DEFINE j == DecideClear
<1>1. ProxyTypes /\ PlainKeys /\ OneCall /\ RecordFits /\ NotOurs /\ PacFits
  BY DEF ProxyInv
<1>2. \/ record = NoRecord /\ j = Idle
      \/ record = TornRecord /\ spoilt /\ j = Call("write", "blank", <<>>)
      \/ record \in FullRecords /\ j = Call("write", "restore", record.snap)
  <2>1. CASE record = NoRecord BY <2>1 DEF DecideClear, NoRecord
  <2>2. CASE record = TornRecord
    <3>1. spoilt BY <1>1, <2>2 DEF RecordFits, Idle
    <3> QED BY <2>2, <3>1 DEF DecideClear, TornRecord
  <2>3. CASE record \in FullRecords BY <2>3 DEF DecideClear, FullRecords
  <2> QED BY <1>1, <2>1, <2>2, <2>3 DEF ProxyTypes
<1>3. j = Idle <=> record = NoRecord
  BY <1>2 DEF Call, Idle, NoRecord, TornRecord, FullRecords
<1>4. job'[t] = j /\ \A u \in Tasks : u # t => job'[u] = Idle
  OBVIOUS
<1>5. j \in Calls
  BY <1>1, <1>2, CallTypes DEF ProxyTypes, FullRecords
<1>6. \/ j = Idle
      \/ /\ j.at = "write" /\ j.layer = "none" /\ j.rest = LayersInOrder /\ j.todo = <<>> /\ j.ok = "yes"
         /\ \/ j.kind = "blank" /\ record = TornRecord /\ spoilt
            \/ j.kind = "restore" /\ record \in FullRecords /\ j.snap = record.snap
  BY <1>2 DEF Call
<1>7. /\ Idle.kind = "none" /\ Idle.at = "idle" /\ Idle.layer = "none" /\ Idle.todo = <<>> /\ Idle.ok = "yes" BY DEF Idle
<1> HIDE DEF j
<1>8. ProxyTypes' BY <1>1, <1>5, CallTypes, DeskKeeps DEF ProxyTypes, j
<1>9. PlainKeys' BY <1>1, <1>4, <1>6, <1>7 DEF PlainKeys, EnvPlain
<1>10. CallShape(job[t])'
  BY <1>4, <1>6, <1>7, DeskKeeps DEF CallShape, Placed, Fresh
<1>11. OnRecord(job[t])' BY <1>4, <1>6, <1>7, DeskKeeps DEF OnRecord
<1>12. (\A u \in Tasks : CallShape(job[u]))' /\ (\A u \in Tasks : OnRecord(job[u]))'
       /\ (job'["service"] = Idle \/ job'["exit"] = Idle)
  BY <1>4, <1>10, <1>11, OneAtATime
<1>13. OneCall'
  <2>1. gui' # "up" \/ settled' = "clear" => \A u \in Tasks : job'[u] = Idle BY <1>4, <1>6, <1>7 DEF j
  <2>2. job'["exit"].kind \in {"none"} \cup Clears BY <1>4, <1>6, <1>7 DEF Clears, Tasks
  <2> QED BY <1>12, <2>1, <2>2 DEF OneCall
<1>14. RecordFits'
  <2>1. record' = TornRecord => spoilt' BY <1>1, <1>7 DEF RecordFits
  <2>2. record' = TornRecord => \E u \in Tasks : job'[u] # Idle
    BY <1>3, <1>4 DEF NoRecord, TornRecord
  <2>3. settled' = "clear" => record' = NoRecord BY <1>3 DEF j
  <2> QED BY <1>1, <1>12, <2>1, <2>2, <2>3 DEF RecordFits
<1>15. Progress(job[t])' BY <1>4, <1>6, <1>7 DEF Progress, Ahead
<1>16. NotOurs'
  BY <1>1, <1>4, <1>15, RestMakesNoProgress, DeskKeeps DEF NotOurs, Given
<1>17. PacFits'
  <2>1. ASSUME faults = 0, record = NoRecord PROVE \A l \in Layers : ~PacActive(l)
    <3>1. ~unsaved BY <1>1, <2>1 DEF RecordFits
    <3>2. record \notin FullRecords BY <2>1 DEF FullRecords, NoRecord
    <3>3. \A l \in Layers : Given(l, os[l]) BY <1>1, <2>1, <3>1, <3>2 DEF NotOurs, ProxyTypes
    <3>4. EnvPlain(os) /\ os \in [Layers -> Settings] BY <1>1 DEF PlainKeys, ProxyTypes
    <3> QED BY <2>1, <3>3, <3>4 DEF Given, PacActive, EnvPlain, Keys, Settings
  <2>2. (\A u \in Tasks : job'[u] = Idle) => record = NoRecord BY <1>3, <1>4
  <2>3. \A u \in Tasks : job'[u].kind # "system" BY <1>4, <1>6, <1>7
  <2> QED BY <2>1, <2>2, <2>3, DeskKeeps DEF PacFits, PacActive
<1> QED BY <1>8, <1>9, <1>13, <1>14, <1>16, <1>17 DEF ProxyInv

(* ... and a crash ends whatever was under way. *)
LEMMA CrashEnds == ASSUME ProxyInv, GuiCrash PROVE ProxyInv'
<1> USE DEF GuiCrash
<1>1. ProxyTypes /\ PlainKeys /\ OneCall /\ RecordFits /\ NotOurs /\ PacFits
  BY DEF ProxyInv
<1>2. \A u \in Tasks : job'[u] = Idle /\ Idle.kind = "none" /\ Idle.at = "idle" /\ Idle.layer = "none" /\ Idle.ok = "yes"
  BY DEF Idle
<1>3. ProxyTypes' BY <1>1, CallTypes, DeskKeeps DEF ProxyTypes
<1>4. PlainKeys' BY <1>1, <1>2 DEF PlainKeys, EnvPlain
<1>5. "service" \in Tasks /\ CallShape(job["service"])' /\ OnRecord(job["service"])' /\ Progress(job["service"])'
  BY <1>2 DEF CallShape, OnRecord, Progress, Tasks
<1>6. OneCall' BY <1>2, <1>5, OneAtATime DEF OneCall, Tasks
<1>7. RecordFits'
  <2>1. record' = TornRecord => spoilt'
    <3>1. record' = TornRecord => record.state = "torn" BY DEF TornRecord
    <3> QED BY <3>1, Zenon
  <2> QED BY <1>1, <1>2, <1>5, <2>1, OneAtATime DEF RecordFits
<1>8. NotOurs' BY <1>1, <1>2, <1>5, RestMakesNoProgress, DeskKeeps DEF NotOurs, Given
<1>9. PacFits' BY DEF PacFits
<1> QED BY <1>3, <1>4, <1>6, <1>7, <1>8, <1>9 DEF ProxyInv

(* What a step of the one call at work leaves to show. *)
LEMMA StepOfACall ==
  ASSUME ProxyInv, NEW t \in Tasks, job[t].at # "idle", NEW j, Set(t, j)
  PROVE  /\ gui = "up" /\ settled # "clear" /\ job[t] \in Calls /\ job[t] # Idle /\ CallShape(job[t]) /\ OnRecord(job[t])
         /\ job'[t] = j /\ (\A u \in Tasks : u # t => job'[u] = Idle)
         /\ (j \in Calls => job' \in [Tasks -> Calls])
         /\ j.kind = job[t].kind => job'["exit"].kind \in {"none"} \cup Clears
<1>1. job[t] # Idle BY DEF Idle
<1>2. gui = "up" /\ settled # "clear" /\ \A u \in Tasks : u # t => job[u] = Idle BY <1>1, OthersRest
<1>3. job \in [Tasks -> Calls] /\ CallShape(job[t]) /\ OnRecord(job[t]) BY DEF ProxyInv, ProxyTypes, OneCall, RecordFits
<1>4. job'[t] = j /\ (\A u \in Tasks : u # t => job'[u] = Idle) BY <1>2, <1>3 DEF Set
<1>5. j.kind = job[t].kind => job'["exit"].kind \in {"none"} \cup Clears
  <2>1. CASE t = "exit" BY <1>4, <2>1 DEF ProxyInv, OneCall
  <2>2. CASE t # "exit" BY <1>4, <2>2 DEF Tasks, Idle
  <2> QED BY <2>1, <2>2
<1> QED BY <1>1, <1>2, <1>3, <1>4, <1>5 DEF Set

(* The snapshot is of settings that are not the app's, since there is no record, ... *)
LEMMA SnapshotSteps == ASSUME ProxyInv, NEW t \in Tasks, TakeSnapshot(t) PROVE ProxyInv'
<1> USE DEF TakeSnapshot, Runs
<1> DEFINE j == [job[t] EXCEPT !.at = "create", !.snap = Snapshot]
<1>1. ProxyTypes /\ PlainKeys /\ OneCall /\ RecordFits /\ NotOurs /\ PacFits
  BY DEF ProxyInv
<1>2. Snapshot = os BY <1>1 DEF ProxyTypes, Snapshot
<1>3. /\ gui = "up" /\ settled # "clear" /\ job[t] \in Calls /\ CallShape(job[t]) /\ OnRecord(job[t])
      /\ job'[t] = j /\ (\A u \in Tasks : u # t => job'[u] = Idle) /\ (j \in Calls => job' \in [Tasks -> Calls])
      /\ (j.kind = job[t].kind => job'["exit"].kind \in {"none"} \cup Clears)
  BY StepOfACall
<1>4. j \in Calls BY <1>1, <1>2, <1>3 DEF Calls, ProxyTypes
<1>5. /\ j.at = "create" /\ j.kind = job[t].kind /\ j.snap = os /\ j.rest = job[t].rest /\ j.layer = job[t].layer
      /\ j.todo = job[t].todo /\ j.ok = job[t].ok
  BY <1>2, <1>3 DEF Calls
<1>6. j.kind \in {"system", "pac"} /\ Fresh(j) BY <1>3, <1>5 DEF CallShape, Fresh
<1> HIDE DEF j
<1>7. ProxyTypes' BY <1>1, <1>3, <1>4, DeskKeeps DEF ProxyTypes
<1>8. PlainKeys' BY <1>1, <1>3, <1>5, <1>6 DEF PlainKeys, EnvPlain, Fresh, Idle
<1>9. CallShape(job[t])' BY <1>3, <1>5, <1>6, DeskKeeps DEF CallShape, Fresh
<1>10. OnRecord(job[t])' BY <1>3, <1>5, <1>6, DeskKeeps DEF OnRecord
<1>11. OneCall'
  <2>1. job'["exit"].kind \in {"none"} \cup Clears BY <1>3, <1>5
  <2> QED BY <1>3, <1>9, <1>10, <2>1, OneAtATime DEF OneCall
<1>12. RecordFits'
  <2>1. record # TornRecord BY <1>3 DEF OnRecord, NoRecord, TornRecord
  <2> QED BY <1>1, <1>3, <1>9, <1>10, <2>1, OneAtATime DEF RecordFits
<1>13. Progress(job[t])' BY <1>3, <1>6 DEF Progress
<1>14. NotOurs' BY <1>1, <1>3, <1>13, RestMakesNoProgress, DeskKeeps DEF NotOurs, Given
<1>15. PacFits'
  <2>1. job'[t] # Idle BY <1>3, <1>5 DEF Idle
  <2>2. \A u \in Tasks : job'[u].at # "write" BY <1>3, <1>5 DEF Idle
  <2> QED BY <2>1, <2>2 DEF PacFits
<1> QED BY <1>7, <1>8, <1>11, <1>12, <1>14, <1>15 DEF ProxyInv

(* ... which is created empty, or not at all, ... *)
LEMMA CreateSteps == ASSUME ProxyInv, NEW t \in Tasks, CreateRecord(t) PROVE ProxyInv'
<1> USE DEF CreateRecord, Runs
<1>1. ProxyTypes /\ PlainKeys /\ OneCall /\ RecordFits /\ NotOurs /\ PacFits
  BY DEF ProxyInv
<1>2. PICK a \in {"fill", "write"} :
        /\ Set(t, [job[t] EXCEPT !.at = a])
        /\ \/ a = "fill" /\ record' = TornRecord /\ UNCHANGED <<faults, unsaved>>
           \/ a = "write" /\ record' = record /\ faults' = faults + 1 /\ unsaved' = TRUE
  OBVIOUS
<1> DEFINE j == [job[t] EXCEPT !.at = a]
<1>3. /\ gui = "up" /\ settled # "clear" /\ job[t] \in Calls /\ CallShape(job[t]) /\ OnRecord(job[t])
      /\ job'[t] = j /\ (\A u \in Tasks : u # t => job'[u] = Idle) /\ (j \in Calls => job' \in [Tasks -> Calls])
      /\ (j.kind = job[t].kind => job'["exit"].kind \in {"none"} \cup Clears)
  BY <1>2, StepOfACall
<1>4. j \in Calls BY <1>3 DEF Calls
<1>5. /\ j.at = a /\ j.kind = job[t].kind /\ j.snap = job[t].snap /\ j.rest = job[t].rest /\ j.layer = job[t].layer
      /\ j.todo = job[t].todo /\ j.ok = job[t].ok
  BY <1>3 DEF Calls
<1>6. j.kind \in {"system", "pac"} /\ Fresh(j) /\ j.snap = os /\ record = NoRecord
  BY <1>3, <1>5 DEF CallShape, OnRecord, Fresh
<1> HIDE DEF j
<1>7. faults \in Nat /\ faults' \in Nat /\ (unsaved' => faults' > 0) /\ (faults' = 0 => faults = 0)
      /\ (a = "write" => faults' > 0 /\ unsaved')
  BY <1>1, <1>2 DEF ProxyTypes, RecordFits
<1>8. ProxyTypes' BY <1>1, <1>2, <1>3, <1>4, <1>7, DeskKeeps DEF ProxyTypes
<1>9. PlainKeys'
  <2>1. record'.snap = <<>> /\ record.snap = <<>> BY <1>2, <1>6 DEF NoRecord, TornRecord
  <2>2. EnvPlain(record.snap)' BY <1>1, <2>1 DEF PlainKeys, EnvPlain
  <2> QED BY <1>1, <1>3, <1>6, <2>2 DEF PlainKeys, EnvPlain, Fresh, Idle
<1>10. CallShape(job[t])' BY <1>3, <1>5, <1>6, DeskKeeps DEF CallShape, Placed, Fresh
<1>11. OnRecord(job[t])' BY <1>2, <1>3, <1>5, <1>6, <1>7, DeskKeeps DEF OnRecord
<1>12. OneCall'
  <2>1. job'["exit"].kind \in {"none"} \cup Clears BY <1>3, <1>5
  <2> QED BY <1>3, <1>10, <1>11, <2>1, OneAtATime DEF OneCall
<1>13. RecordFits'
  <2>1. record' = TornRecord => a = "fill" BY <1>2, <1>6 DEF NoRecord, TornRecord
  <2>2. record' = TornRecord => job'[t].at = "fill" /\ job'[t] # Idle BY <1>3, <1>5, <2>1 DEF Idle
  <2> QED BY <1>1, <1>3, <1>7, <1>10, <1>11, <2>2, OneAtATime DEF RecordFits
<1>14. Progress(job[t])' BY <1>3, <1>6 DEF Progress
<1>15. NotOurs'
  <2>1. CASE a = "write" BY <1>7, <2>1 DEF NotOurs
  <2>2. CASE a = "fill"
    <3>1. record \notin FullRecords /\ record' \notin FullRecords BY <1>2, <1>6, <2>2 DEF NoRecord, TornRecord, FullRecords
    <3> QED BY <1>1, <1>2, <1>3, <1>14, <2>2, <3>1, RestMakesNoProgress, DeskKeeps DEF NotOurs, Given
  <2> QED BY <2>1, <2>2
<1>16. PacFits'
  <2>1. job'[t] # Idle BY <1>3, <1>5 DEF Idle
  <2>2. CASE a = "write" BY <1>7, <2>2 DEF PacFits
  <2>3. CASE a = "fill"
    <3>1. \A u \in Tasks : job'[u].at # "write" BY <1>3, <1>5, <2>3 DEF Idle
    <3> QED BY <2>1, <3>1 DEF PacFits
  <2> QED BY <2>2, <2>3
<1> QED BY <1>8, <1>9, <1>12, <1>13, <1>15, <1>16 DEF ProxyInv

(* ... and filled before any setting is changed. *)
LEMMA FillSteps == ASSUME ProxyInv, NEW t \in Tasks, FillRecord(t) PROVE ProxyInv'
<1> USE DEF FillRecord, Runs
<1> DEFINE j == [job[t] EXCEPT !.at = "write", !.snap = <<>>]
<1>1. ProxyTypes /\ PlainKeys /\ OneCall /\ RecordFits /\ NotOurs /\ PacFits
  BY DEF ProxyInv
<1>2. /\ gui = "up" /\ settled # "clear" /\ job[t] \in Calls /\ CallShape(job[t]) /\ OnRecord(job[t])
      /\ job'[t] = j /\ (\A u \in Tasks : u # t => job'[u] = Idle) /\ (j \in Calls => job' \in [Tasks -> Calls])
      /\ (j.kind = job[t].kind => job'["exit"].kind \in {"none"} \cup Clears)
  BY StepOfACall
<1>3. j \in Calls BY <1>2 DEF Calls
<1>4. /\ j.at = "write" /\ j.kind = job[t].kind /\ j.rest = job[t].rest /\ j.layer = job[t].layer
      /\ j.todo = job[t].todo /\ j.ok = job[t].ok
  BY <1>2 DEF Calls
<1>5. j.kind \in {"system", "pac"} /\ Fresh(j) /\ job[t].snap = os /\ record = TornRecord
  BY <1>2, <1>4 DEF CallShape, OnRecord, Fresh
<1>6. record' = [state |-> "full", snap |-> os] BY <1>5
<1>7. record' \in FullRecords /\ record'.snap = os /\ record \notin FullRecords
  BY <1>1, <1>5, <1>6 DEF FullRecords, ProxyTypes, TornRecord
<1> HIDE DEF j
<1>8. ProxyTypes' BY <1>1, <1>2, <1>3, <1>7, DeskKeeps DEF ProxyTypes
<1>9. PlainKeys' BY <1>1, <1>2, <1>5, <1>7 DEF PlainKeys, EnvPlain, Fresh, Idle
<1>10. CallShape(job[t])' BY <1>2, <1>4, <1>5, DeskKeeps DEF CallShape, Placed, Fresh
<1>11. OnRecord(job[t])' BY <1>2, <1>4, <1>5, <1>7, DeskKeeps DEF OnRecord
<1>12. OneCall'
  <2>1. job'["exit"].kind \in {"none"} \cup Clears BY <1>2, <1>4
  <2> QED BY <1>2, <1>10, <1>11, <2>1, OneAtATime DEF OneCall
<1>13. RecordFits'
  <2>1. record' # TornRecord BY <1>6 DEF TornRecord
  <2> QED BY <1>1, <1>2, <1>10, <1>11, <2>1, OneAtATime DEF RecordFits
<1>14. Progress(job[t])' BY <1>2, <1>5 DEF Progress
<1>15. NotOurs' BY <1>1, <1>2, <1>7, <1>14, RestMakesNoProgress, DeskKeeps DEF NotOurs, Given
<1>16. PacFits'
  <2>1. job'[t] # Idle BY <1>2, <1>4 DEF Idle
  <2>2. \A u \in Tasks : job'[u].at = "write" => u = t BY <1>2 DEF Idle
  <2>3. Layers' \ Ahead(job[t])' = {} BY <1>2, <1>5 DEF Ahead, Fresh
  <2> QED BY <2>1, <2>2, <2>3 DEF PacFits
<1> QED BY <1>8, <1>9, <1>12, <1>13, <1>15, <1>16 DEF ProxyInv

(* The layers a call is through with. *)
LEMMA Through ==
  ASSUME ProxyInv, NEW t \in Tasks, job[t].at = "write", job[t].todo = <<>>, job[t].ok # "no", ~unsaved, faults <= 1
  PROVE  job[t].kind = "restore" => \A l \in Layers \ Ahead(job[t]) : Given(l, os[l])
<1> SUFFICES ASSUME job[t].kind = "restore", NEW l \in Layers \ Ahead(job[t]) PROVE Given(l, os[l])
  OBVIOUS
<1>1. /\ ProxyTypes /\ NotOurs /\ CallShape(job[t]) /\ OnRecord(job[t]) /\ job[t] \in Calls
  BY DEF ProxyInv, ProxyTypes, OneCall, RecordFits
<1>2. CASE l # job[t].layer BY <1>1, <1>2 DEF NotOurs, Progress
<1>3. CASE l = job[t].layer
  <2>1. Restoring(job[t], l) /\ Given(l, record.snap[l]) /\ record.snap = job[t].snap /\ record \in FullRecords
    BY <1>1, <1>3 DEF NotOurs, Progress, OnRecord
  <2>2. CASE job[t].ok = "yes" /\ (l = "env" => faults = 0)
    <3>1. \A k \in Keys : os[l][k] = record.snap[l][k] BY <2>1, <2>2, ElemEmpty DEF Restoring
    <3>2. os[l] \in Settings /\ record.snap[l] \in Settings BY <1>1, <2>1 DEF ProxyTypes, FullRecords
    <3>3. os[l] = record.snap[l] BY <3>1, <3>2 DEF Settings
    <3> QED BY <2>1, <3>3
  <2>3. CASE l = "env" /\ faults # 0 BY <1>1, <2>3 DEF Given, ProxyTypes
  <2>4. CASE job[t].ok = "off"
    <3>1. l # "env" /\ faults > 0 BY <1>1, <1>3, <2>4 DEF CallShape
    <3> QED BY <2>1, <2>4, <3>1, ElemEmpty DEF Restoring, Given
  <2>5. job[t].ok \in {"yes", "off"} BY <1>1 DEF Calls
  <2> QED BY <2>2, <2>3, <2>4, <2>5
<1> QED BY <1>2, <1>3

(* A call for the system mode leaves no layer at a PAC script. *)
LEMMA PacLeft ==
  ASSUME ProxyInv, NEW t \in Tasks, job[t].at = "write", job[t].todo = <<>>, job[t].kind = "system", faults = 0, gui = "up"
  PROVE  \A l \in Layers \ Ahead(job[t]) : ~PacActive(l)
BY ElemEmpty DEF ProxyInv, PacFits, LeavesPac, PacActive

(* A record found torn was hit by a crash. *)
LEMMA TornByCrash ==
  ASSUME ProxyInv, NEW t \in Tasks, job[t].at = "write", record = TornRecord
  PROVE  spoilt
<1>1. \A u \in Tasks : u # t => job[u].at = "idle" BY OthersRest DEF Idle
<1> QED BY <1>1 DEF ProxyInv, RecordFits

(* Where a call is among the layers. *)
LEMMA NextLayer ==
  ASSUME desk \in {"gnome", "kde", "windows"}, NEW j \in Calls, Placed(j), j.rest # <<>>
  PROVE  /\ Head(j.rest) \in Layers /\ Head(j.rest) # j.layer
         /\ Tail(j.rest) = (IF Head(j.rest) \in {"gsettings", "kde"} THEN <<"env">> ELSE <<>>)
         /\ \A n : n.layer = Head(j.rest) => Layers \ Ahead(n) = (Layers \ Ahead(j)) \cup {Head(j.rest)}
         /\ Head(j.rest) \in Ahead(j)
<1>1. CASE Fresh(j)
  <2>1. Head(j.rest) \in Layers /\ Head(j.rest) \in {"gsettings", "kde", "wininet"}
        /\ Tail(j.rest) = (IF Head(j.rest) \in {"gsettings", "kde"} THEN <<"env">> ELSE <<>>)
    <3>1. /\ Head(<<"wininet">>) = "wininet" /\ Head(<<"kde", "env">>) = "kde" /\ Head(<<"gsettings", "env">>) = "gsettings"
          /\ Tail(<<"wininet">>) = <<>> /\ Tail(<<"kde", "env">>) = <<"env">> /\ Tail(<<"gsettings", "env">>) = <<"env">>
      BY ONLY SMT
    <3> QED BY <1>1, <3>1, DeskLayers DEF Fresh
  <2>2. "none" \notin Layers BY DeskLayers
  <2> QED BY <1>1, <2>1, <2>2 DEF Fresh, Ahead
<1>2. CASE j.layer \in Layers /\ j.layer \in {"gsettings", "kde"} /\ j.rest = <<"env">>
  <2>1. Layers = {j.layer, "env"} BY <1>2, DeskLayers
  <2> QED BY <1>2, <2>1 DEF Ahead
<1> QED BY <1>1, <1>2 DEF Placed

(* With no layer left to begin, none is ahead. *)
LEMMA LastLayer ==
  ASSUME desk \in {"gnome", "kde", "windows"}, NEW j \in Calls, Placed(j), j.rest = <<>>
  PROVE  Layers \ Ahead(j) = Layers
<1>1. j.layer \in {"env", "wininet"} /\ j.layer \in Layers BY DeskLayers DEF Placed, Fresh
<1> QED BY <1>1, DeskLayers DEF Ahead

(* The next layer begins when the one before it is settled. *)
LEMMA LayerBegins == ASSUME ProxyInv, NEW t \in Tasks, BeginLayer(t) PROVE ProxyInv'
<1> USE DEF BeginLayer, Runs
<1> DEFINE l == Head(job[t].rest)
           w == LayerWrites(job[t].kind, job[t].snap, l)
           j == [job[t] EXCEPT !.rest = Tail(@), !.layer = l, !.ok = "yes", !.todo = w]
<1>1. ProxyTypes /\ PlainKeys /\ OneCall /\ RecordFits /\ NotOurs /\ PacFits
  BY DEF ProxyInv
<1>2. /\ gui = "up" /\ settled # "clear" /\ job[t] \in Calls /\ CallShape(job[t]) /\ OnRecord(job[t])
      /\ job'[t] = j /\ (\A u \in Tasks : u # t => job'[u] = Idle) /\ (j \in Calls => job' \in [Tasks -> Calls])
      /\ (j.kind = job[t].kind => job'["exit"].kind \in {"none"} \cup Clears)
  BY StepOfACall
<1>3. desk \in {"gnome", "kde", "windows"} /\ Placed(job[t]) /\ job[t].kind \in {"system", "pac"} \cup Clears
  BY <1>1, <1>2 DEF ProxyTypes, CallShape, Calls
<1>4. /\ l \in Layers /\ l # job[t].layer /\ Tail(job[t].rest) = (IF l \in {"gsettings", "kde"} THEN <<"env">> ELSE <<>>)
      /\ \A n : n.layer = l => Layers \ Ahead(n) = (Layers \ Ahead(job[t])) \cup {l}
      /\ l \in Ahead(job[t])
  BY <1>2, <1>3, NextLayer
<1>5. l \in {"gsettings", "kde", "env", "wininet"} BY <1>3, <1>4, DeskLayers
<1> HIDE DEF l
<1>6. job[t].kind = "restore" => job[t].snap \in [Layers -> Settings] /\ record \in FullRecords /\ record.snap = job[t].snap
  BY <1>2 DEF OnRecord, FullRecords
<1>8. /\ w \in Seq(Cmds)
      /\ l = "env" => \A x \in Elem(w) : x.key = "server"
      /\ job[t].kind = "restore" =>
            Elem(w) = {[key |-> k, value |-> job[t].snap[l][k]] : k \in IF l = "env" THEN {"server"} ELSE Keys}
      /\ job[t].kind = "blank" => w = Disable(l)
      /\ job[t].kind = "system" => w = SystemProxy(l)
  <2>1. CASE job[t].kind = "restore"
    <3>1. w = RestoreLayer(job[t].snap, l) BY <2>1 DEF LayerWrites
    <3>2. l \in DOMAIN job[t].snap /\ job[t].snap[l] \in Settings BY <1>4, <1>6, <2>1
    <3> QED BY <1>5, <2>1, <3>1, <3>2, RestoreWrites
  <2>2. CASE job[t].kind = "blank" BY <1>5, <2>2, DisableWrites DEF LayerWrites
  <2>3. CASE job[t].kind = "system" BY <1>5, <2>3, SystemWrites DEF LayerWrites
  <2>4. CASE job[t].kind = "pac" BY <1>5, <2>4, PacWrites DEF LayerWrites
  <2> QED BY <1>3, <2>1, <2>2, <2>3, <2>4 DEF Clears
<1> HIDE DEF w
<1>9. /\ j.at = "write" /\ j.kind = job[t].kind /\ j.snap = job[t].snap /\ j.rest = Tail(job[t].rest) /\ j.layer = l
      /\ j.todo = w /\ j.ok = "yes"
  BY <1>2 DEF Calls
<1>10. j \in Calls BY <1>2, <1>4, <1>8 DEF Calls
<1> HIDE DEF j
<1>11. ProxyTypes' BY <1>1, <1>2, <1>10, DeskKeeps DEF ProxyTypes
<1>12. PlainKeys' BY <1>1, <1>2, <1>8, <1>9 DEF PlainKeys, EnvPlain, Idle
<1>13. CallShape(job[t])' BY <1>2, <1>4, <1>9, DeskKeeps DEF CallShape, Placed
<1>14. OnRecord(job[t])' BY <1>2, <1>9, DeskKeeps DEF OnRecord
<1>15. OneCall'
  <2>1. job'["exit"].kind \in {"none"} \cup Clears BY <1>2, <1>9
  <2> QED BY <1>2, <1>13, <1>14, <2>1, OneAtATime DEF OneCall
<1>16. RecordFits'
  <2>1. record = TornRecord => spoilt BY TornByCrash
  <2>2. job'[t] # Idle BY <1>2, <1>9 DEF Idle
  <2> QED BY <1>1, <1>2, <1>13, <1>14, <2>1, <2>2, OneAtATime DEF RecordFits
<1>17. Layers' \ Ahead(job[t])' = (Layers \ Ahead(job[t])) \cup {l} BY <1>2, <1>4, <1>9, DeskKeeps
<1>18. NotOurs'
  <2> SUFFICES ASSUME ~unsaved, faults <= 1 PROVE NotOurs' BY DEF NotOurs
  <2>1. Progress(job[t])'
    <3> SUFFICES ASSUME NEW h \in (Layers \ Ahead(job[t])) \cup {l}
                 PROVE  (/\ job[t].kind = "restore" => IF h = job[t].layer THEN Restoring(job[t], h) ELSE Given(h, os[h])
                         /\ job[t].kind = "blank" /\ h = job[t].layer => Blanking(job[t], h))'
      BY <1>17 DEF Progress
    <3>1. CASE h # l
      <4>1. job[t].kind = "restore" => Given(h, os[h]) BY <3>1, Through
      <4> QED BY <1>2, <1>9, <3>1, <4>1 DEF Given
    <3>2. CASE h = l
      <4>1. ASSUME job[t].kind = "restore" PROVE Restoring(job[t], h)'
        <5>1. ASSUME l # "env" PROVE \A k \in Keys : [key |-> k, value |-> job[t].snap[l][k]] \in Elem(w)
          BY <1>8, <4>1, <5>1
        <5>2. ASSUME l = "env", faults = 0
              PROVE  \A k \in Keys : os[l][k] = job[t].snap[l][k] \/ [key |-> k, value |-> job[t].snap[l][k]] \in Elem(w)
          <6>1. /\ os[l].mode = "user" /\ os[l].script = "user"
                /\ job[t].snap[l].mode = "user" /\ job[t].snap[l].script = "user"
            BY <1>1, <1>4, <1>6, <4>1, <5>2 DEF PlainKeys, EnvPlain, ProxyTypes
          <6>2. [key |-> "server", value |-> job[t].snap[l]["server"]] \in Elem(w) BY <1>8, <4>1, <5>2
          <6> QED BY <6>1, <6>2 DEF Keys
        <5>3. \A x \in Elem(w) : x.value = job[t].snap[l][x.key] BY <1>8, <4>1
        <5> QED BY <1>2, <1>9, <3>2, <5>1, <5>2, <5>3 DEF Restoring
      <4>2. ASSUME job[t].kind = "blank" PROVE Blanking(job[t], h)'
        BY <1>2, <1>5, <1>8, <1>9, <3>2, <4>2, DisableWrites DEF Blanking
      <4> QED BY <1>2, <1>9, <3>2, <4>1, <4>2
    <3> QED BY <3>1, <3>2
  <2> QED BY <1>1, <1>2, <2>1, RestMakesNoProgress, DeskKeeps DEF NotOurs, Given
<1>19. PacFits'
  <2> SUFFICES ASSUME faults = 0 PROVE PacFits' BY DEF PacFits
  <2>1. job'[t] # Idle BY <1>2, <1>9 DEF Idle
  <2>2. \A u \in Tasks : job'[u].at = "write" => u = t BY <1>2 DEF Idle
  <2>3. ASSUME job[t].kind = "system", NEW h \in (Layers \ Ahead(job[t])) \cup {l}
        PROVE  (IF h = job[t].layer THEN LeavesPac(job[t], h) ELSE ~PacActive(h))'
    <3>1. CASE h # l BY <1>2, <1>9, <2>3, <3>1, PacLeft DEF PacActive
    <3>2. CASE h = l
      <4>1. LeavesPac(job[t], h)'
        <5>1. (l = "env" => os[l].mode # "pac") BY <1>1, <1>4 DEF PlainKeys, EnvPlain, ProxyTypes
        <5>2. /\ \A x \in Elem(w) : x.value # "pac"
              /\ l = "wininet" => [key |-> "script", value |-> "off"] \in Elem(w)
              /\ l \in {"gsettings", "kde"} => [key |-> "mode", value |-> "ours"] \in Elem(w)
          BY <1>5, <1>8, <2>3, SystemWrites
        <5> QED BY <1>2, <1>5, <1>9, <3>2, <5>1, <5>2 DEF LeavesPac
      <4> QED BY <1>2, <1>9, <3>2, <4>1
    <3> QED BY <3>1, <3>2
  <2> QED BY <1>2, <1>9, <1>17, <2>1, <2>2, <2>3 DEF PacFits
<1> QED BY <1>11, <1>12, <1>15, <1>16, <1>18, <1>19 DEF ProxyInv

(* A layer that did not go back is switched off. *)
LEMMA LayerIsDisabled == ASSUME ProxyInv, NEW t \in Tasks, DisableLayer(t) PROVE ProxyInv'
<1> USE DEF DisableLayer, Runs
<1> DEFINE l == job[t].layer
           w == Disable(l)
           j == [job[t] EXCEPT !.ok = "off", !.todo = w]
<1>1. ProxyTypes /\ PlainKeys /\ OneCall /\ RecordFits /\ NotOurs /\ PacFits
  BY DEF ProxyInv
<1>2. /\ gui = "up" /\ settled # "clear" /\ job[t] \in Calls /\ CallShape(job[t]) /\ OnRecord(job[t])
      /\ job'[t] = j /\ (\A u \in Tasks : u # t => job'[u] = Idle) /\ (j \in Calls => job' \in [Tasks -> Calls])
      /\ (j.kind = job[t].kind => job'["exit"].kind \in {"none"} \cup Clears)
  BY StepOfACall
<1>3. /\ desk \in {"gnome", "kde", "windows"} /\ job[t].kind = "restore" /\ faults > 0 /\ l # "env"
      /\ l \in Layers /\ Placed(job[t]) /\ ~Fresh(job[t])
  BY <1>1, <1>2 DEF ProxyTypes, CallShape, Placed, Fresh
<1>4. l \in {"gsettings", "kde", "wininet"} BY <1>3, DeskLayers
<1>5. /\ w \in Seq(Cmds) /\ \A x \in Elem(w) : x.value = "off"
      /\ [key |-> "mode", value |-> "off"] \in Elem(w)
      /\ l = "wininet" => [key |-> "script", value |-> "off"] \in Elem(w)
  BY <1>4, DisableWrites
<1> HIDE DEF w
<1>6. /\ j.at = "write" /\ j.kind = "restore" /\ j.snap = job[t].snap /\ j.rest = job[t].rest /\ j.layer = job[t].layer
      /\ j.todo = w /\ j.ok = "off"
  BY <1>2, <1>3 DEF Calls
<1>7. j \in Calls BY <1>2, <1>5 DEF Calls
<1> HIDE DEF j
<1>8. ProxyTypes' BY <1>1, <1>2, <1>7, DeskKeeps DEF ProxyTypes
<1>9. PlainKeys' BY <1>1, <1>2, <1>3, <1>6 DEF PlainKeys, EnvPlain, Idle
<1>10. CallShape(job[t])' BY <1>2, <1>3, <1>6, DeskKeeps DEF CallShape, Placed, Fresh
<1>11. OnRecord(job[t])' BY <1>2, <1>3, <1>6, DeskKeeps DEF OnRecord
<1>12. OneCall'
  <2>1. job'["exit"].kind \in {"none"} \cup Clears BY <1>2, <1>3, <1>6
  <2> QED BY <1>2, <1>10, <1>11, <2>1, OneAtATime DEF OneCall
<1>13. RecordFits'
  <2>1. job'[t] # Idle BY <1>2, <1>6 DEF Idle
  <2> QED BY <1>1, <1>2, <1>10, <1>11, <2>1, TornByCrash, OneAtATime DEF RecordFits
<1>14. NotOurs'
  <2> SUFFICES ASSUME ~unsaved, faults <= 1 PROVE NotOurs' BY DEF NotOurs
  <2>1. Progress(job[t])'
    <3> SUFFICES ASSUME NEW h \in Layers \ Ahead(job[t])
                 PROVE  (IF h = job[t].layer THEN Restoring(job[t], h) ELSE Given(h, os[h]))'
      BY <1>2, <1>6, DeskKeeps DEF Progress, Ahead
    <3>1. CASE h # l
      <4>1. Given(h, os[h]) BY <1>1, <1>3, <3>1 DEF NotOurs, Progress
      <4> QED BY <1>2, <1>6, <3>1, <4>1 DEF Given
    <3>2. CASE h = l BY <1>2, <1>5, <1>6, <3>2 DEF Restoring
    <3> QED BY <3>1, <3>2
  <2> QED BY <1>1, <1>2, <2>1, RestMakesNoProgress, DeskKeeps DEF NotOurs, Given
<1>15. PacFits' BY <1>1, <1>3 DEF PacFits, ProxyTypes
<1> QED BY <1>8, <1>9, <1>12, <1>13, <1>14, <1>15 DEF ProxyInv

(* What both outcomes of a command share. *)
LEMMA KeyIsTried ==
  ASSUME ProxyInv, NEW t \in Tasks, Runs(t, "write"), job[t].todo # <<>>, NEW o \in {"yes", "no", "off"},
         Set(t, [job[t] EXCEPT !.todo = Tail(@), !.ok = o]), o # "yes" => job[t].kind = "restore" /\ job[t].layer # "env" /\ faults' > 0,
         faults' \in Nat, faults' >= faults, os' \in [Layers -> Settings], EnvPlain(os'),
         UNCHANGED <<desk, record, pacServer, gui, settled, unsaved, spoilt>>
  PROVE  /\ ProxyTypes' /\ PlainKeys' /\ OneCall' /\ RecordFits'
         /\ job'[t].at = "write" /\ job'[t].kind = job[t].kind /\ job'[t].snap = job[t].snap /\ job'[t].layer = job[t].layer
         /\ job'[t].ok = o /\ Elem(job[t].todo) = {Head(job[t].todo)} \cup Elem(job'[t].todo)
         /\ Head(job[t].todo) \in Cmds /\ job[t].layer \in Layers
         /\ (\A u \in Tasks : u # t => job'[u] = Idle)
         /\ Layers' = Layers /\ FullRecords' = FullRecords /\ Ahead(job[t])' = Ahead(job[t])
<1> USE DEF Runs
<1> DEFINE j == [job[t] EXCEPT !.todo = Tail(@), !.ok = o]
<1>1. ProxyTypes /\ PlainKeys /\ OneCall /\ RecordFits
  BY DEF ProxyInv
<1>2. /\ gui = "up" /\ settled # "clear" /\ job[t] \in Calls /\ CallShape(job[t]) /\ OnRecord(job[t])
      /\ job'[t] = j /\ (\A u \in Tasks : u # t => job'[u] = Idle) /\ (j \in Calls => job' \in [Tasks -> Calls])
      /\ (j.kind = job[t].kind => job'["exit"].kind \in {"none"} \cup Clears)
  BY StepOfACall
<1>3. /\ Head(job[t].todo) \in Cmds /\ Tail(job[t].todo) \in Seq(Cmds)
      /\ Elem(job[t].todo) = {Head(job[t].todo)} \cup Elem(Tail(job[t].todo))
  BY <1>2, ElemHead DEF Calls
<1>4. /\ j.at = "write" /\ j.kind = job[t].kind /\ j.snap = job[t].snap /\ j.rest = job[t].rest /\ j.layer = job[t].layer
      /\ j.todo = Tail(job[t].todo) /\ j.ok = o
  BY <1>2 DEF Calls
<1>5. j \in Calls BY <1>2, <1>3 DEF Calls
<1> HIDE DEF j
<1>6. Placed(job[t]) /\ ~Fresh(job[t]) /\ job[t].layer \in Layers BY <1>2 DEF CallShape, Placed, Fresh
<1>7. ProxyTypes' BY <1>1, <1>2, <1>5, DeskKeeps DEF ProxyTypes
<1>8. PlainKeys' BY <1>1, <1>2, <1>3, <1>4 DEF PlainKeys, EnvPlain, Idle
<1>9. CallShape(job[t])' BY <1>2, <1>4, <1>6, DeskKeeps DEF CallShape, Placed, Fresh
<1>10. OnRecord(job[t])' BY <1>2, <1>4, DeskKeeps DEF OnRecord
<1>11. OneCall'
  <2>1. job'["exit"].kind \in {"none"} \cup Clears BY <1>2, <1>4
  <2> QED BY <1>2, <1>9, <1>10, <2>1, OneAtATime DEF OneCall
<1>12. RecordFits'
  <2>1. job'[t] # Idle BY <1>2, <1>4 DEF Idle
  <2>2. unsaved => faults' > 0 BY <1>1 DEF RecordFits, ProxyTypes
  <2> QED BY <1>1, <1>2, <1>9, <1>10, <2>1, <2>2, TornByCrash, OneAtATime DEF RecordFits
<1>13. Ahead(job[t])' = Ahead(job[t]) BY <1>2, <1>4, DeskKeeps DEF Ahead
<1> QED BY <1>2, <1>3, <1>4, <1>6, <1>7, <1>8, <1>11, <1>12, <1>13, DeskKeeps

(* One key is written, ... *)
LEMMA KeyIsWritten ==
  ASSUME ProxyInv, NEW t \in Tasks, Runs(t, "write"), job[t].todo # <<>>,
         os' = [os EXCEPT ![job[t].layer][Head(job[t].todo).key] = Head(job[t].todo).value],
         Set(t, [job[t] EXCEPT !.todo = Tail(@)]), UNCHANGED faults,
         UNCHANGED <<desk, record, pacServer, gui, settled, unsaved, spoilt>>
  PROVE  ProxyInv'
<1> DEFINE l == job[t].layer
           w == Head(job[t].todo)
<1>1. /\ ProxyTypes /\ PlainKeys /\ OneCall /\ RecordFits /\ NotOurs /\ PacFits
      /\ CallShape(job[t]) /\ OnRecord(job[t]) /\ job[t] \in Calls
  BY DEF ProxyInv, ProxyTypes, OneCall, RecordFits
<1>2. /\ job[t].todo \in Seq(Cmds) /\ w \in Cmds /\ Elem(job[t].todo) = {w} \cup Elem(Tail(job[t].todo))
      /\ job[t].at = "write" /\ gui = "up"
  BY <1>1, ElemHead DEF Calls, Runs
<1>3. l \in Layers \ Ahead(job[t]) /\ job[t].kind \in {"system", "pac"} \cup Clears
  <2>1. l \in Layers /\ l # "none" BY <1>1, <1>2, DeskLayers DEF CallShape, Placed, Fresh, ProxyTypes
  <2> QED BY <1>1, <1>2, <2>1 DEF Ahead, CallShape, Calls
<1>4. w.key \in Keys /\ w.value \in Whose BY <1>2 DEF Cmds
<1>5. /\ os' \in [Layers -> Settings] /\ (\A h \in Layers : h # l => os'[h] = os[h])
      /\ os'[l] = [os[l] EXCEPT ![w.key] = w.value] /\ os[l] \in Settings
  BY <1>1, <1>3, <1>4 DEF ProxyTypes, Settings
<1>6. os'[l][w.key] = w.value /\ \A k \in Keys : k # w.key => os'[l][k] = os[l][k]
  BY <1>4, <1>5 DEF Settings
<1>7. EnvPlain(os')
  <2>1. EnvPlain(os) /\ (l = "env" => w.key = "server") BY <1>1, <1>2 DEF PlainKeys
  <2> QED BY <1>1, <1>5, <1>6, <2>1 DEF EnvPlain, Keys, ProxyTypes
<1> DEFINE n == job'[t]
<1>8. /\ ProxyTypes' /\ PlainKeys' /\ OneCall' /\ RecordFits'
      /\ n.at = "write" /\ n.kind = job[t].kind /\ n.snap = job[t].snap /\ n.layer = l
      /\ n.ok = job[t].ok /\ Elem(job[t].todo) = {w} \cup Elem(n.todo)
      /\ (\A u \in Tasks : u # t => job'[u] = Idle)
      /\ Layers' = Layers /\ FullRecords' = FullRecords /\ Ahead(job[t])' = Ahead(job[t])
  <2>1. [job[t] EXCEPT !.todo = Tail(@), !.ok = job[t].ok] = [job[t] EXCEPT !.todo = Tail(@)] BY <1>1 DEF Calls
  <2>2. job[t].ok \in {"yes", "no", "off"} /\ (job[t].ok # "yes" => job[t].kind = "restore" /\ l # "env" /\ faults' > 0)
    BY <1>1 DEF CallShape, Calls
  <2>3. faults' \in Nat /\ faults' >= faults BY <1>1 DEF ProxyTypes
  <2> QED BY <1>5, <1>7, <2>1, <2>2, <2>3, KeyIsTried
<1> HIDE DEF l, w, n
<1>9. NotOurs'
  <2> SUFFICES ASSUME ~unsaved, faults <= 1 PROVE NotOurs' BY DEF NotOurs
  <2>1. ASSUME record \notin FullRecords, NEW h \in Layers PROVE Given(h, os[h])'
    <3>1. Given(h, os[h]) BY <1>1, <2>1 DEF NotOurs
    <3>2. job[t].kind = "blank" /\ spoilt BY <1>1, <1>2, <1>3, <2>1 DEF OnRecord, Clears
    <3>3. CASE h # l BY <1>5, <3>1, <3>3 DEF Given
    <3>4. CASE h = l
      <4>1. Blanking(job[t], l) BY <1>1, <1>3, <3>2 DEF NotOurs, Progress, l
      <4>2. w.value = "off" /\ w.key \in {"mode"} \cup (IF l = "wininet" THEN {"script"} ELSE IF l = "env" THEN {"server"} ELSE {})
        BY <1>2, <4>1 DEF Blanking
      <4>3. l = "env" => w.key = "server" BY <1>1, <1>2 DEF PlainKeys, l
      <4> QED
        <5>1. CASE l = "env" BY <1>6, <3>2, <3>4, <4>2, <4>3, <5>1 DEF Given
        <5>2. CASE l # "env"
          <6>1. CASE w.key = "mode"
            <7>1. os'[l].mode = "off" /\ os'[l].script = os[l].script BY <1>6, <4>2, <6>1 DEF Keys
            <7>2. os[l].script = "pac" => l # "wininet" BY <3>1, <3>4, <5>2 DEF Given, Keys
            <7> QED BY <3>2, <3>4, <5>2, <7>1, <7>2 DEF Given
          <6>2. CASE w.key = "script" /\ l = "wininet"
            <7>1. os'[l].script = "off" /\ os'[l].mode = os[l].mode /\ os'[l].server = os[l].server BY <1>6, <4>2, <6>2 DEF Keys
            <7>2. os[l].mode = "off" \/ \A k \in Keys : os[l][k] \in {"user", "off"} BY <3>1, <3>4, <5>2 DEF Given
            <7> QED BY <3>2, <3>4, <5>2, <7>1, <7>2 DEF Given, Keys
          <6> QED BY <4>2, <5>2, <6>1, <6>2
        <5> QED BY <5>1, <5>2
    <3> QED BY <3>3, <3>4
  <2>2. Progress(job[t])'
    <3> SUFFICES ASSUME NEW h \in Layers \ Ahead(job[t])
                 PROVE  (/\ job[t].kind = "restore" => IF h = job[t].layer THEN Restoring(job[t], h) ELSE Given(h, os[h])
                         /\ job[t].kind = "blank" /\ h = job[t].layer => Blanking(job[t], h))'
      BY <1>8 DEF Progress
    <3>1. /\ job[t].kind = "restore" => IF h = l THEN Restoring(job[t], h) ELSE Given(h, os[h])
          /\ job[t].kind = "blank" /\ h = l => Blanking(job[t], h)
      BY <1>1 DEF NotOurs, Progress, l
    <3>2. CASE h # l BY <1>5, <1>8, <3>1, <3>2 DEF Given, n
    <3>3. CASE h = l
      <4>1. ASSUME job[t].kind = "restore" PROVE Restoring(job[t], h)'
        <5>1. Restoring(job[t], l) BY <3>1, <3>3, <4>1
        <5>2. ASSUME n.ok = "yes", h = "env" => faults = 0
              PROVE  /\ \A k \in Keys : os'[l][k] = n.snap[l][k] \/ [key |-> k, value |-> n.snap[l][k]] \in Elem(n.todo)
                     /\ \A x \in Elem(n.todo) : x.value = n.snap[l][x.key]
          <6>1. /\ \A k \in Keys : os[l][k] = n.snap[l][k] \/ [key |-> k, value |-> n.snap[l][k]] \in Elem(job[t].todo)
                /\ \A x \in Elem(job[t].todo) : x.value = n.snap[l][x.key]
            BY <1>8, <3>3, <5>1, <5>2 DEF Restoring
          <6>2. \A k \in Keys : [key |-> k, value |-> n.snap[l][k]] = w => k = w.key OBVIOUS
          <6> QED BY <1>6, <1>8, <6>1, <6>2
        <5>3. ASSUME n.ok = "off"
              PROVE  /\ \A x \in Elem(n.todo) : x.value = "off"
                     /\ os'[l].mode = "off" \/ [key |-> "mode", value |-> "off"] \in Elem(n.todo)
                     /\ l = "wininet" => os'[l].script # "pac" \/ [key |-> "script", value |-> "off"] \in Elem(n.todo)
          <6>1. /\ \A x \in Elem(job[t].todo) : x.value = "off"
                /\ os[l].mode = "off" \/ [key |-> "mode", value |-> "off"] \in Elem(job[t].todo)
                /\ l = "wininet" => os[l].script # "pac" \/ [key |-> "script", value |-> "off"] \in Elem(job[t].todo)
            BY <1>8, <3>3, <5>1, <5>3 DEF Restoring
          <6>2. w.value = "off" BY <1>8, <6>1
          <6>3. \A k \in Keys : [key |-> k, value |-> "off"] = w => k = w.key OBVIOUS
          <6> QED BY <1>6, <1>8, <6>1, <6>2, <6>3 DEF Keys
        <5> QED BY <1>8, <3>3, <5>2, <5>3 DEF Restoring, n
      <4>2. ASSUME job[t].kind = "blank" PROVE Blanking(job[t], h)'
        BY <1>8, <3>1, <3>3, <4>2 DEF Blanking, n
      <4> QED BY <1>8, <3>3, <4>1, <4>2 DEF n
    <3> QED BY <3>2, <3>3
  <2>3. (\A u \in Tasks : Progress(job[u]))' BY <1>8, <2>2, RestMakesNoProgress
  <2> QED BY <1>1, <1>8, <2>1, <2>3 DEF NotOurs, Given
<1>10. PacFits'
  <2> SUFFICES ASSUME faults = 0 PROVE PacFits' BY DEF PacFits
  <2>1. job'[t] # Idle BY <1>8 DEF Idle, n
  <2>2. \A u \in Tasks : job'[u].at = "write" => u = t BY <1>8 DEF Idle
  <2>3. ASSUME job[t].kind = "system", NEW h \in Layers \ Ahead(job[t])
        PROVE  (IF h = job[t].layer THEN LeavesPac(job[t], h) ELSE ~PacActive(h))'
    <3>1. IF h = l THEN LeavesPac(job[t], h) ELSE ~PacActive(h) BY <1>1, <1>2, <2>3 DEF PacFits, l
    <3>2. CASE h # l BY <1>5, <1>8, <3>1, <3>2 DEF PacActive, n
    <3>3. CASE h = l
      <4>1. LeavesPac(job[t], l) BY <3>1, <3>3
      <4>2. w.value # "pac" /\ \A x \in Elem(n.todo) : x.value # "pac" BY <1>8, <4>1 DEF LeavesPac
      <4>3. /\ h = "wininet" => (os'[h].script = "pac" => [key |-> "script", value |-> "off"] \in Elem(n.todo))
            /\ h # "wininet" => (os'[h].mode = "pac" => [key |-> "mode", value |-> "ours"] \in Elem(n.todo))
        BY <1>6, <1>8, <3>3, <4>1, <4>2 DEF LeavesPac, Keys
      <4>4. LeavesPac(job[t], h)' BY <4>2, <4>3 DEF LeavesPac, n
      <4> QED BY <1>8, <3>3, <4>4 DEF n
    <3> QED BY <3>2, <3>3
  <2> QED BY <1>8, <2>1, <2>2, <2>3 DEF PacFits, n
<1> QED BY <1>8, <1>9, <1>10 DEF ProxyInv

(* ... or its command fails. *)
LEMMA KeyFails ==
  ASSUME ProxyInv, NEW t \in Tasks, Runs(t, "write"), job[t].todo # <<>>, faults' = faults + 1, UNCHANGED os,
         Set(t, [job[t] EXCEPT !.todo = Tail(@), !.ok = Noted(job[t])]),
         UNCHANGED <<desk, record, pacServer, gui, settled, unsaved, spoilt>>
  PROVE  ProxyInv'
<1> DEFINE l == job[t].layer
           n == job'[t]
<1>1. /\ ProxyTypes /\ PlainKeys /\ NotOurs /\ CallShape(job[t]) /\ OnRecord(job[t]) /\ job[t] \in Calls
      /\ faults \in Nat /\ faults' \in Nat /\ faults' > 0 /\ faults' >= faults
  BY DEF ProxyInv, ProxyTypes, OneCall, RecordFits
<1>2. /\ Noted(job[t]) \in {"yes", "no", "off"}
      /\ Noted(job[t]) # "yes" => job[t].kind = "restore" /\ l # "env"
      /\ Noted(job[t]) = "yes" => l = "env" \/ job[t].kind # "restore"
      /\ Noted(job[t]) = "off" => job[t].ok = "off"
  BY <1>1 DEF Noted, CallShape, Calls
<1>3. /\ ProxyTypes' /\ PlainKeys' /\ OneCall' /\ RecordFits'
      /\ n.at = "write" /\ n.kind = job[t].kind /\ n.snap = job[t].snap /\ n.layer = l
      /\ n.ok = Noted(job[t]) /\ Elem(job[t].todo) = {Head(job[t].todo)} \cup Elem(n.todo)
      /\ (\A u \in Tasks : u # t => job'[u] = Idle)
      /\ Layers' = Layers /\ FullRecords' = FullRecords /\ Ahead(job[t])' = Ahead(job[t])
  <2>1. os' \in [Layers -> Settings] /\ EnvPlain(os') BY <1>1 DEF ProxyTypes, PlainKeys, EnvPlain
  <2> QED BY <1>1, <1>2, <2>1, KeyIsTried
<1> HIDE DEF l, n
<1>4. NotOurs'
  <2> SUFFICES ASSUME ~unsaved, faults = 0 PROVE NotOurs' BY <1>1 DEF NotOurs
  <2>1. Progress(job[t])'
    <3> SUFFICES ASSUME NEW h \in Layers \ Ahead(job[t])
                 PROVE  (/\ job[t].kind = "restore" => IF h = job[t].layer THEN Restoring(job[t], h) ELSE Given(h, os[h])
                         /\ job[t].kind = "blank" /\ h = job[t].layer => Blanking(job[t], h))'
      BY <1>3 DEF Progress
    <3>1. /\ job[t].kind = "restore" => IF h = l THEN Restoring(job[t], h) ELSE Given(h, os[h])
          /\ job[t].kind = "blank" /\ h = l => Blanking(job[t], h)
      BY <1>1 DEF NotOurs, Progress, l
    <3>2. CASE h # l BY <1>1, <1>3, <3>1, <3>2 DEF Given, n
    <3>3. CASE h = l
      <4>1. job[t].ok = "yes" BY <1>1 DEF CallShape
      <4>2. job[t].kind = "restore" => Restoring(job[t], h)' BY <1>1, <1>2, <1>3, <3>3, <4>1 DEF Restoring, n
      <4>3. job[t].kind = "blank" => Blanking(job[t], h)' BY <1>3, <3>1, <3>3 DEF Blanking, n
      <4> QED BY <1>3, <3>3, <4>2, <4>3 DEF n
    <3> QED BY <3>2, <3>3
  <2>2. (\A u \in Tasks : Progress(job[u]))' BY <1>3, <2>1, RestMakesNoProgress
  <2> QED BY <1>1, <1>3, <2>2 DEF NotOurs, Given
<1>5. PacFits' BY <1>1 DEF PacFits
<1> QED BY <1>3, <1>4, <1>5 DEF ProxyInv

(* A clear is over when each layer is the user's or off; only then is the record deleted. *)
LEMMA CallEnds == ASSUME ProxyInv, NEW t \in Tasks, Finish(t) PROVE ProxyInv'
<1> USE DEF Finish, Runs
<1>1. ProxyTypes /\ PlainKeys /\ OneCall /\ RecordFits /\ NotOurs /\ PacFits
  BY DEF ProxyInv
<1>2. /\ gui = "up" /\ settled # "clear" /\ job[t] \in Calls /\ CallShape(job[t]) /\ OnRecord(job[t])
      /\ job'[t] = Idle /\ (\A u \in Tasks : u # t => job'[u] = Idle) /\ (Idle \in Calls => job' \in [Tasks -> Calls])
  BY StepOfACall
<1>3. \A u \in Tasks : job'[u] = Idle BY <1>2
<1>4. Idle.kind = "none" /\ Idle.at = "idle" /\ Idle.layer = "none" /\ Idle.ok = "yes" BY DEF Idle
<1>5. desk \in {"gnome", "kde", "windows"} /\ Layers \ Ahead(job[t]) = Layers
  BY <1>1, <1>2, LastLayer DEF ProxyTypes, CallShape
<1>6. /\ gui' \in {"up", "crashed", "quit"} /\ settled' \in {"none", "apply", "clear"}
      /\ job[t].kind \in Clears => record' = NoRecord
      /\ job[t].kind \notin Clears => record' = record /\ settled' # "clear"
  BY <1>2
<1>7. ProxyTypes'
  <2>1. record' \in {NoRecord, TornRecord} \cup FullRecords BY <1>1, <1>6 DEF ProxyTypes
  <2> QED BY <1>1, <1>2, <1>6, <2>1, CallTypes, DeskKeeps DEF ProxyTypes
<1>8. PlainKeys'
  <2>1. EnvPlain(<<>>)
    <3>1. DOMAIN <<>> = {} BY ONLY SMT
    <3> QED BY ONLY <3>1 DEF EnvPlain
  <2>3. EnvPlain(record.snap)' BY <1>1, <1>6, <2>1 DEF PlainKeys, NoRecord, EnvPlain
  <2> QED BY <1>1, <1>3, <1>4, <2>3 DEF PlainKeys, EnvPlain
<1>9. CallShape(job[t])' /\ OnRecord(job[t])' /\ Progress(job[t])'
  BY <1>3, <1>4 DEF CallShape, OnRecord, Progress
<1>10. OneCall'
  <2>1. job'["exit"].kind \in {"none"} \cup Clears BY <1>3, <1>4 DEF Tasks
  <2> QED BY <1>2, <1>3, <1>9, <2>1, OneAtATime DEF OneCall
<1>11. record' # TornRecord /\ (settled' = "clear" => record' = NoRecord)
  <2>1. record = TornRecord => job[t].kind \in Clears
    <3>1. record = TornRecord => job[t].kind \notin {"system", "pac"}
      BY <1>2 DEF OnRecord, FullRecords, TornRecord, NoRecord
    <3> QED BY <1>2, <3>1 DEF CallShape, Calls
  <2> QED BY <1>6, <2>1 DEF NoRecord, TornRecord
<1>12. RecordFits' BY <1>1, <1>2, <1>9, <1>11, OneAtATime DEF RecordFits
<1>13. NotOurs'
  <2> SUFFICES ASSUME ~unsaved, faults <= 1 PROVE NotOurs' BY DEF NotOurs
  <2>1. ASSUME record' \notin FullRecords, NEW h \in Layers PROVE Given(h, os[h])
    <3>1. CASE record \notin FullRecords BY <1>1, <2>1, <3>1 DEF NotOurs
    <3>2. CASE record \in FullRecords
      <4>1. job[t].kind = "restore"
        <5>1. job[t].kind \in Clears BY <1>6, <2>1, <3>2, DeskKeeps
        <5>2. job[t].kind # "blank" BY <1>2, <3>2 DEF OnRecord, FullRecords, TornRecord
        <5> QED BY <5>1, <5>2 DEF Clears
      <4> QED BY <1>5, <4>1, Through
    <3> QED BY <3>1, <3>2
  <2>2. record' \in FullRecords => record' = record BY <1>6 DEF NoRecord, FullRecords
  <2> QED BY <1>1, <1>2, <1>9, <2>1, <2>2, RestMakesNoProgress, DeskKeeps DEF NotOurs, Given
<1>14. PacFits'
  <2> SUFFICES ASSUME faults = 0 PROVE PacFits' BY DEF PacFits
  <2>1. \A u \in Tasks : job'[u].kind # "system" BY <1>3, <1>4
  <2>2. ASSUME ~pacServer, NEW h \in Layers PROVE ~PacActive(h)
    <3>1. job[t].kind # "pac" BY <1>2, <2>2 DEF OnRecord
    <3>2. CASE job[t].kind = "system" BY <1>5, <3>2, PacLeft
    <3>3. CASE job[t].kind \in Clears
      <4>1. ~unsaved BY <1>1 DEF RecordFits
      <4>2. Given(h, os[h])
        <5>1. CASE job[t].kind = "restore" BY <1>5, <4>1, <5>1, Through
        <5>2. CASE job[t].kind = "blank"
          <6>1. record \notin FullRecords BY <1>2, <5>2 DEF OnRecord, FullRecords, TornRecord
          <6> QED BY <1>1, <4>1, <6>1 DEF NotOurs
        <5> QED BY <3>3, <5>1, <5>2 DEF Clears
      <4>3. h = "env" => os[h].mode = "user" /\ os[h].script = "user" BY <1>1 DEF PlainKeys, EnvPlain, ProxyTypes
      <4> QED BY <4>2, <4>3 DEF Given, PacActive, Keys
    <3> QED BY <1>2, <3>1, <3>2, <3>3 DEF CallShape, Calls
  <2> QED BY <2>1, <2>2, DeskKeeps DEF PacFits, PacActive
<1> QED BY <1>7, <1>8, <1>10, <1>12, <1>13, <1>14 DEF ProxyInv

(* Every step keeps the invariant. *)
LEMMA ProxySteps == ASSUME ProxyInv, [OsProxyNext]_proxyVars, ~QuitRaces PROVE ProxyInv'
<1>1. \A u \in Tasks : MayCall => job[u] = Idle BY DEF MayCall, Tasks
<1>2. pacServer \in BOOLEAN /\ gui \in {"up", "crashed", "quit"} /\ job \in [Tasks -> Calls] BY DEF ProxyInv, ProxyTypes
<1>3. CASE ApplySystem
  <2>1. pacServer' \in BOOLEAN BY <1>3 DEF ApplySystem
  <2> QED BY <1>3, <2>1, AppliesBegin DEF ApplySystem
<1>4. CASE ApplyPac
  <2>1. CASE pacServer' = TRUE /\ settled' = "none" /\ Set("service", Call(DecideApply, "pac", <<>>))
    BY <1>4, <2>1, AppliesBegin DEF ApplyPac
  <2>2. CASE pacServer' = FALSE /\ ClearWith("service")
    <3>1. job' = [u \in Tasks |-> IF u = "service" THEN DecideClear ELSE Idle] /\ "service" \in Tasks
      BY <1>1, <1>2, <1>4, <2>2 DEF ApplyPac, ClearWith, Set, Tasks
    <3> QED BY <1>1, <1>2, <1>4, <2>2, <3>1, ClearsBegin DEF ApplyPac, ClearWith, MayCall
  <2> QED BY <1>4, <2>1, <2>2 DEF ApplyPac
<1>5. CASE ClearOsProxy
  <2>1. job' = [u \in Tasks |-> IF u = "service" THEN DecideClear ELSE Idle] /\ "service" \in Tasks
    BY <1>1, <1>2, <1>5 DEF ClearOsProxy, ClearWith, Set, Tasks
  <2> QED BY <1>1, <1>2, <1>5, <2>1, ClearsBegin DEF ClearOsProxy, ClearWith, MayCall
<1>6. CASE Quit
  <2>1. \A u \in Tasks : job[u] = Idle BY <1>6 DEF Quit, Tasks
  <2>2. job' = [u \in Tasks |-> IF u = "exit" THEN DecideClear ELSE Idle] /\ "exit" \in Tasks
    BY <1>2, <1>6, <2>1 DEF Quit, ClearWith, Set, Tasks
  <2> QED BY <1>2, <1>6, <2>1, <2>2, ClearsBegin DEF Quit, ClearWith
<1>7. CASE GuiCrash BY <1>7, CrashEnds
<1>8. CASE Launch
  <2>1. (\A u \in Tasks : job[u] = Idle) /\ "service" \in Tasks BY <1>8 DEF Launch, ProxyInv, OneCall, Tasks
  <2> QED BY <1>2, <1>8, <2>1, ClearsBegin DEF Launch
<1>9. ASSUME NEW t \in Tasks, TakeSnapshot(t) \/ CreateRecord(t) \/ FillRecord(t) PROVE ProxyInv'
  BY <1>9, SnapshotSteps, CreateSteps, FillSteps
<1>10. ASSUME NEW t \in Tasks, BeginLayer(t) \/ DisableLayer(t) \/ Finish(t) PROVE ProxyInv'
  BY <1>10, LayerBegins, LayerIsDisabled, CallEnds
<1>11. ASSUME NEW t \in Tasks, WriteKey(t) PROVE ProxyInv'
  BY <1>11, KeyIsWritten, KeyFails DEF WriteKey
<1>12. CASE UNCHANGED proxyVars
  BY <1>12, DeskKeeps DEF proxyVars, ProxyInv, ProxyTypes, PlainKeys, EnvPlain, OneCall, RecordFits, NotOurs, PacFits,
     CallShape, Placed, Fresh, OnRecord, Progress, Restoring, Blanking, Given, LeavesPac, PacActive
<1> QED BY <1>3, <1>4, <1>5, <1>6, <1>7, <1>8, <1>9, <1>10, <1>11, <1>12 DEF OsProxyNext

(* The invariant is enough. *)
LEMMA InvGivesBack == ASSUME ProxyInv PROVE ProxyIsGivenBack
<1>1. ProxyTypes /\ PlainKeys /\ OneCall /\ RecordFits /\ NotOurs /\ PacFits
  BY DEF ProxyInv
<1>2. OsProxyTypeOK
  <2>1. \A t \in Tasks : job[t].at \in {"idle", "snapshot", "create", "fill", "write"} /\ job[t].todo \in Seq([key : Keys, value : Whose])
    BY <1>1 DEF ProxyTypes, Calls, Cmds
  <2>2. record.state \in {"none", "torn", "full"} BY <1>1 DEF ProxyTypes, NoRecord, TornRecord, FullRecords
  <2> QED BY <1>1, <2>1, <2>2 DEF OsProxyTypeOK, ProxyTypes, Settings
<1>3. ASSUME NEW l, NEW s, Given(l, s), faults = 0 \/ l # "env", s \in Settings, l = "env" => s.mode = "user" /\ s.script = "user",
             NEW o, o[l] = s
      PROVE  Disabled(o, l) \/ \A k \in Keys : s[k] \notin {"ours", "pac"}
  BY <1>3 DEF Given, Disabled, Keys, Settings
<1>4. OursIsRecorded
  <2> SUFFICES ASSUME ~unsaved, faults <= 1 PROVE (Sure(OursIn(os)) # {} => record.state # "none") /\ Sure(OursIn(record.snap)) = {}
    BY DEF OursIsRecorded
  <2>1. ASSUME record.state = "none", NEW l \in Sure(OursIn(os)) PROVE FALSE
    <3>1. l \in Layers /\ (faults = 0 \/ l # "env") /\ l \in OursIn(os) BY <1>1, <2>1 DEF ProxyTypes, Sure, OursIn
    <3>2. Given(l, os[l]) /\ os[l] \in Settings BY <1>1, <2>1, <3>1 DEF NotOurs, ProxyTypes, FullRecords
    <3>3. l = "env" => os[l].mode = "user" /\ os[l].script = "user" BY <1>1, <3>1 DEF PlainKeys, EnvPlain, ProxyTypes
    <3> QED BY <1>3, <3>1, <3>2, <3>3 DEF OursIn
  <2>2. ASSUME NEW l \in Sure(OursIn(record.snap)) PROVE FALSE
    <3>1. (faults = 0 \/ l # "env") /\ l \in OursIn(record.snap) /\ l \in DOMAIN record.snap BY <2>2 DEF Sure, OursIn
    <3>2. record \in FullRecords
      <4>1. DOMAIN <<>> = {} BY ONLY SMT
      <4> QED BY <1>1, <3>1, <4>1 DEF ProxyTypes, NoRecord, TornRecord
    <3>3. l \in Layers /\ record.snap[l] \in Settings BY <3>1, <3>2 DEF FullRecords
    <3>4. Given(l, record.snap[l]) BY <1>1, <3>2, <3>3 DEF NotOurs
    <3>5. l = "env" => record.snap[l].mode = "user" /\ record.snap[l].script = "user" BY <1>1, <3>1 DEF PlainKeys, EnvPlain
    <3> QED BY <1>3, <3>1, <3>3, <3>4, <3>5 DEF OursIn
  <2> QED BY <2>1, <2>2
<1>5. PacIsServed BY <1>1 DEF PacIsServed, PacFits, Steady
<1>6. ClearRestores
  <2> SUFFICES ASSUME settled = "clear", ~unsaved, faults <= 1
               PROVE  /\ faults = 0 /\ ~spoilt => os = Users
                      /\ \A l \in Layers : os[l] # Users[l] => Off(l) \/ (l = "env" /\ faults > 0) \/ (spoilt /\ l \notin OursIn(os))
    BY DEF ClearRestores
  <2>1. record \notin FullRecords BY <1>1 DEF RecordFits, NoRecord, FullRecords
  <2>2. \A l \in Layers : Given(l, os[l]) /\ os[l] \in Settings BY <1>1, <2>1 DEF NotOurs, ProxyTypes
  <2>3. faults = 0 /\ ~spoilt => os = Users BY <1>1, <2>2 DEF Given, Users, ProxyTypes
  <2>4. ASSUME NEW l \in Layers, os[l] # Users[l] PROVE Off(l) \/ (l = "env" /\ faults > 0) \/ (spoilt /\ l \notin OursIn(os))
    BY <2>2, <2>4 DEF Given, Users, Off, Disabled, OursIn
  <2> QED BY <2>3, <2>4
<1> QED BY <1>2, <1>4, <1>5, <1>6 DEF ProxyIsGivenBack

(* The settings of the user's session: while one is the app's there is a record that says so,
   which never takes the app's own for the user's; no session is left at a PAC server that is
   down; and a clear, whatever crash or failing command came before, gives everything back or
   switches it off. The exit must not come while a call of the service is under way, and KDE
   needs its reader: without either the property does not hold. *)
THEOREM ProxyStaysTheUsers ==
  ASSUME ~QuitRaces, "kde without reader" \notin Desks
  PROVE  OsProxySpec => []ProxyIsGivenBack
<1>1. OsProxyInit => ProxyInv BY ProxyBegins
<1>2. ProxyInv /\ [OsProxyNext]_proxyVars => ProxyInv' BY ProxySteps
<1>3. ProxyInv => ProxyIsGivenBack BY InvGivesBack
<1> QED BY <1>1, <1>2, <1>3, PTL DEF OsProxySpec

=============================================================================
