----------------------------- MODULE AndroidPath -----------------------------
(***************************************************************************)
(* The data path on Android (android/platform.rs, android/routing.rs): the *)
(* daemon's start, its stop, the rollback of a failed start, the helpers   *)
(* in front of an external tun, the marking that captures apps by uid and  *)
(* the guards that keep the others out. The tethering watcher, which a     *)
(* start begins and a stop ends, is module Tethering.                      *)
(***************************************************************************)
EXTENDS Naturals, FiniteSets

CONSTANTS ABins,     \* external tun helpers
          AFilters,  \* app filters: [all, strict, bypass, force], uids in the last two
          AFlaky,    \* the pieces of routing whose commands may fail, "tun" for the deletion of a device
          AMaxEdits  \* bound on edits of the settings, crashes and failed commands

Slots == {"main", "force"}
Uids == {0, 500, 1000, 10001, 10002}      \* root, shell services, system, two apps
ASSUME AndroidConstants ==
    /\ AMaxEdits \in Nat /\ "sing-box" \in ABins /\ {"native", "stop", "none"} \cap ABins = {}
    /\ \A f \in AFilters : /\ f.all \in BOOLEAN /\ f.strict \in BOOLEAN
                           /\ f.bypass \subseteq Uids \ {0} /\ f.force \subseteq Uids \ ({0} \cup f.bypass)

VARIABLES aUp,       \* whether the daemon runs
          aPc,       \* the command's step
          aGoal,     \* what the command starts after its stop: a plan, or [tun |-> "stop"]
          aFailed,   \* whether the stop under way is a rollback
          aLast,     \* what the last command left: "boot", "up", "down"
          aDoc,      \* the recorded data path: [run, tun, helper, force]
          aCore, aHelper,          \* what runs
          aCorePid, aHelperPid,    \* whether the pid files name it
          aIface,    \* tuns whose name is on file
          aDev,      \* tun devices there
          aNet,      \* what is installed
          aSet,      \* the saved settings: [tun, filter]
          aMarked, aGuarded,       \* the filters the mark chain and the guard chain were built from
          aMissed,   \* what the path had to add and a command did not
          aStuck,    \* what was to go and a command did not take
          aTries,    \* whether the native retry was used
          aEdits
aProcs == <<aCore, aHelper, aCorePid, aHelperPid, aIface, aDev>>
aLedger == <<aMissed, aStuck>>
aRules == <<aNet, aMarked, aGuarded, aLedger>>
aCmd == <<aPc, aGoal, aFailed, aLast, aTries>>
pathVars == <<aUp, aCmd, aDoc, aProcs, aRules, aSet, aEdits>>

NoFilter == [all |-> FALSE, strict |-> FALSE, bypass |-> {}, force |-> {}]
StopPlan == [tun |-> "stop", force |-> FALSE, filter |-> NoFilter]
StoppedDoc == [run |-> "Stopped", tun |-> "none", force |-> FALSE]
ASteps == {"idle", "stop core", "stop rules", "stop helpers", "stop doc",
           "prepare", "spawn", "helpers", "route", "verify", "listen", "guard", "commit"}

-----------------------------------------------------------------------------
(* Apps by uid *)

(* app_uid_rules and capture_mark_rules, in the order of the chain: an app's own rule decides
   before the catch-all; strict marks every uid but root. *)
MarkOf(f, u) ==
    IF u \in f.bypass THEN 0
    ELSE IF u \in f.force THEN 2
    ELSE IF f.strict THEN IF u >= 1 THEN 1 ELSE 0
    ELSE IF f.all /\ (u = 1000 \/ u >= 9999) THEN 1 ELSE 0

(* guard_rules on a tun device: the bypass list in capture-all mode, in capture-none mode
   everything but root and the force-proxy apps. *)
OnTun(f, u) == IF f.all THEN u \notin f.bypass ELSE u = 0 \/ u \in f.force
(* guard_rules on the local ports. *)
OnPorts(f, u) == u \notin f.bypass

-----------------------------------------------------------------------------
(* Plans and helpers *)

(* DataPathPlan::resolve on a host that routes by uid: every start runs a tun, a sing-box core
   its own; a second tun when an app is forced through the proxy. *)
PlanOf(s) == [tun |-> s.tun, force |-> s.filter.force # {}, filter |-> s.filter]
Native(plan) == plan.tun = "native"
HelpersOf(doc) == IF doc.tun \in ABins THEN {"main"} \cup (IF doc.force THEN {"force"} ELSE {}) ELSE {}

(* Mutant: the helper of the force tun is not watched. *)
WatchedHelpers_MainOnly(doc) == IF doc.tun \in ABins THEN {"main"} ELSE {}
(* DataPathState::helpers and watched_helpers *)
WatchedHelpers(doc) == HelpersOf(doc)

(* running_helper_bin: the helper of the recorded data path, tun2socks without one. *)
RunningHelperBin(doc) == IF doc.tun \in ABins THEN doc.tun ELSE "tun2socks"

DocOf(plan, run) == [run |-> run, tun |-> plan.tun, force |-> plan.force]

(* What goes with a device: the routes of its table. *)
TablesOf(devs) == (IF "main" \in devs THEN {} ELSE {"table"}) \cup (IF "force" \in devs THEN {} ELSE {"table2"})
WithoutDevices(n, devs) == n \ TablesOf(devs)

-----------------------------------------------------------------------------
AndroidInit ==
    /\ aUp = TRUE /\ aPc = "idle" /\ aGoal = StopPlan /\ aFailed = FALSE /\ aLast = "boot" /\ aTries = FALSE
    /\ aDoc = StoppedDoc
    /\ aCore = "none" /\ aHelper = [s \in Slots |-> "none"]
    /\ aCorePid = FALSE /\ aHelperPid = {} /\ aIface = {} /\ aDev = {}
    /\ aNet = {} /\ aMarked = NoFilter /\ aGuarded = NoFilter
    /\ aMissed = {} /\ aStuck = {}
    /\ aSet \in [tun : ABins \cup {"native"}, filter : AFilters]
    /\ aEdits = 0

(* The Service stops before every start; a stop that precedes a start keeps the document. *)
Command(plan) ==
    /\ aUp /\ aPc = "idle" /\ aPc' = "stop core" /\ aGoal' = plan /\ aFailed' = FALSE
    /\ UNCHANGED <<aUp, aLast, aTries, aDoc, aProcs, aRules, aSet, aEdits>>

(* The user saves other settings; the data path follows on the next start. *)
Edit == /\ aEdits < AMaxEdits /\ aEdits' = aEdits + 1
        /\ aSet' \in [tun : ABins \cup {"native"}, filter : AFilters] /\ aSet' # aSet
        /\ UNCHANGED <<aUp, aCmd, aDoc, aProcs, aRules>>

-----------------------------------------------------------------------------
(* stop_data_path *)

(* The watcher is stopped first, then the core, gracefully: a native tun goes with it. *)
StopAndroidCore ==
    /\ aUp /\ aPc = "stop core" /\ aPc' = "stop rules"
    /\ aCorePid' = FALSE
    /\ LET dies == aCorePid /\ aCore # "none" IN
        /\ aCore' = (IF dies THEN "none" ELSE aCore)
        /\ aDev' = (IF dies /\ aCore = "native" THEN {} ELSE aDev)
        /\ aNet' = WithoutDevices(IF dies /\ aCore = "native" THEN aNet \ {"auto", "watcher"} ELSE aNet \ {"watcher"}, aDev')
    /\ UNCHANGED <<aUp, aGoal, aFailed, aLast, aTries, aDoc, aHelper, aHelperPid, aIface, aMarked, aGuarded, aLedger, aSet, aEdits>>

(* The exit status of every command is ignored: any of them may do nothing. *)
AFailSets(pieces) == {s \in SUBSET (pieces \cap AFlaky) : aEdits + Cardinality(s) <= AMaxEdits}

(* clear_routing_rules: by priority, chain and table whatever the settings are now; what names a
   tun only if its name is on file. *)
RoutingRules ==
    {"listener", "listener2", "guards", "mark", "mark6", "rule", "rule2", "table", "table2", "reject6"}
    \cup (IF "main" \in aIface THEN {"mss"} ELSE {})

(* A rule left under the name of a tun is not found under the next one's. *)
Renamed(left) == (left \ {"tun", "mss"}) \cup (IF "mss" \in left THEN {"old mss"} ELSE {})

(* clear_routing_rules deletes the devices on file; then the names are removed. *)
StopRules ==
    /\ aUp /\ aPc = "stop rules" /\ aPc' = "stop helpers"
    /\ \E left \in AFailSets((aNet \cap RoutingRules) \cup (IF aDev = {} THEN {} ELSE {"tun"})) :
        /\ aDev' = (IF "tun" \in left THEN aDev ELSE aDev \ aIface)
        /\ aNet' = WithoutDevices((aNet \ RoutingRules) \cup Renamed(left), aDev')
        /\ aStuck' = (aStuck \ RoutingRules) \cup Renamed(left) /\ aEdits' = aEdits + Cardinality(left)
    /\ aIface' = {} /\ aMissed' = {}
    /\ UNCHANGED <<aUp, aGoal, aFailed, aLast, aTries, aDoc, aCore, aHelper, aCorePid, aHelperPid, aMarked, aGuarded, aSet>>

(* kill_if_running with the recorded helper's binary, whose device goes with it, then
   clear_orphaned_tun_rules: what a sing-box that did not exit cleanly left for one of our tuns. *)
StopHelpers ==
    /\ aUp /\ aPc = "stop helpers" /\ aPc' = "stop doc"
    /\ LET dying == {s \in aHelperPid : aHelper[s] = RunningHelperBin(aDoc)} IN
        /\ aHelper' = [s \in Slots |-> IF s \in dying THEN "none" ELSE aHelper[s]]
        /\ aDev' = aDev \ dying
    /\ \E left \in AFailSets(aNet \cap {"orphan"}) :
        /\ aNet' = WithoutDevices((aNet \ {"orphan"}) \cup left, aDev')
        /\ aStuck' = (aStuck \ {"orphan"}) \cup left /\ aEdits' = aEdits + Cardinality(left)
    /\ aHelperPid' = {}
    /\ UNCHANGED <<aUp, aGoal, aFailed, aLast, aTries, aDoc, aCore, aCorePid, aIface, aMarked, aGuarded, aMissed, aSet>>

(* The document is reset unless a start follows or failed. *)
ResetDoc ==
    /\ aUp /\ aPc = "stop doc"
    /\ aLast' = "down"
    /\ aDoc' = (IF aGoal.tun = "stop" /\ ~aFailed THEN StoppedDoc ELSE aDoc)
    /\ aPc' = (IF aGoal.tun = "stop" THEN "idle" ELSE "prepare")
    /\ UNCHANGED <<aUp, aGoal, aFailed, aTries, aProcs, aRules, aSet, aEdits>>

-----------------------------------------------------------------------------
(* start_data_path *)

(* fail and set_failed, then the rollback, which keeps the document. *)
FailStart ==
    /\ aPc' = "stop core" /\ aGoal' = StopPlan /\ aFailed' = TRUE
    /\ aDoc' = [aDoc EXCEPT !.run = "Failed"]

(* The document says what is brought up before anything is. *)
RecordPlan ==
    /\ aUp /\ aPc = "prepare" /\ aPc' = "spawn" /\ aDoc' = DocOf(aGoal, "Connecting") /\ aTries' = FALSE
    /\ UNCHANGED <<aUp, aGoal, aFailed, aLast, aProcs, aRules, aSet, aEdits>>

(* start_inner: the binary, the config, the geo assets; the names of a native core's tuns. *)
SpawnCore ==
    /\ aUp /\ aPc = "spawn"
    /\ \/ /\ aIface' = (IF Native(aGoal) THEN {"main"} \cup (IF aGoal.force THEN {"force"} ELSE {}) ELSE aIface)
          /\ aCore' = (IF Native(aGoal) THEN "native" ELSE "socks") /\ aCorePid' = TRUE
          /\ aPc' = (IF Native(aGoal) THEN "verify" ELSE "helpers")
          /\ UNCHANGED <<aGoal, aFailed, aDoc>>
       \/ FailStart /\ UNCHANGED <<aIface, aCore, aCorePid>>
    /\ UNCHANGED <<aUp, aLast, aTries, aHelper, aHelperPid, aDev, aRules, aSet, aEdits>>

(* bring_up_external_tun: a helper per slot of the plan, the force tun's after the main one's.
   A name goes on file before its helper is spawned. *)
Before(s) == IF s = "force" THEN {"main"} ELSE {}

(* Every helper is spawned and its device appears. *)
BringUpHelpers ==
    /\ aUp /\ aPc = "helpers" /\ aPc' = "route"
    /\ aIface' = HelpersOf(aDoc)
    /\ aHelper' = [s \in Slots |-> IF s \in HelpersOf(aDoc) THEN aGoal.tun ELSE aHelper[s]]
    /\ aHelperPid' = HelpersOf(aDoc) /\ aDev' = aDev \cup HelpersOf(aDoc)
    /\ UNCHANGED <<aUp, aGoal, aFailed, aLast, aTries, aDoc, aCore, aCorePid, aRules, aSet, aEdits>>

(* The helper of a slot cannot be spawned, or is and its device never appears: then its pid is
   on file all the same. *)
HelperFails(s) ==
    /\ aUp /\ aPc = "helpers" /\ s \in HelpersOf(aDoc)
    /\ \E spawned \in {Before(s), Before(s) \cup {s}} :
        /\ aHelper' = [x \in Slots |-> IF x \in spawned THEN aGoal.tun ELSE aHelper[x]]
        /\ aHelperPid' = spawned
    /\ aIface' = aIface \cup Before(s) \cup {s} /\ aDev' = aDev \cup Before(s)
    /\ FailStart
    /\ UNCHANGED <<aUp, aLast, aTries, aCore, aCorePid, aRules, aSet, aEdits>>

(* apply_external_tun_routing, with the plan's own filter. *)
RoutingOf(plan) ==
    {"rule", "table", "mark", "mark6", "mss", "listener", "reject6"}
    \cup (IF plan.force THEN {"rule2", "table2", "listener2"} ELSE {})
ApplyRouting ==
    /\ aUp /\ aPc = "route" /\ aPc' = "verify"
    /\ \E lost \in AFailSets(RoutingOf(aGoal)) :
        /\ aNet' = WithoutDevices(aNet \cup (RoutingOf(aGoal) \ lost), aDev)
        /\ aMissed' = aMissed \cup lost /\ aEdits' = aEdits + Cardinality(lost)
    /\ aMarked' = aGoal.filter
    /\ UNCHANGED <<aUp, aGoal, aFailed, aLast, aTries, aDoc, aProcs, aGuarded, aStuck, aSet>>

(* start_retry_delay: only a native core, which runs iptables itself, can lose the race for the
   lock; it is started again once. *)
MayRetry == Native(aGoal) /\ ~aTries

(* verify_core_alive, and the retry. *)
VerifyCore ==
    /\ aUp /\ aPc = "verify"
    /\ \/ /\ aCore # "none"
          /\ aPc' = (IF Native(aGoal) THEN "listen" ELSE "guard")
          /\ aDev' = (IF Native(aGoal) THEN aIface ELSE aDev)
          /\ aNet' = (IF Native(aGoal) THEN aNet \cup {"auto"} ELSE aNet)
          /\ UNCHANGED <<aCore, aTries, aGoal, aFailed, aDoc>>
       \/ /\ aCore' = "none" /\ MayRetry /\ aTries' = TRUE /\ aPc' = "spawn"
          /\ UNCHANGED <<aDev, aNet, aGoal, aFailed, aDoc>>
       \/ aCore' = "none" /\ FailStart /\ UNCHANGED <<aDev, aNet, aTries>>
    /\ UNCHANGED <<aUp, aLast, aHelper, aCorePid, aHelperPid, aIface, aMarked, aGuarded, aLedger, aSet, aEdits>>

(* apply_listener_return for a native tun; an external one has it with its routing. *)
ListenersOf(plan) == {"listener"} \cup (IF plan.force THEN {"listener2"} ELSE {})
Listen ==
    /\ aUp /\ aPc = "listen" /\ aPc' = "guard"
    /\ \E lost \in AFailSets(ListenersOf(aGoal)) :
        /\ aNet' = aNet \cup (ListenersOf(aGoal) \ lost)
        /\ aMissed' = aMissed \cup lost /\ aEdits' = aEdits + Cardinality(lost)
    /\ UNCHANGED <<aUp, aGoal, aFailed, aLast, aTries, aDoc, aProcs, aMarked, aGuarded, aStuck, aSet>>

(* refresh_guards, for the tuns on file and the filter as saved now; then the watcher is started. *)
RefreshGuards ==
    /\ aUp /\ aPc = "guard" /\ aPc' = "commit"
    /\ \E lost \in AFailSets({"guards"}) :
        /\ aNet' = aNet \cup {"watcher"} \cup ({"guards"} \ lost)
        /\ aMissed' = aMissed \cup lost /\ aEdits' = aEdits + Cardinality(lost)
    /\ aGuarded' = aSet.filter
    /\ UNCHANGED <<aUp, aGoal, aFailed, aLast, aTries, aDoc, aProcs, aMarked, aStuck, aSet>>

MarkUp ==
    /\ aUp /\ aPc = "commit" /\ aPc' = "idle" /\ aLast' = "up"
    /\ UNCHANGED <<aUp, aGoal, aFailed, aTries, aDoc, aProcs, aRules, aSet, aEdits>>

-----------------------------------------------------------------------------
(* Faults *)

(* A process ends by itself: its tun goes, and with it the routes of its table. A sing-box that
   does not exit cleanly leaves the rules of its tun: "auto" of a native one, "orphan" of one in
   front of the core. *)
CoreDies ==
    /\ aCore # "none" /\ aCore' = "none"
    /\ aDev' = (IF aCore = "native" THEN {} ELSE aDev)
    /\ \E left \in SUBSET {"auto"} : aNet' = WithoutDevices(aNet \ left, aDev')
    /\ UNCHANGED <<aUp, aCmd, aDoc, aHelper, aCorePid, aHelperPid, aIface, aMarked, aGuarded, aLedger, aSet, aEdits>>
HelperDies(s) ==
    /\ aHelper[s] # "none" /\ aHelper' = [aHelper EXCEPT ![s] = "none"]
    /\ aDev' = aDev \ {s}
    /\ \E left \in SUBSET (IF aHelper[s] = "sing-box" THEN {"orphan"} ELSE {}) :
          aNet' = WithoutDevices(aNet, aDev') \cup left
    /\ UNCHANGED <<aUp, aCmd, aDoc, aCore, aCorePid, aHelperPid, aIface, aMarked, aGuarded, aLedger, aSet, aEdits>>

(* The daemon dies and its children with it, by a SIGTERM that lets them clean up (die_with_parent). *)
DaemonCrashes ==
    /\ aUp /\ aEdits < AMaxEdits /\ aEdits' = aEdits + 1 /\ aUp' = FALSE
    /\ aCore' = "none" /\ aHelper' = [s \in Slots |-> "none"] /\ aDev' = {}
    /\ aNet' = WithoutDevices(aNet \ (IF aCore = "native" THEN {"auto", "watcher"} ELSE {"watcher"}), {})
    /\ aPc' = "idle" /\ aGoal' = StopPlan /\ aFailed' = FALSE /\ aTries' = FALSE /\ aLast' = "boot"
    /\ UNCHANGED <<aDoc, aCorePid, aHelperPid, aIface, aMarked, aGuarded, aLedger, aSet>>

(* boot_init: a stopped document, whatever the files of the last run say. *)
AndroidBoot == /\ ~aUp /\ aUp' = TRUE /\ aDoc' = StoppedDoc
        /\ UNCHANGED <<aCmd, aProcs, aRules, aSet, aEdits>>

AndroidNext == \/ Command(PlanOf(aSet)) \/ Command(StopPlan) \/ Edit
               \/ StopAndroidCore \/ StopRules \/ StopHelpers \/ ResetDoc
               \/ RecordPlan \/ SpawnCore \/ BringUpHelpers \/ (\E s \in Slots : HelperFails(s)) \/ ApplyRouting \/ VerifyCore
               \/ Listen \/ RefreshGuards \/ MarkUp
               \/ CoreDies \/ (\E s \in Slots : HelperDies(s)) \/ DaemonCrashes \/ AndroidBoot
AndroidSpec == AndroidInit /\ [][AndroidNext]_pathVars

-----------------------------------------------------------------------------
(* Properties *)

(* data_path_healthy: what the watchdog asks. *)
AndroidHealthy ==
    /\ aCorePid /\ aCore # "none"
    /\ \A s \in WatchedHelpers(aDoc) : s \in aHelperPid /\ aHelper[s] = aDoc.tun

(* What the variables hold; a tun device is there only under a name on file, but where a stop
   could not delete it and has yet to kill what it belongs to. *)
AndroidTypeOK ==
    /\ aPc \in ASteps /\ aLast \in {"boot", "up", "down"} /\ aIface \subseteq Slots
    /\ aDev \subseteq Slots /\ (aPc # "stop helpers" => aDev \subseteq aIface)
    /\ aDoc.run \in {"Stopped", "Connecting", "Failed"} /\ aHelperPid \subseteq Slots
    /\ aCore \in {"none", "native", "socks"} /\ aHelper \in [Slots -> ABins \cup {"none"}]

(* A finished stop leaves no rule of the daemon's or of a helper's, no device, no helper and no
   name on file, whatever a crash or a failed start left before it and whichever engine it ran.
   Excepted by name: a rule whose deletion failed, and what a native core that died left. *)
AndroidStopIsWhole ==
    aPc = "idle" /\ aLast = "down" =>
        /\ aNet \subseteq {"auto"} \cup aStuck /\ aDev = {} /\ aIface = {} /\ aCore = "none"
        /\ \A s \in Slots : aHelper[s] = "none"

(* A path the watchdog takes for healthy, which it tells by the processes, carries traffic: every
   tun of the plan is there with its route, its rules and the guards, but what a command of this
   very start failed to add. *)
AndroidHealthyIsWhole ==
    aPc = "idle" /\ aLast = "up" /\ aUp /\ AndroidHealthy =>
        /\ {"listener", "guards"} \subseteq aNet \cup aMissed /\ "watcher" \in aNet
        /\ aDoc.tun \in ABins => RoutingOf([force |-> aDoc.force]) \subseteq aNet \cup aMissed /\ aDev = HelpersOf(aDoc)
        /\ aDoc.tun = "native" => aDev = aIface /\ "auto" \in aNet

(* The per-app filter is what the installed chains do, seen by every uid, once their commands went
   through: what is marked into a tun is not dropped there (but for strict routing of no apps, see
   StrictCaptures) and its table is there, root is never captured, and an app kept off the tun is
   neither marked, nor let onto the device, nor (when listed) onto the local ports. *)
FilterIsHonoured ==
    aPc = "idle" /\ aLast = "up" /\ aDoc.tun \in ABins /\ aMarked = aGuarded /\ {"mark", "mark6", "guards"} \cap aMissed = {} =>
        \A u \in Uids :
            /\ MarkOf(aMarked, u) # 0 => u # 0 /\ (OnTun(aGuarded, u) \/ (aMarked.strict /\ ~aMarked.all))
            /\ MarkOf(aMarked, u) = 2 => "rule2" \in aNet \cup aMissed
            /\ (u \in aMarked.bypass \/ (~aMarked.all /\ ~aMarked.strict /\ u \notin {0} \cup aMarked.force))
                 => MarkOf(aMarked, u) = 0 /\ ~OnTun(aGuarded, u)
            /\ u \in aMarked.bypass => ~OnPorts(aGuarded, u)

(* What the settings say of strict routing ("Force every app through the tunnel"): each app it
   marks passes the guards. In capture-none mode they drop what they were not told to force. *)
StrictCaptures ==
    aPc = "idle" /\ aLast = "up" /\ aDoc.tun \in ABins /\ aMarked = aGuarded /\ aMarked.strict =>
        \A u \in Uids : MarkOf(aMarked, u) # 0 => OnTun(aGuarded, u)

(* A failed start is on record as failed once its rollback is over. *)
FailureIsOnRecord == aPc = "idle" /\ aFailed => aDoc.run = "Failed"

(* On the phone: a stop is whole, a path that passes for healthy is, the app filter is what the
   chains do, and a failure is on record. *)
AndroidIsSound == AndroidTypeOK /\ AndroidStopIsWhole /\ AndroidHealthyIsWhole /\ FilterIsHonoured /\ FailureIsOnRecord
=============================================================================
