------------------------------ MODULE Tethering ------------------------------
(***************************************************************************)
(* Tethered clients through the proxy on Android (android/tethering.rs,    *)
(* android/tether_offload.rs): the watcher that runs with the data path,   *)
(* polls the option, the downstreams and what is installed, and keeps the  *)
(* two fast paths off; the teardown that aborts it at any await; a daemon  *)
(* that dies; the boot that gives the offload setting back.                *)
(***************************************************************************)
EXTENDS Naturals, FiniteSets

CONSTANTS Downstreams,    \* interfaces that can be tethered
          UserValues,     \* what the user may have the offload setting at ("null": not set)
          Flaky,          \* kinds of rules whose commands may fail
          MaxChanges      \* bound on what the environment does, failures of commands included

ASSUME TetherConstants == /\ IsFiniteSet(Downstreams) /\ "all" \notin Downstreams
                          /\ UserValues \subseteq {"null", "0", "1"}
                          /\ MaxChanges \in Nat

VARIABLES option,    \* proxy_tethering as saved
          shared,    \* the downstreams Android tethers now
          addressed, \* those with an IPv4 address
          bpf,       \* downstreams with Tethering's BPF programs attached
          hal,       \* whether the offload HAL forwards the running session
          setting,   \* tether_offload_disabled
          saved,     \* the saved value on file, "none" without one
          late,      \* a put whose caller is gone: "none", "1" still running, "landed"
          rules,     \* what is installed: [kind, on], on "all" for what names no downstream
          pins,      \* downstreams with our own filter
          missed,    \* history: what the last install ran for and did not get in
          stuck,     \* history: what a removal ran for and did not get out
          life,      \* the data path: "dead", "booted", "stopped", "up", and the teardown's steps
          step,      \* the watcher's step, "none" without one
          enabled, want, applied, heldOff, wasOn, bypass,   \* the daemon's memory
          phone,     \* what does not change: [user, pinnable]
          changes    \* environment steps taken

daemonVars == <<life, step, enabled, want, applied, heldOff, wasOn, bypass>>
phoneVars == <<option, shared, addressed, hal, phone>>
androidVars == <<phoneVars, bpf, changes>>
ledger == <<missed, stuck>>
tetherVars == <<androidVars, setting, saved, late, rules, pins, ledger, daemonVars>>

Teardown == {"clear", "restore", "drop"}
WatchSteps == {"none", "read", "dump", "save", "put", "restore", "drop", "plan", "install", "hold", "sleep"}
PerDownstream == {"route4", "steer", "reply", "accept", "reject6", "dns4", "dns6", "route6"}
Kinds == PerDownstream \cup {"rule6", "hook4", "hook6", "hookNat", "hookIn"}
Routes == {"route4", "route6"}     \* go with the device
Chained == {"accept", "reject6", "dns4", "dns6", "hook4", "hook6", "hookNat", "hookIn"}   \* iptables

-----------------------------------------------------------------------------
(* The plan *)

Hooks == {"hook4", "hook6", "hookNat", "hookIn"}

(* tether_plan and HOOKS: per downstream its reply routes, the steering and reply rules, the
   forward accepts, the refusal of client IPv6, the DNS redirect and the refusal of DNS over
   IPv6; the jumps to our chains; the rule that keeps the phone's own IPv6 on the downstreams. *)
TetherPlan(ifaces) ==
    [kind : PerDownstream, on : ifaces]
    \cup (IF ifaces = {} THEN {} ELSE [kind : Hooks \cup {"rule6"}, on : {"all"}])

Has(k, i) == [kind |-> k, on |-> i] \in rules

(* Where a client's packet on a downstream goes: forwarded IPv4, DNS asked of the phone,
   forwarded IPv6, DNS asked of the phone over IPv6. Tethering's programs take forwarded
   packets first, unless ours ends their classification. *)
Packets == {"v4", "dns4", "v6", "dns6"}
FastPath(i) == i \in bpf /\ i \notin pins
Fate(i, p) ==
    [v4 |-> IF FastPath(i) \/ ~Has("steer", i) THEN "uplink"
            ELSE IF Has("accept", i) /\ Has("hook4", "all") THEN "tun" ELSE "lost",
     v6 |-> IF FastPath(i) \/ ~(Has("reject6", i) /\ Has("hook6", "all")) THEN "uplink" ELSE "refused",
     dns4 |-> IF Has("dns4", i) /\ Has("hookNat", "all") THEN "tun" ELSE "phone",
     dns6 |-> IF Has("dns6", i) /\ Has("hookIn", "all") THEN "refused" ELSE "phone"][p]
Returns(i) == Has("reply", i) /\ Has("route4", i)

(* What tether_plan has for each of these packets, beyond what plan_in_place reads back. *)
Needs(i, p) ==
    [v4 |-> {[kind |-> "accept", on |-> i]},
     v6 |-> {[kind |-> "reject6", on |-> i], [kind |-> "hook6", on |-> "all"]},
     dns4 |-> {[kind |-> "dns4", on |-> i], [kind |-> "hookNat", on |-> "all"]},
     dns6 |-> {[kind |-> "dns6", on |-> i], [kind |-> "hookIn", on |-> "all"]}][p]

(* Mutant: the routes are not read back. *)
PlanInPlace_RulesOnly(ifaces) ==
    \A i \in ifaces : Has("hook4", "all") /\ Has("steer", i) /\ Has("reply", i)

(* plan_in_place, has_rule, has_route: the rules and the routes of the reply table, which the
   kernel drops with the device. *)
PlanInPlace(ifaces) ==
    /\ Has("hook4", "all") /\ Has("rule6", "all")
    /\ \A i \in ifaces : /\ Has("route4", i) /\ Has("route6", i)
                         /\ Has("steer", i) /\ Has("reply", i)

(* hold_tether_bpf: ours ahead of Tethering's programs, else theirs removed. *)
HoldPins(ifaces) == IF phone.pinnable THEN pins \cup (ifaces \cap shared) ELSE pins
HoldBpf(ifaces) == IF phone.pinnable THEN bpf ELSE bpf \ ifaces

(* ip_rule, ipt and tc: any command of a sequence may fail, and no caller looks at the status. *)
FailSets(cmds) == SUBSET {c \in cmds : c.kind \in Flaky}
Pin(i) == [kind |-> "pin", on |-> i]
StuckPins == {i \in Downstreams : Pin(i) \in stuck}

(* saved_value and restore_argv: the value as read, an unset key by its deletion. *)
RestoreValue(v) == v

-----------------------------------------------------------------------------
(* Init: the daemon boots on a phone whose setting is the user's. *)
TetherInit ==
    /\ phone \in [user : UserValues, pinnable : BOOLEAN]
    /\ option = TRUE /\ shared = {} /\ addressed = {} /\ bpf = {} /\ hal = FALSE
    /\ setting = phone.user /\ saved = "none" /\ late = "none"
    /\ rules = {} /\ pins = {} /\ missed = {} /\ stuck = {}
    /\ life = "booted" /\ step = "none" /\ enabled = FALSE
    /\ want = {} /\ applied = {} /\ heldOff = {} /\ wasOn = FALSE /\ bypass = FALSE
    /\ changes = 0

Bounded == changes < MaxChanges /\ changes' = changes + 1
Costs(bad) == IF bad = {} THEN UNCHANGED changes ELSE Bounded

(* Tethering starts on a downstream: its programs are attached, and the HAL is started with
   the first one unless the setting says otherwise. *)
Tether(i) ==
    /\ Bounded /\ i \notin shared
    /\ shared' = shared \cup {i} /\ bpf' = bpf \cup {i}
    /\ hal' = (hal \/ (shared = {} /\ setting # "1"))
    /\ UNCHANGED <<option, addressed, setting, saved, late, rules, pins, ledger, daemonVars, phone>>

(* The downstream gets its address. *)
Address(i) ==
    /\ i \in shared \ addressed /\ addressed' = addressed \cup {i}
    /\ UNCHANGED <<option, shared, bpf, hal, setting, saved, late, rules, pins, ledger, daemonVars, phone, changes>>

(* Tethering ends: the device goes, and with it its filters and its routes in every table. *)
Untether(i) ==
    /\ Bounded /\ i \in shared
    /\ shared' = shared \ {i} /\ addressed' = addressed \ {i} /\ bpf' = bpf \ {i} /\ pins' = pins \ {i}
    /\ hal' = (hal /\ shared # {i})
    /\ rules' = {r \in rules : ~(r.on = i /\ r.kind \in Routes)}
    /\ UNCHANGED <<option, setting, saved, late, ledger, daemonVars, phone>>

(* An upstream change attaches the programs again. *)
Reattach(i) ==
    /\ Bounded /\ i \in shared \ bpf /\ bpf' = bpf \cup {i}
    /\ UNCHANGED <<option, shared, addressed, hal, setting, saved, late, rules, pins, ledger, daemonVars, phone>>

(* The user flips the option; the watcher reads it on its next poll. *)
SetOption ==
    /\ Bounded /\ option' = ~option
    /\ UNCHANGED <<shared, addressed, bpf, hal, setting, saved, late, rules, pins, ledger, daemonVars, phone>>

(* A put that timed out, or whose watcher was aborted, is still run by its process. One such
   put is enough to tell what it does. *)
LatePut ==
    /\ late = "1" /\ setting' = "1" /\ late' = "landed"
    /\ UNCHANGED <<option, shared, addressed, bpf, hal, saved, rules, pins, ledger, daemonVars, phone, changes>>

-----------------------------------------------------------------------------
(* The watcher *)

(* start_tether_watcher: at the end of a start, always after a teardown. *)
StartWatcher ==
    /\ life = "stopped" /\ step = "none"
    /\ life' = "up" /\ step' = "read" /\ applied' = {} /\ heldOff' = {} /\ want' = {}
    /\ UNCHANGED <<enabled, wasOn, bypass, setting, saved, late, rules, pins, ledger, androidVars>>

(* detect, tether_ifaces, parse_tether_downstreams, parse_iface_nets: the downstreams netd
   forwards, once they have an IPv4 address. *)
Detect == shared \cap addressed

(* watch: the option and the tun on file. *)
ReadOption ==
    /\ step = "read"
    /\ enabled' = option /\ want' = (IF option THEN Detect ELSE {})
    /\ step' = (IF ~option THEN "restore" ELSE IF saved = "none" THEN "dump" ELSE "plan")
    /\ bypass' = (IF ~option THEN FALSE ELSE IF saved # "none" /\ bypass THEN hal ELSE bypass)
    /\ UNCHANGED <<life, applied, heldOff, wasOn, setting, saved, late, rules, pins, ledger, androidVars>>

(* reconcile_hw_offload: the dump is read before the change, while it still tells. *)
ReadDump ==
    /\ step = "dump" /\ step' = "save"
    /\ wasOn' \in (IF setting = "1" THEN {FALSE} ELSE {hal, FALSE})
    /\ UNCHANGED <<life, enabled, want, applied, heldOff, bypass, setting, saved, late, rules, pins, ledger, androidVars>>

(* suppress_hw_offload: the current value is saved before the change; a value that cannot be
   read or saved leaves the setting alone. *)
SaveSetting ==
    /\ step = "save"
    /\ \/ step' = "put" /\ saved' = setting
       \/ step' = "plan" /\ UNCHANGED saved
    /\ UNCHANGED <<life, enabled, want, applied, heldOff, wasOn, bypass, setting, late, rules, pins, ledger, androidVars>>

(* suppress_hw_offload, the put: a failure drops the record. A put that timed out also counts
   as a failure, whatever its process does later. *)
PutSetting ==
    /\ step = "put" /\ step' = "plan"
    /\ \/ setting' = "1" /\ bypass' = (bypass \/ wasOn) /\ UNCHANGED <<saved, late>>
       \/ saved' = "none" /\ UNCHANGED <<setting, bypass, late>>
       \/ late = "none" /\ late' = "1" /\ saved' = "none" /\ UNCHANGED <<setting, bypass>>
    /\ UNCHANGED <<life, enabled, want, applied, heldOff, wasOn, rules, pins, ledger, androidVars>>

(* restore_hw_offload with the option off: the put, then the record is dropped if it succeeded. *)
RestoreSetting ==
    /\ step = "restore"
    /\ \/ saved = "none" /\ step' = "plan" /\ UNCHANGED setting
       \/ saved # "none" /\ step' = "drop" /\ setting' = RestoreValue(saved)
       \/ saved # "none" /\ step' = "plan" /\ UNCHANGED setting
    /\ UNCHANGED <<life, enabled, want, applied, heldOff, wasOn, bypass, saved, late, rules, pins, ledger, androidVars>>
DropSaved ==
    /\ step = "drop" /\ step' = "plan" /\ saved' = "none"
    /\ UNCHANGED <<life, enabled, want, applied, heldOff, wasOn, bypass, setting, late, rules, pins, ledger, androidVars>>

(* watch: intact when what is wanted was applied and, if it is anything, is still there.
   Otherwise everything of ours is removed first. *)
ClearUnless(intact) ==
    /\ step = "plan"
    /\ \/ intact /\ step' = "hold" /\ UNCHANGED <<rules, stuck, changes>>
       \/ /\ ~intact /\ step' = "install"
          /\ \E left \in FailSets(rules) :
               /\ rules' = left /\ Costs(left)
               /\ stuck' = left \cup {c \in stuck : c.kind = "pin"}
    /\ UNCHANGED <<life, enabled, want, applied, heldOff, wasOn, bypass, setting, saved, late, pins, missed, phoneVars, bpf>>
CheckPlan == ClearUnless(want = applied /\ (applied = {} \/ PlanInPlace(applied)))

(* install: a device that is gone by now takes no route, and any other command may fail; our
   chains are flushed first, what a failed clear left elsewhere stays. *)
Install ==
    /\ step = "install" /\ step' = "hold" /\ applied' = want
    /\ \E failed \in FailSets(TetherPlan(want)), kept \in SUBSET rules :
         /\ want = {} => kept = rules
         /\ {r \in rules : r.kind \notin Chained} \subseteq kept
         /\ rules' = kept \cup {r \in TetherPlan(want) \ failed : r.kind \in Routes => r.on \in shared}
         /\ missed' = failed /\ Costs(failed)
    /\ UNCHANGED <<life, enabled, want, heldOff, wasOn, bypass, setting, saved, late, pins, stuck, phoneVars, bpf>>

(* departed, release_tether_bpf, hold_tether_bpf: hand back what is no longer steered, hold what
   is. A filter that could not be deleted is forgotten until the teardown. *)
HoldBpfOff ==
    /\ step = "hold" /\ step' = "sleep" /\ heldOff' = applied
    /\ \E left \in FailSets({Pin(i) : i \in pins \cap (heldOff \ applied)}) :
         /\ pins' = (HoldPins(applied) \ (heldOff \ applied)) \cup {c.on : c \in left}
         /\ stuck' = stuck \cup left /\ Costs(left)
    /\ bpf' = HoldBpf(applied)
    /\ UNCHANGED <<life, enabled, want, applied, wasOn, bypass, setting, saved, late, rules, missed, phoneVars>>

Poll == /\ step = "sleep" /\ step' = "read"
        /\ UNCHANGED <<life, enabled, want, applied, heldOff, wasOn, bypass, setting, saved, late, rules, pins, ledger, androidVars>>

-----------------------------------------------------------------------------
(* The data path *)

(* stop_tether_watcher: aborted at whatever await it is in. A put under way there is run on by
   its process. *)
StopWatcher ==
    /\ life \in {"up", "booted"} /\ life' = "clear" /\ step' = "none"
    /\ late' \in {late} \cup (IF late = "none" /\ step = "put" THEN {"1"} ELSE {})
    /\ UNCHANGED <<enabled, want, applied, heldOff, wasOn, bypass, setting, saved, rules, pins, ledger, androidVars>>

(* Mutant: only filters the last poll held are removed. *)
ClearTethering_RulesOnly ==
    /\ life = "clear" /\ life' = "restore" /\ bypass' = FALSE
    /\ rules' = {} /\ pins' = pins \ heldOff /\ stuck' = {}
    /\ UNCHANGED <<step, enabled, want, applied, heldOff, wasOn, setting, saved, late, missed, androidVars>>

(* clear_tethering: clear_rules removes every rule and table by its priority (at most eight of a
   priority), release_all_tether_bpf our filter on every device; a command that fails is passed over. *)
ClearTethering ==
    /\ life = "clear" /\ life' = "restore" /\ bypass' = FALSE
    /\ \E left \in FailSets(rules), held \in FailSets({Pin(i) : i \in pins}) :
         /\ rules' = left /\ pins' = {c.on : c \in held}
         /\ stuck' = left \cup held /\ Costs(left \cup held)
    /\ UNCHANGED <<step, enabled, want, applied, heldOff, wasOn, setting, saved, late, missed, phoneVars, bpf>>

(* restore_hw_offload in the teardown: the record goes once the put succeeded. *)
RestoreOnStop ==
    /\ life = "restore"
    /\ \/ saved = "none" /\ life' = "stopped" /\ UNCHANGED setting
       \/ saved # "none" /\ life' = "drop" /\ setting' = RestoreValue(saved)
       \/ saved # "none" /\ life' = "stopped" /\ UNCHANGED setting
    /\ bypass' = FALSE
    /\ UNCHANGED <<step, enabled, want, applied, heldOff, wasOn, saved, late, rules, pins, ledger, androidVars>>
DropOnStop ==
    /\ life = "drop" /\ life' = "stopped" /\ saved' = "none"
    /\ UNCHANGED <<step, enabled, want, applied, heldOff, wasOn, bypass, setting, late, rules, pins, ledger, androidVars>>

(* The daemon dies: its memory is gone, the phone keeps the rest. *)
DaemonDies ==
    /\ Bounded /\ life # "dead" /\ life' = "dead" /\ step' = "none"
    /\ enabled' = FALSE /\ want' = {} /\ applied' = {} /\ heldOff' = {} /\ wasOn' = FALSE /\ bypass' = FALSE
    /\ late' \in {late} \cup (IF late = "none" /\ step = "put" THEN {"1"} ELSE {})
    /\ UNCHANGED <<option, shared, addressed, bpf, hal, setting, saved, rules, pins, ledger, phone>>

(* boot_init: the setting is given back before anything runs. *)
BootInit ==
    /\ life = "dead" /\ life' = "booted"
    /\ \/ setting' = (IF saved = "none" THEN setting ELSE RestoreValue(saved)) /\ saved' = "none"
       \/ saved # "none" /\ setting' \in {setting, RestoreValue(saved)} /\ UNCHANGED saved
    /\ UNCHANGED <<step, enabled, want, applied, heldOff, wasOn, bypass, late, rules, pins, ledger, androidVars>>

WatchStep == ReadOption \/ ReadDump \/ SaveSetting \/ PutSetting \/ RestoreSetting \/ DropSaved
             \/ CheckPlan \/ Install \/ HoldBpfOff \/ Poll
StopStep == ClearTethering \/ RestoreOnStop \/ DropOnStop
TetherNext == WatchStep \/ StopStep \/ StopWatcher \/ StartWatcher \/ DaemonDies \/ BootInit \/ LatePut
              \/ SetOption \/ \E i \in Downstreams : Tether(i) \/ Address(i) \/ Untether(i) \/ Reattach(i)

(* A spawned task is polled, every command it awaits ends, and a teardown runs on. *)
TetherFairness == WF_tetherVars(WatchStep) /\ WF_tetherVars(StopStep)
TetherSpec == TetherInit /\ [][TetherNext]_tetherVars /\ TetherFairness

-----------------------------------------------------------------------------
(* Properties *)

(* The watcher's step exists only while the data path is up. *)
TetherTypeOK ==
    /\ shared \subseteq Downstreams /\ bpf \subseteq shared /\ addressed \subseteq shared /\ pins \subseteq shared
    /\ rules \cup missed \subseteq [kind : Kinds, on : Downstreams \cup {"all"}]
    /\ stuck \subseteq [kind : Kinds \cup {"pin"}, on : Downstreams \cup {"all"}]
    /\ setting \in {"null", "0", "1"} /\ saved \in {"none", "null", "0", "1"} /\ late \in {"none", "1", "landed"}
    /\ life \in {"dead", "booted", "stopped", "up"} \cup Teardown /\ step \in WatchSteps
    /\ step # "none" => life = "up"

(* The setting's previous value "is saved in the run dir before it is changed and put back
   exactly on teardown, also after a crash": whenever the setting is not the user's, the file
   has the user's value, through every abort, crash and failed put, and also while a put whose
   caller gave up is still to land (once it has, the record may be gone: see the README). *)
SettingIsKept == setting # phone.user /\ late # "landed" => saved = phone.user

(* A finished teardown leaves nothing of the watcher's, whichever step it was aborted at: no rule
   and no filter but those its own command failed to remove, and the setting either the user's or
   still on file for the next try. *)
TeardownIsWhole == life = "stopped" => /\ rules \subseteq stuck /\ pins \subseteq StuckPins
                                       /\ setting = phone.user \/ saved = phone.user \/ late = "landed"

(* What a poll takes for intact, although it looks at a part of it and a rule that went in "looks
   exactly like one that" did not (android/mod.rs:27): replies return, no forwarded IPv4 leaves by
   the uplink, and client IPv6 or DNS goes astray only where the last install lost the very rule. *)
IntactIsWhole ==
    step = "sleep" /\ applied # {} /\ PlanInPlace(applied) =>
        \A i \in applied :
            /\ Returns(i)
            /\ ~FastPath(i) =>
                  /\ Fate(i, "v4") # "uplink"
                  /\ \A p \in Packets : Fate(i, p) \notin {"tun", "refused"} => Needs(i, p) \cap missed # {}

(* Nothing is heldOff off a downstream that is not steered: with the option off, Tethering has its
   offload back after a poll, unless the filter could not be deleted. *)
OffloadIsHandedBack == step = "sleep" => pins \subseteq applied \cup StuckPins

(* The offload HAL forwarding a session the proxy should carry is told to the user. *)
BypassIsTold == step = "sleep" /\ option /\ enabled /\ hal /\ saved # "none" => bypass

(* While the option is on, the data path up and a downstream tethered, its clients end up
   steered for good: also after the downstream was taken down and brought back between two polls,
   which leaves the rules in place and the reply table empty, and after commands that failed. *)
ClientsAreSteered ==
    \A i \in Downstreams :
        <>[](life = "up" /\ option /\ i \in addressed) =>
            <>[](/\ Has("steer", i) /\ Has("hook4", "all") /\ Returns(i)
                 /\ Fate(i, "dns6") = "refused" \/ Needs(i, "dns6") \cap missed # {}
                 /\ phone.pinnable => i \in pins)

(* Whatever step the watcher is at or is aborted at, the user's setting is not lost, a teardown is
   whole, and what a poll takes for intact steers every client. *)
TetheringIsWhole == TetherTypeOK /\ SettingIsKept /\ TeardownIsWhole /\ IntactIsWhole /\ OffloadIsHandedBack
=============================================================================
