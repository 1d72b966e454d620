------------------------------- MODULE OsProxy -------------------------------
(***************************************************************************)
(* The proxy settings of the user's session (desktop/sysproxy.rs), the PAC *)
(* server (pac.rs) and the record that marks the settings as the app's     *)
(* own: a snapshot of the user's, written before the first change and      *)
(* deleted after the last key is back. Each setting is a key written by a  *)
(* command of its own, so a crash, a failure or another task comes in      *)
(* between any two.                                                        *)
(***************************************************************************)
EXTENDS Naturals, Sequences

CONSTANTS Desks,      \* sessions: subset of {"gnome", "kde", "kde without reader", "windows"}
          MaxFaults,  \* how many commands or file writes may fail
          QuitRaces   \* whether the exit may come while the service is at it

ASSUME OsProxyConstants == /\ Desks \subseteq {"gnome", "kde", "kde without reader", "windows"}
                           /\ MaxFaults \in Nat /\ QuitRaces \in BOOLEAN

VARIABLES desk,      \* the session, fixed
          os,        \* layer -> key -> whose value it has
          record,    \* the ownership record: [state, snap]
          job,       \* per task, what is left of its call
          pacServer, \* whether the PAC server listens
          gui,       \* "up", "crashed", "quit"
          settled,   \* what the last finished call did: "apply", "clear", "none"
          faults, unsaved, \* failures so far, and whether the record was one
          spoilt     \* whether a crash ever hit the write of the record

proxyVars == <<desk, os, record, job, pacServer, gui, settled, faults, unsaved, spoilt>>

Kde == desk \in {"kde", "kde without reader"}
Layers == CASE desk = "windows" -> {"wininet"}
            [] Kde -> {"kde", "env"}
            [] OTHER -> {"gsettings", "env"}
Keys == {"mode", "server", "script"}
Whose == {"user", "off", "ours", "pac"}
Users == [l \in Layers |-> [k \in Keys |-> "user"]]

(* What a call writes to a layer, key after key. *)
Put(k, v) == <<[key |-> k, value |-> v]>>

(* set_system_proxy *)
GsettingsManual == Put("mode", "ours") \o Put("server", "ours")
KdeManual == Put("mode", "ours") \o Put("server", "ours")
EnvApply == Put("server", "ours")
WininetManual == Put("script", "off") \o Put("server", "ours") \o Put("mode", "ours")
SystemProxy(l) == CASE l = "gsettings" -> GsettingsManual [] l = "kde" -> KdeManual
                    [] l = "env" -> EnvApply [] OTHER -> WininetManual

(* set_pac: the environment cannot express a PAC and is cleared. *)
GsettingsAuto == Put("mode", "pac") \o Put("script", "pac")
KdePac == Put("mode", "pac") \o Put("script", "pac")
EnvClear == Put("server", "off")
WininetPac == Put("mode", "off") \o Put("script", "pac")
PacProxy(l) == CASE l = "gsettings" -> GsettingsAuto [] l = "kde" -> KdePac
                 [] l = "env" -> EnvClear [] OTHER -> WininetPac

(* blank_clear, and what a layer that could not be restored gets. *)
Disable(l) == CASE l = "env" -> EnvClear
                [] l = "wininet" -> Put("mode", "off") \o Put("script", "off")
                [] OTHER -> Put("mode", "off")

(* snapshot: a layer of KDE is read by kreadconfig, which a host may lack. *)
Snapshot == [l \in Layers \ (IF desk = "kde without reader" THEN {"kde"} ELSE {}) |-> os[l]]

WininetRestore(s) == Put("server", s.server) \o Put("script", s.script) \o Put("mode", s.mode)

(* Mutant: the script address is not put back. *)
RestoreLayer_NoScript(snap, l) == IF l \in DOMAIN snap THEN Put("mode", snap[l].mode) \o Put("server", snap[l].server) ELSE <<>>

(* restore_gsettings, restore_kde, restore_env: every captured key goes back. *)
RestoreLayer(snap, l) ==
    IF l \notin DOMAIN snap THEN <<>>
    ELSE CASE l = "env" -> Put("server", snap[l].server)
           [] l = "wininet" -> WininetRestore(snap[l])
           [] OTHER -> Put("mode", snap[l].mode) \o Put("server", snap[l].server) \o Put("script", snap[l].script)

(* The layers of a session in the order a call takes them. *)
LayersInOrder == CASE desk = "windows" -> <<"wininet">>
                   [] Kde -> <<"kde", "env">>
                   [] OTHER -> <<"gsettings", "env">>

NoRecord == [state |-> "none", snap |-> <<>>]
TornRecord == [state |-> "torn", snap |-> <<>>]

(* A call: what it writes, the layers it has not begun, the one it is at with the keys left,
   and whether all of its keys went back ("yes", "no"; "off" once it is being disabled). *)
Idle == [at |-> "idle", kind |-> "none", snap |-> <<>>, rest |-> <<>>, layer |-> "none", todo |-> <<>>, ok |-> "yes"]
Call(at, kind, snap) == [at |-> at, kind |-> kind, snap |-> snap, rest |-> LayersInOrder, layer |-> "none", todo |-> <<>>, ok |-> "yes"]
Clears == {"restore", "blank"}
Tasks == {"service", "exit"}

OsProxyInit ==
    /\ desk \in Desks /\ os = Users /\ record = NoRecord
    /\ job = [t \in Tasks |-> Idle]
    /\ pacServer = FALSE /\ gui = "up" /\ settled = "none"
    /\ faults = 0 /\ unsaved = FALSE /\ spoilt = FALSE

Runs(t, at) == gui = "up" /\ job[t].at = at
Set(t, j) == job' = [job EXCEPT ![t] = j]

(* decide_apply: a record that exists is kept; it is not read. *)
DecideApply == IF record.state = "none" THEN "snapshot" ELSE "write"

(* decide_clear: what a record that is there, and readable, has a clear do. *)
DecideClear == CASE record.state = "none" -> Idle
                 [] record.state = "torn" -> Call("write", "blank", <<>>)
                 [] OTHER -> Call("write", "restore", record.snap)

MayCall == gui = "up" /\ job["service"] = Idle /\ job["exit"] = Idle

(* apply_os_proxy: system mode stops the PAC server first, ... *)
ApplySystem == /\ MayCall
               /\ Set("service", Call(DecideApply, "system", <<>>))
               /\ pacServer' = FALSE /\ settled' = "none"
               /\ UNCHANGED <<desk, os, record, gui, faults, unsaved, spoilt>>

ClearWith(t) == /\ Set(t, DecideClear)
                /\ settled' = IF DecideClear = Idle THEN "clear" ELSE "none"

(* ... pac mode needs its server's port: without it the settings are cleared, ... *)
ApplyPac ==
    /\ MayCall
    /\ \/ /\ pacServer' = TRUE /\ settled' = "none"
          /\ Set("service", Call(DecideApply, "pac", <<>>))
       \/ pacServer' = FALSE /\ ClearWith("service")
    /\ UNCHANGED <<desk, os, record, gui, faults, unsaved, spoilt>>

(* ... and every other mode clears. *)
ClearOsProxy == /\ MayCall
                /\ pacServer' = FALSE /\ ClearWith("service")
                /\ UNCHANGED <<desk, os, record, gui, faults, unsaved, spoilt>>

(* ensure_backup: read every layer, then write the file, which is neither created nor
   filled at once, nor is its failure noticed. *)
TakeSnapshot(t) == /\ Runs(t, "snapshot")
                   /\ Set(t, [job[t] EXCEPT !.at = "create", !.snap = Snapshot])
                   /\ UNCHANGED <<desk, os, record, pacServer, gui, settled, faults, unsaved, spoilt>>

CreateRecord(t) == /\ Runs(t, "create")
                   /\ \/ record' = TornRecord /\ Set(t, [job[t] EXCEPT !.at = "fill"]) /\ UNCHANGED <<faults, unsaved>>
                      \/ /\ faults < MaxFaults /\ faults' = faults + 1 /\ unsaved' = TRUE
                         /\ Set(t, [job[t] EXCEPT !.at = "write"]) /\ UNCHANGED record
                   /\ UNCHANGED <<desk, os, pacServer, gui, settled, spoilt>>

FillRecord(t) == /\ Runs(t, "fill")
                 /\ Set(t, [job[t] EXCEPT !.at = "write", !.snap = <<>>])
                 /\ record' = [state |-> "full", snap |-> job[t].snap]
                 /\ UNCHANGED <<desk, os, pacServer, gui, settled, faults, unsaved, spoilt>>

LayerWrites(kind, snap, l) == CASE kind = "system" -> SystemProxy(l) [] kind = "pac" -> PacProxy(l)
                                [] kind = "blank" -> Disable(l) [] OTHER -> RestoreLayer(snap, l)

(* restore, blank_clear and the two that apply take one layer after the other. *)
BeginLayer(t) ==
    /\ Runs(t, "write") /\ job[t].todo = <<>> /\ job[t].ok # "no" /\ job[t].rest # <<>>
    /\ \E l \in {Head(job[t].rest)} :
         Set(t, [job[t] EXCEPT !.rest = Tail(@), !.layer = l, !.ok = "yes",
                               !.todo = LayerWrites(job[t].kind, job[t].snap, l)])
    /\ UNCHANGED <<desk, os, record, pacServer, gui, settled, faults, unsaved, spoilt>>

(* A layer that could not be restored is disabled once its other keys were tried. *)
DisableLayer(t) == /\ Runs(t, "write") /\ job[t].todo = <<>> /\ job[t].ok = "no"
                   /\ Set(t, [job[t] EXCEPT !.ok = "off", !.todo = Disable(job[t].layer)])
                   /\ UNCHANGED <<desk, os, record, pacServer, gui, settled, faults, unsaved, spoilt>>

(* gsettings, kwriteconfig, systemctl, RegSetKeyValueW: one key. Only a restore looks at the
   result, and not where it disables or empties the environment. *)
Noted(j) == IF j.kind = "restore" /\ j.layer # "env" /\ j.ok = "yes" THEN "no" ELSE j.ok
WriteKey(t) ==
    /\ Runs(t, "write") /\ job[t].todo # <<>>
    /\ \/ /\ \E w \in {Head(job[t].todo)} : os' = [os EXCEPT ![job[t].layer][w.key] = w.value]
          /\ Set(t, [job[t] EXCEPT !.todo = Tail(@)]) /\ UNCHANGED faults
       \/ /\ faults < MaxFaults /\ faults' = faults + 1
          /\ Set(t, [job[t] EXCEPT !.todo = Tail(@), !.ok = Noted(job[t])]) /\ UNCHANGED os
    /\ UNCHANGED <<desk, record, pacServer, gui, settled, unsaved, spoilt>>

(* The end of a call: a clear deletes the record last. The exit ends the process. *)
Finish(t) ==
    /\ Runs(t, "write") /\ job[t].todo = <<>> /\ job[t].ok # "no" /\ job[t].rest = <<>>
    /\ Set(t, Idle)
    /\ \/ job[t].kind \in Clears /\ settled' = "clear" /\ record' = NoRecord
       \/ job[t].kind \notin Clears /\ settled' = "apply" /\ UNCHANGED record
    /\ gui' = IF t = "exit" THEN "quit" ELSE gui
    /\ UNCHANGED <<desk, os, pacServer, faults, unsaved, spoilt>>

(* RunEvent::Exit: clear_os_proxy, whatever the service is doing. *)
Quit == /\ gui = "up" /\ job["exit"] = Idle /\ (QuitRaces \/ job["service"] = Idle)
        /\ pacServer' = FALSE /\ ClearWith("exit")
        /\ gui' = IF DecideClear = Idle THEN "quit" ELSE "up"
        /\ UNCHANGED <<desk, os, record, faults, unsaved, spoilt>>

(* The process dies, or ends, with whatever was under way. *)
GuiCrash == /\ gui = "up" /\ gui' = "crashed" /\ pacServer' = FALSE
            /\ spoilt' = (spoilt \/ record.state = "torn")
            /\ settled' = "none"
            /\ job' = [t \in Tasks |-> Idle]
            /\ UNCHANGED <<desk, os, record, faults, unsaved>>

(* A launch clears what the run before it left. *)
Launch == /\ gui # "up" /\ gui' = "up"
          /\ job' = [t \in Tasks |-> IF t = "service" THEN DecideClear ELSE Idle]
          /\ settled' = IF DecideClear = Idle THEN "clear" ELSE "none"
          /\ UNCHANGED <<desk, os, record, pacServer, faults, unsaved, spoilt>>

OsProxyNext ==
    \/ ApplySystem \/ ApplyPac \/ ClearOsProxy \/ Quit \/ GuiCrash \/ Launch
    \/ \E t \in Tasks : \/ TakeSnapshot(t) \/ CreateRecord(t) \/ FillRecord(t)
                       \/ BeginLayer(t) \/ DisableLayer(t) \/ WriteKey(t) \/ Finish(t)

OsProxySpec == OsProxyInit /\ [][OsProxyNext]_proxyVars

-----------------------------------------------------------------------------
(* Properties *)

(* The layers that have a setting of the app's and are not switched off. *)
Disabled(o, l) == o[l].mode = "off" /\ (l = "wininet" => o[l].script # "pac")
OursIn(o) == {l \in DOMAIN o : ~Disabled(o, l) /\ \E k \in Keys : o[l][k] \in {"ours", "pac"}}
Steady == gui # "up" \/ \A t \in Tasks : job[t] = Idle

OsProxyTypeOK == /\ os \in [Layers -> [Keys -> Whose]]
                 /\ record.state \in {"none", "torn", "full"}
                 /\ \A t \in Tasks : /\ job[t].at \in {"idle", "snapshot", "create", "fill", "write"}
                                    /\ job[t].todo \in Seq([key : Keys, value : Whose])

(* As long as a setting is the app's a record says so, unless the record could not be
   written; and the record never holds the app's own settings as the user's. The
   environment has no fallback for a command that fails, and no layer one for two. *)
Sure(ls) == IF faults = 0 THEN ls ELSE ls \ {"env"}
OursIsRecorded == ~unsaved /\ faults <= 1 => /\ Sure(OursIn(os)) # {} => record.state # "none"
                                            /\ Sure(OursIn(record.snap)) = {}

(* Active, a layer would send programs to a PAC script. *)
PacActive(l) == os[l].script = "pac" /\ os[l].mode \in IF l = "wininet" THEN {"off", "user"} ELSE {"pac"}

(* While the app runs and is at rest, no layer points at a PAC server that is not there. *)
PacIsServed == gui = "up" /\ Steady /\ faults = 0 /\ (\E l \in Layers : PacActive(l)) => pacServer

(* A clear, also one after a crash in the middle of an apply or of another clear, gives
   the user every setting back; with one command failing the layer is off, never half the
   app's; with a record torn by a crash all are off. *)
Off(l) == Disabled(os, l) \/ (l = "env" /\ os[l].server = "off")
ClearRestores == Steady /\ settled = "clear" /\ ~unsaved /\ faults <= 1 =>
    /\ faults = 0 /\ ~spoilt => os = Users
    /\ \A l \in Layers : os[l] # Users[l] => Off(l) \/ (l = "env" /\ faults > 0) \/ (spoilt /\ l \notin OursIn(os))

(* The app's proxy settings are on record, served while they are set, and given back for
   the user's own. *)
ProxyIsGivenBack == OsProxyTypeOK /\ OursIsRecorded /\ PacIsServed /\ ClearRestores
=============================================================================
