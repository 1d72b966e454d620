--------------------------- MODULE ServiceLifecycle ---------------------------
(***************************************************************************)
(* The backend service of Kasumi-Proxy (crates/kasumi-backend/src/service):*)
(* one process that starts, stops and watches the data path (proxy core,   *)
(* tun helper, OS proxy) while clients edit the saved settings.            *)
(*                                                                         *)
(* Two async locks order its tasks.  `serialize` is held across a whole    *)
(* start, stop, restart, teardown, subscription apply or asset write; here *)
(* it is `chain`, the program counter of whoever holds it, "idle" when the *)
(* lock is free.  `state_write` is held across a settings edit and its     *)
(* recompute of `pending_restart`; here it is `stateWrite`.  Every other   *)
(* shared field is read and written without either of them, which is what  *)
(* this module is about: each await of the code is a point where another   *)
(* task's step may come in between.                                        *)
(*                                                                         *)
(* The platform (crates/kasumi-backend/src/platform.rs and its desktop and *)
(* Android implementations) appears as the state the service observes: the *)
(* live core, its helper, the recorded run state, the OS proxy, and the    *)
(* link to the privileged helper process that runs the data path.          *)
(***************************************************************************)

CONSTANTS
  Profiles,      \* profile ids
  Cfgs,          \* resolved core configs, compared only for equality
  NoId,          \* no profile (Option::None)
  NoCfg,         \* a profile that does not exist or does not build
  AppStates,     \* the saved states clients may write
  InitialCores,  \* cores an earlier process may have left behind
  Actors,        \* the tasks that take part
  Remote,        \* the data path runs in the privileged helper process
  Uplink         \* what an uplink change does to a running data path

Modes == {"tun", "system", "pac", "proxyOnly"}

(* The tasks that may take part: clients (start, stop, restart, reload),   *)
(* edits, the user's probe, boot auto-start, network and resume watchers,  *)
(* the watchdog, the asset and subscription updaters, and crashes.         *)
AllActors == {"user", "edit", "probe", "boot", "network", "resume",
              "watchdog", "asset", "sub", "crash"}

(* A data path: the profile it was built from, the resolved core config    *)
(* and the proxy mode.  NoPath is the absence of one.                      *)
Paths == [id: Profiles, cfg: Cfgs, mode: Modes]
NoPath == [id |-> NoId, cfg |-> NoCfg, mode |-> "none"]

States == [active: Profiles \cup {NoId},
           cfg: [Profiles -> Cfgs \cup {NoCfg}],
           mode: Modes,
           autoStart: BOOLEAN,
           check: BOOLEAN]

ASSUME ConstantsAssumption ==
  /\ NoId \notin Profiles
  /\ NoCfg \notin Cfgs
  /\ AppStates \subseteq States
  /\ InitialCores \subseteq Paths \cup {NoPath}
  /\ Actors \subseteq AllActors
  /\ Remote \in BOOLEAN
  /\ Uplink \in {"never", "unowned", "bound"}

Refreshers == {"edit", "settle", "sub"}
Probers == {"user", "watchdog"}

VARIABLES
  saved,        \* app-state.json and profiles.json
  (* the platform *)
  link,         \* the privileged helper answers
  core,         \* the live core process, or NoPath
  helper,       \* the tun helper process is alive
  doc,          \* the recorded run state (data-path-state document)
  osProxy,      \* what the OS proxy settings point at
  (* the service *)
  chain,        \* holder of the serialize lock: its next step
  want,         \* the explicit profile of the start in the chain, or NoId
  built,        \* what resolve_and_write_config returned
  stateWrite,   \* holder of the state_write lock
  refresh,      \* refresh_pending_restart calls in flight
  baseline,     \* running_config
  pending,      \* pending_restart
  assetsStale,  \* assets_stale
  autoStarted,  \* auto_started
  verdict,      \* connectivity
  probe,        \* probe_and_store calls in flight
  dog,          \* the watchdog loop
  (* history, read by no guard *)
  geoChanged,   \* geo data on disk changed since the live core loaded it
  wanted        \* no completed stop since the last requested start

platformVars == <<link, core, helper, doc, osProxy>>
noteVars == <<baseline, pending, verdict, probe>>
history == <<geoChanged, wanted>>
vars == <<saved, platformVars, chain, want, built, stateWrite, refresh,
          noteVars, assetsStale, autoStarted, dog, history>>

ChainSteps == {"idle", "stop", "note", "resolve", "record", "spawn",
               "bringup", "failed", "up", "settle", "settling",
               "clear", "halt", "reap", "reapNote", "saved"}

Ids == Profiles \cup {NoId}
Results == {"unknown", "reachable", "unreachable"}
RefreshCalls ==
  [pc: {"idle", "clone", "build", "apply", "mode"}, active: Ids,
   base: Paths \cup {NoPath}, next: Paths \cup {NoPath}]
ProbeCalls ==
  [pc: {"idle", "profile", "status", "fetch", "store"}, current: BOOLEAN,
   id: Ids, result: Results, latest: BOOLEAN]
Verdicts == [id: Ids, result: Results, latest: BOOLEAN]
Dogs == [pc: {"idle", "check", "lock", "reaping", "tail", "probing"},
         up: BOOLEAN, claims: BOOLEAN]

IdleRefresh == [pc |-> "idle", active |-> NoId, base |-> NoPath, next |-> NoPath]
IdleProbe == [pc |-> "idle", current |-> FALSE, id |-> NoId,
              result |-> "unknown", latest |-> FALSE]
IdleDog == [pc |-> "idle", up |-> FALSE, claims |-> FALSE]
(* ProbeVerdict::default() *)
NoVerdict == [id |-> NoId, result |-> "unknown", latest |-> FALSE]

TypeOK ==
  /\ saved \in States
  /\ link \in BOOLEAN
  /\ core \in Paths \cup {NoPath}
  /\ helper \in BOOLEAN
  /\ doc \in {"stopped", "connecting", "failed"}
  /\ osProxy \in {"off", "system", "pac"}
  /\ chain \in ChainSteps
  /\ want \in Ids
  /\ built \in Paths \cup {NoPath}
  /\ stateWrite \in {"free", "edit", "settle"}
  /\ refresh \in [Refreshers -> RefreshCalls]
  /\ baseline \in Paths \cup {NoPath}
  /\ pending \in BOOLEAN
  /\ assetsStale \in BOOLEAN
  /\ autoStarted \in BOOLEAN
  /\ verdict \in Verdicts
  /\ probe \in [Probers -> ProbeCalls]
  /\ dog \in Dogs
  /\ geoChanged \in BOOLEAN
  /\ wanted \in BOOLEAN

-----------------------------------------------------------------------------
(* What the code computes from the state. *)

(* Slip: a profile that does not build is built all the same. *)
Build_NoError(s, id) ==
  IF id # NoId
    THEN [id |-> id, cfg |-> s.cfg[id], mode |-> s.mode]
    ELSE NoPath

(* build_profile_config: the path the saved state builds for a profile,    *)
(* NoPath when the profile is missing or its config does not build.        *)
Build(s, id) ==
  IF id # NoId /\ s.cfg[id] # NoCfg
    THEN [id |-> id, cfg |-> s.cfg[id], mode |-> s.mode]
    ELSE NoPath

(* core_config::mutation_effect. *)
MutationEffect(running, next) ==
  LET configChanged == running.cfg # next.cfg
      tunnessChanged == (running.mode = "tun") # (next.mode = "tun")
  IN IF configChanged \/ tunnessChanged THEN "pending"
     ELSE IF next.mode # running.mode THEN "live"
     ELSE "match"

(* What apply_os_proxy can leave behind for a mode: the PAC server may     *)
(* fail to bind, and then the OS proxy is cleared.                         *)
OsProxyFor(mode) ==
  CASE mode = "system" -> {"system"}
    [] mode = "pac" -> {"pac", "off"}
    [] OTHER -> {"off"}

(* service_state() as the service sees it: an error when the link is down. *)
EngineUp == link /\ core # NoPath
UpOrComing == link /\ (core # NoPath \/ doc = "connecting")
Claims == UpOrComing
(* data_path_healthy() == Some(true): a live core, and the helper an       *)
(* external tun needs.                                                     *)
Healthy == EngineUp /\ (core.mode = "tun" => helper)

(* uplink_change_restarts: Android never rebuilds; a desktop rebuilds a    *)
(* path it did not start, and a bridged core bound to one interface.       *)
UplinkRestarts ==
  /\ Uplink # "never"
  /\ baseline = NoPath \/ (Uplink = "bound" /\ baseline.mode = "tun")

(* sub_update::config_changed: whether the active profile's rebuild        *)
(* differs, TRUE when one of the two does not build.                       *)
ConfigChanged(prev, next) ==
  LET old == Build(prev, prev.active)
      new == Build(next, next.active)
  IN old = NoPath \/ new = NoPath \/ old.cfg # new.cfg

(* Slip: the verdict is dropped but the generation stays. *)
ResetConnectivity_NoBump ==
  /\ UNCHANGED probe
  /\ verdict' = NoVerdict

(* reset_connectivity: the generation bump makes the number every probe in *)
(* flight has loaded an old one, then the verdict is dropped.              *)
ResetConnectivity ==
  /\ probe' = [p \in Probers |-> [probe[p] EXCEPT !.current = FALSE]]
  /\ verdict' = NoVerdict

(* note_data_path_stopped *)
NoteStopped ==
  /\ baseline' = NoPath
  /\ ResetConnectivity
  /\ pending' = FALSE

-----------------------------------------------------------------------------
Init ==
  /\ saved \in AppStates
  /\ link = TRUE
  /\ core \in InitialCores
  /\ helper = TRUE
  /\ doc = "stopped"
  /\ osProxy = "off"
  /\ chain = "idle"
  /\ want = NoId
  /\ built = NoPath
  /\ stateWrite = "free"
  /\ refresh = [r \in Refreshers |-> IdleRefresh]
  /\ baseline = NoPath
  /\ pending = FALSE
  /\ assetsStale = FALSE
  /\ autoStarted = FALSE
  /\ verdict = NoVerdict
  /\ probe = [p \in Probers |-> IdleProbe]
  /\ dog = IdleDog
  /\ geoChanged = FALSE
  /\ wanted = (core # NoPath)

-----------------------------------------------------------------------------
(* The platform's two calls.  A stop that reaches the platform succeeds;   *)
(* the error is a lost link, before or after the helper did the work.      *)
StopDone(keep) ==
  /\ core' = NoPath
  /\ helper' = FALSE
  /\ doc' = IF keep THEN doc ELSE "stopped"

StopOk(keep) == link /\ StopDone(keep) /\ UNCHANGED link

StopErr(keep) ==
  /\ Remote
  /\ link' = FALSE
  /\ \/ link /\ StopDone(keep)
     \/ UNCHANGED <<core, helper, doc>>

-----------------------------------------------------------------------------
(* Taking the lifecycle lock. *)

(* Start and Restart of a client; id is NoId for "the active profile". *)
UserStart(id) ==
  /\ "user" \in Actors
  /\ chain = "idle"
  /\ chain' = "stop"
  /\ want' = id
  /\ wanted' = TRUE
  /\ UNCHANGED <<saved, platformVars, built, stateWrite, refresh, noteVars,
                 assetsStale, autoStarted, dog, geoChanged>>

(* Stop of a client. *)
UserStop ==
  /\ "user" \in Actors
  /\ chain = "idle"
  /\ chain' = "clear"
  /\ UNCHANGED <<saved, platformVars, want, built, stateWrite, refresh,
                 noteVars, assetsStale, autoStarted, dog, history>>

(* A restart of the active profile, asked for by the service itself. *)
BeginRestart ==
  /\ chain' = "stop"
  /\ want' = NoId
  /\ UNCHANGED <<saved, platformVars, built, stateWrite, refresh, noteVars,
                 assetsStale, autoStarted, dog, history>>

(* ReloadAppFilter: a restart, when something runs. *)
UserReload ==
  /\ "user" \in Actors
  /\ chain = "idle"
  /\ baseline # NoPath \/ EngineUp
  /\ BeginRestart

(* maybe_auto_start *)
MaybeAutoStart ==
  /\ ~autoStarted
  /\ autoStarted' = TRUE
  /\ IF saved.active # NoId /\ saved.autoStart
       THEN chain' = "stop" /\ want' = NoId /\ wanted' = TRUE
       ELSE UNCHANGED <<chain, want, wanted>>
  /\ UNCHANGED <<saved, platformVars, built, stateWrite, refresh, noteVars,
                 assetsStale, dog, geoChanged>>

(* The boot task of spawn_background. *)
BootAutoStart ==
  /\ "boot" \in Actors
  /\ chain = "idle"
  /\ MaybeAutoStart

(* One message of the network watcher; with the path up and no rebuild     *)
(* needed it does nothing.                                                 *)
NetworkChange ==
  /\ "network" \in Actors
  /\ chain = "idle"
  /\ \/ UplinkRestarts /\ UpOrComing /\ BeginRestart
     \/ ~UpOrComing /\ MaybeAutoStart

(* Slip: a resume restarts whether or not anything runs. *)
SystemResume_Always ==
  /\ "resume" \in Actors
  /\ chain = "idle"
  /\ BeginRestart

(* One message of the resume watcher: restart_if_up. *)
SystemResume ==
  /\ "resume" \in Actors
  /\ chain = "idle"
  /\ UpOrComing
  /\ BeginRestart

-----------------------------------------------------------------------------
(* Start and Restart, under the lifecycle lock. *)

(* stop_data_path with the record kept; an error ends the command. *)
StopOld ==
  /\ chain = "stop"
  /\ \/ StopOk(TRUE) /\ chain' = "note" /\ UNCHANGED want
     \/ StopErr(TRUE) /\ chain' = "idle" /\ want' = NoId
  /\ UNCHANGED <<saved, osProxy, built, stateWrite, refresh, noteVars,
                 assetsStale, autoStarted, dog, history>>

(* note_data_path_stopped, after the old core is gone. *)
NoteOldStopped ==
  /\ chain = "note"
  /\ NoteStopped
  /\ chain' = "resolve"
  /\ UNCHANGED <<saved, platformVars, want, built, stateWrite, refresh,
                 assetsStale, autoStarted, dog, history>>

(* resolve_and_write_config: an unknown or unbuildable profile, a missing  *)
(* geo asset or a failed write ends the command right here.                *)
Resolve ==
  /\ chain = "resolve"
  /\ LET id == IF want # NoId THEN want ELSE saved.active
     IN \/ /\ Build(saved, id) # NoPath
           /\ built' = Build(saved, id)
           /\ chain' = "record"
        \/ /\ chain' = "idle"
           /\ UNCHANGED built
  /\ want' = NoId
  /\ UNCHANGED <<saved, platformVars, stateWrite, refresh, noteVars,
                 assetsStale, autoStarted, dog, history>>

(* start_data_path records "connecting" before anything is spawned. *)
RecordConnecting ==
  /\ chain = "record"
  /\ link
  /\ doc' = "connecting"
  /\ chain' = "spawn"
  /\ UNCHANGED <<saved, link, core, helper, osProxy, want, built, stateWrite,
                 refresh, noteVars, assetsStale, autoStarted, dog, history>>

(* The core process appears; it loads the geo data that is on disk now,    *)
(* and no measurement made so far is about it.                             *)
SpawnCore ==
  /\ chain = "spawn"
  /\ link
  /\ core' = built
  /\ geoChanged' = FALSE
  /\ verdict' = [verdict EXCEPT !.latest = FALSE]
  /\ probe' = [p \in Probers |-> [probe[p] EXCEPT !.latest = FALSE]]
  /\ chain' = "bringup"
  /\ UNCHANGED <<saved, link, helper, doc, osProxy, want, built, stateWrite,
                 refresh, baseline, pending, assetsStale, autoStarted, dog,
                 wanted>>

(* The helper and the routing in front of the core come up. *)
BringUp ==
  /\ chain = "bringup"
  /\ link
  /\ helper' = TRUE
  /\ chain' = "up"
  /\ UNCHANGED <<saved, link, core, doc, osProxy, want, built, stateWrite,
                 refresh, noteVars, assetsStale, autoStarted, dog, history>>

(* start_data_path fails at any of its steps: the platform rolls back and  *)
(* records "failed", or the link to the helper is lost.                    *)
StartFails ==
  /\ chain \in {"record", "spawn", "bringup"}
  /\ \/ /\ link
        /\ doc' = "failed"
        /\ core' = NoPath
        /\ helper' = FALSE
        /\ UNCHANGED link
     \/ /\ Remote
        /\ link' = FALSE
        /\ UNCHANGED <<core, helper, doc>>
  /\ chain' = "failed"
  /\ built' = NoPath
  /\ UNCHANGED <<saved, osProxy, want, stateWrite, refresh, noteVars,
                 assetsStale, autoStarted, dog, history>>

(* The failed bring-up clears the OS proxy and the baseline. *)
CleanUpFailed ==
  /\ chain = "failed"
  /\ osProxy' = "off"
  /\ NoteStopped
  /\ chain' = "idle"
  /\ UNCHANGED <<saved, link, core, helper, doc, want, built, stateWrite,
                 refresh, assetsStale, autoStarted, dog, history>>

(* Slip: the start ends without settle_pending_restart. *)
NoteStarted_NoSettle ==
  /\ chain = "up"
  /\ osProxy' \in OsProxyFor(built.mode)
  /\ baseline' = built
  /\ pending' = FALSE
  /\ assetsStale' = FALSE
  /\ built' = NoPath
  /\ chain' = "idle"
  /\ UNCHANGED <<saved, link, core, helper, doc, want, stateWrite,
                 refresh, verdict, probe, autoStarted, dog, history>>

(* set_os_proxy and note_data_path_started. *)
NoteStarted ==
  /\ chain = "up"
  /\ osProxy' \in OsProxyFor(built.mode)
  /\ baseline' = built
  /\ pending' = FALSE
  /\ assetsStale' = FALSE
  /\ built' = NoPath
  /\ chain' = "settle"
  /\ UNCHANGED <<saved, link, core, helper, doc, want, stateWrite,
                 refresh, verdict, probe, autoStarted, dog, history>>

(* settle_pending_restart: wait for state_write, re-read the state. *)
SettleBegin ==
  /\ chain = "settle"
  /\ stateWrite = "free"
  /\ stateWrite' = "settle"
  /\ refresh' = [refresh EXCEPT !["settle"] =
                   [IdleRefresh EXCEPT !.pc = "clone", !.active = saved.active]]
  /\ chain' = "settling"
  /\ UNCHANGED <<saved, platformVars, want, built, noteVars, assetsStale,
                 autoStarted, dog, history>>

-----------------------------------------------------------------------------
(* Stop, under the lifecycle lock. *)

(* The OS proxy is cleared and the stop noted before the core goes. *)
ClearForStop ==
  /\ chain = "clear"
  /\ osProxy' = "off"
  /\ NoteStopped
  /\ chain' = "halt"
  /\ UNCHANGED <<saved, link, core, helper, doc, want, built, stateWrite,
                 refresh, assetsStale, autoStarted, dog, history>>

(* stop_data_path, then assets_stale once it is down. *)
Halt ==
  /\ chain = "halt"
  /\ \/ /\ StopOk(FALSE)
        /\ assetsStale' = FALSE
        /\ wanted' = FALSE
     \/ /\ StopErr(FALSE)
        /\ UNCHANGED <<assetsStale, wanted>>
  /\ chain' = "idle"
  /\ UNCHANGED <<saved, osProxy, want, built, stateWrite, refresh, noteVars,
                 autoStarted, dog, geoChanged>>

-----------------------------------------------------------------------------
(* Edits and refresh_pending_restart. *)

(* Mutate / ImportBackup: run_mutation under state_write, then the refresh *)
(* still under it.  A mutation that errors writes nothing.                 *)
EditSave(s) ==
  /\ "edit" \in Actors
  /\ stateWrite = "free"
  /\ stateWrite' = "edit"
  /\ saved' = s
  /\ refresh' = [refresh EXCEPT !["edit"] =
                   [IdleRefresh EXCEPT !.pc = "clone", !.active = s.active]]
  /\ UNCHANGED <<platformVars, chain, want, built, noteVars, assetsStale,
                 autoStarted, dog, history>>

(* Slip: settle_pending_restart leaves with state_write held. *)
RefreshDone_KeepsLock(r) ==
  /\ refresh' = [refresh EXCEPT ![r] = IdleRefresh]
  /\ stateWrite' = IF r = "edit" THEN "free" ELSE stateWrite
  /\ chain' = IF r = "edit" THEN chain ELSE "idle"

(* The refresh returns to its caller, which releases what it holds. *)
RefreshDone(r) ==
  /\ refresh' = [refresh EXCEPT ![r] = IdleRefresh]
  /\ stateWrite' = IF r = "sub" THEN stateWrite ELSE "free"
  /\ chain' = IF r = "edit" THEN chain ELSE "idle"

RefreshGoes(r, pc, base, next) ==
  /\ refresh' = [refresh EXCEPT ![r].pc = pc, ![r].base = base, ![r].next = next]
  /\ UNCHANGED <<stateWrite, chain>>

(* Clone the baseline; nothing to compare means nothing to do. *)
RefreshClone(r) ==
  /\ refresh[r].pc = "clone"
  /\ IF baseline = NoPath \/ refresh[r].active = NoId
       THEN RefreshDone(r)
       ELSE RefreshGoes(r, "build", baseline, NoPath)
  /\ UNCHANGED <<saved, platformVars, want, built, noteVars, assetsStale,
                 autoStarted, dog, history>>

(* Build what the state on disk would start now. *)
RefreshBuild(r) ==
  /\ refresh[r].pc = "build"
  /\ LET next == Build(saved, refresh[r].active)
     IN IF next = NoPath
          THEN RefreshDone(r)
          ELSE RefreshGoes(r, "apply", refresh[r].base, next)
  /\ UNCHANGED <<saved, platformVars, want, built, noteVars, assetsStale,
                 autoStarted, dog, history>>

(* adopt_active_id and reassign_verdict. *)
Adopt(from, to) ==
  /\ baseline' = IF baseline.id = from THEN [baseline EXCEPT !.id = to] ELSE baseline
  /\ verdict' = IF verdict.id = from THEN [verdict EXCEPT !.id = to] ELSE verdict

(* Adopt the id, then flip the flag, or re-point the OS proxy. *)
RefreshApply(r) ==
  /\ refresh[r].pc = "apply"
  /\ LET base == refresh[r].base
         next == refresh[r].next
         effect == MutationEffect(base, next)
     IN /\ IF effect # "pending" /\ base.id # refresh[r].active
             THEN Adopt(base.id, refresh[r].active)
             ELSE UNCHANGED <<baseline, verdict>>
        /\ IF effect = "live"
             THEN /\ osProxy' \in OsProxyFor(next.mode)
                  /\ RefreshGoes(r, "mode", base, next)
                  /\ UNCHANGED pending
             ELSE /\ pending' = (effect = "pending")
                  /\ RefreshDone(r)
                  /\ UNCHANGED osProxy
  /\ UNCHANGED <<saved, link, core, helper, doc, want, built, probe,
                 assetsStale, autoStarted, dog, geoChanged, wanted>>

(* Slip: a live mode switch leaves the baseline's mode behind. *)
RefreshMode_KeepsMode(r) ==
  /\ refresh[r].pc = "mode"
  /\ RefreshDone(r)
  /\ UNCHANGED <<saved, platformVars, want, built, noteVars, assetsStale,
                 autoStarted, dog, history>>

(* The tail of a live mode switch: the baseline takes the new mode. *)
RefreshMode(r) ==
  /\ refresh[r].pc = "mode"
  /\ baseline' = IF baseline = NoPath THEN baseline
                 ELSE [baseline EXCEPT !.mode = refresh[r].next.mode]
  /\ RefreshDone(r)
  /\ UNCHANGED <<saved, platformVars, want, built, pending, verdict, probe,
                 assetsStale, autoStarted, dog, history>>

-----------------------------------------------------------------------------
(* The updaters, under the lifecycle lock only. *)

(* Slip: only a core this process started counts as running. *)
AssetChanged_OwnOnly ==
  /\ "asset" \in Actors
  /\ chain = "idle"
  /\ geoChanged' = (core # NoPath)
  /\ assetsStale' = (assetsStale \/ baseline # NoPath)
  /\ UNCHANGED <<saved, platformVars, chain, want, built, stateWrite, refresh,
                 noteVars, autoStarted, dog, wanted>>

(* apply_asset changed the file: flagged when a core runs on the old data. *)
AssetChanged ==
  /\ "asset" \in Actors
  /\ chain = "idle"
  /\ geoChanged' = (core # NoPath)
  /\ assetsStale' = (assetsStale \/ EngineUp)
  /\ UNCHANGED <<saved, platformVars, chain, want, built, stateWrite, refresh,
                 noteVars, autoStarted, dog, wanted>>

(* Slip: the apply restarts without asking whether anything runs. *)
SubApply_Always(s, affected) ==
  /\ "sub" \in Actors
  /\ chain = "idle"
  /\ s.mode = saved.mode /\ s.autoStart = saved.autoStart /\ s.check = saved.check
  /\ affected \/ s.active = saved.active
  /\ saved' = s
  /\ IF affected /\ (s.active = NoId \/ ConfigChanged(saved, s))
       THEN /\ chain' = IF s.active = NoId THEN "clear" ELSE "stop"
            /\ want' = s.active
            /\ UNCHANGED refresh
       ELSE /\ chain' = "saved"
            /\ refresh' = [refresh EXCEPT !["sub"] =
                 [IdleRefresh EXCEPT !.pc = "clone", !.active = s.active]]
            /\ UNCHANGED want
  /\ UNCHANGED <<platformVars, built, stateWrite, noteVars, assetsStale,
                 autoStarted, dog, history>>

(* sub_update::apply: write the refreshed profiles, then restart or stop   *)
(* when the running profile is affected, else refresh.  A subscription     *)
(* that does not own the active profile leaves the active id alone, and    *)
(* none touches the mode or the switches.                                  *)
SubApply(s, affected) ==
  /\ "sub" \in Actors
  /\ chain = "idle"
  /\ s.mode = saved.mode /\ s.autoStart = saved.autoStart /\ s.check = saved.check
  /\ affected \/ s.active = saved.active
  /\ saved' = s
  /\ IF affected /\ EngineUp /\ (s.active = NoId \/ ConfigChanged(saved, s))
       THEN /\ chain' = IF s.active = NoId THEN "clear" ELSE "stop"
            /\ want' = s.active
            /\ UNCHANGED refresh
       ELSE /\ chain' = "saved"
            /\ refresh' = [refresh EXCEPT !["sub"] =
                 [IdleRefresh EXCEPT !.pc = "clone", !.active = s.active]]
            /\ UNCHANGED want
  /\ UNCHANGED <<platformVars, built, stateWrite, noteVars, assetsStale,
                 autoStarted, dog, history>>

-----------------------------------------------------------------------------
(* probe_and_store, from a client or the watchdog; it holds no lock. *)

ProbeStep(p, new) ==
  /\ probe' = [probe EXCEPT ![p] = new]
  /\ UNCHANGED <<saved, platformVars, chain, want, built, stateWrite, refresh,
                 baseline, pending, assetsStale, autoStarted, history>>

(* Load the generation. *)
ProbeBegin(p) ==
  /\ probe[p].pc = "idle"
  /\ ProbeStep(p, [IdleProbe EXCEPT !.pc = "profile", !.current = TRUE])
  /\ UNCHANGED verdict

UserProbe ==
  /\ "probe" \in Actors
  /\ ProbeBegin("user")
  /\ UNCHANGED dog

(* probed_profile *)
ProbeProfile(p) ==
  /\ probe[p].pc = "profile"
  /\ ProbeStep(p, [probe[p] EXCEPT !.pc = "status",
         !.id = IF baseline # NoPath THEN baseline.id ELSE saved.active])
  /\ UNCHANGED <<verdict, dog>>

(* proxy_status: no running core, no answer. *)
ProbeStatus(p) ==
  /\ probe[p].pc = "status"
  /\ ProbeStep(p, [probe[p] EXCEPT !.pc = IF EngineUp THEN "fetch" ELSE "store"])
  /\ UNCHANGED <<verdict, dog>>

(* The fetch goes through whatever core listens by now. *)
ProbeFetch(p) ==
  /\ probe[p].pc = "fetch"
  /\ \E result \in (IF core = NoPath THEN {"unreachable"}
                                     ELSE {"reachable", "unreachable"}) :
       ProbeStep(p, [probe[p] EXCEPT !.pc = "store", !.result = result,
                                     !.latest = TRUE])
  /\ UNCHANGED <<verdict, dog>>

(* Store the answer unless the generation moved. *)
ProbeStore(p) ==
  /\ probe[p].pc = "store"
  /\ verdict' = IF probe[p].current
                  THEN [id |-> probe[p].id, result |-> probe[p].result,
                        latest |-> probe[p].latest]
                  ELSE verdict
  /\ ProbeStep(p, IdleProbe)
  /\ dog' = IF p = "watchdog" THEN IdleDog ELSE dog

-----------------------------------------------------------------------------
(* The watchdog loop. *)

DogOnly == UNCHANGED <<saved, platformVars, chain, want, built, stateWrite,
                       refresh, noteVars, assetsStale, autoStarted, history>>

(* Sample service_state. *)
DogSample ==
  /\ "watchdog" \in Actors
  /\ dog.pc = "idle"
  /\ dog' = [pc |-> "check", up |-> EngineUp, claims |-> Claims]
  /\ DogOnly

(* Slip: only a live engine is checked, not the recorded state. *)
DogCheck_EngineOnly ==
  /\ dog.pc = "check"
  /\ dog' = [dog EXCEPT !.pc = IF dog.up /\ ~Healthy THEN "lock" ELSE "tail",
                         !.claims = FALSE]
  /\ DogOnly

(* A claimed data path that is not healthy is worth the lock. *)
DogCheck ==
  /\ dog.pc = "check"
  /\ dog' = [dog EXCEPT !.pc = IF dog.claims /\ ~Healthy THEN "lock" ELSE "tail",
                         !.claims = FALSE]
  /\ DogOnly

(* Slip: the sample taken before the lock is trusted. *)
DogLock_NoRecheck ==
  /\ dog.pc = "lock"
  /\ chain = "idle"
  /\ chain' = "reap"
  /\ dog' = [IdleDog EXCEPT !.pc = "reaping"]
  /\ UNCHANGED <<saved, platformVars, want, built, stateWrite, refresh,
                 noteVars, assetsStale, autoStarted, history>>

(* Under the lock both questions are asked again. *)
DogLock ==
  /\ dog.pc = "lock"
  /\ chain = "idle"
  /\ IF Claims /\ ~Healthy
       THEN chain' = "reap" /\ dog' = [IdleDog EXCEPT !.pc = "reaping"]
       ELSE UNCHANGED chain /\ dog' = [dog EXCEPT !.pc = "tail"]
  /\ UNCHANGED <<saved, platformVars, want, built, stateWrite, refresh,
                 noteVars, assetsStale, autoStarted, history>>

(* tear_down_dead_data_path: a failed stop is only logged. *)
DogReap ==
  /\ chain = "reap"
  /\ \/ StopOk(FALSE) /\ wanted' = FALSE
     \/ StopErr(FALSE) /\ UNCHANGED wanted
  /\ chain' = "reapNote"
  /\ UNCHANGED <<saved, osProxy, want, built, stateWrite, refresh, noteVars,
                 assetsStale, autoStarted, dog, geoChanged>>

(* note_data_path_stopped, whatever the stop returned. *)
DogReaped ==
  /\ chain = "reapNote"
  /\ NoteStopped
  /\ chain' = "idle"
  /\ dog' = IdleDog
  /\ UNCHANGED <<saved, platformVars, want, built, stateWrite, refresh,
                 assetsStale, autoStarted, history>>

(* Slip: a probe is due only after a failed one. *)
DogTail_OnlyRetries ==
  /\ dog.pc = "tail"
  /\ \/ /\ ~dog.up
        /\ ResetConnectivity
        /\ dog' = IdleDog
        /\ UNCHANGED <<saved, platformVars, chain, want, built, stateWrite,
                       refresh, baseline, pending, assetsStale, autoStarted,
                       history>>
     \/ /\ dog.up
        /\ ~saved.check \/ verdict.result # "unreachable"
        /\ dog' = IdleDog
        /\ DogOnly
     \/ /\ dog.up
        /\ saved.check
        /\ verdict.result = "unreachable"
        /\ ProbeBegin("watchdog")
        /\ dog' = [IdleDog EXCEPT !.pc = "probing"]

(* The rest of a tick: forget the verdict of a path that is down; probe    *)
(* one that is up when the check is on and a probe is due (always, unless  *)
(* the last verdict is a good one, and then on a timer).                   *)
DogTail ==
  /\ dog.pc = "tail"
  /\ \/ /\ ~dog.up
        /\ ResetConnectivity
        /\ dog' = IdleDog
        /\ UNCHANGED <<saved, platformVars, chain, want, built, stateWrite,
                       refresh, baseline, pending, assetsStale, autoStarted,
                       history>>
     \/ /\ dog.up
        /\ ~saved.check \/ verdict.result = "reachable"
        /\ dog' = IdleDog
        /\ DogOnly
     \/ /\ dog.up
        /\ saved.check
        /\ ProbeBegin("watchdog")
        /\ dog' = [IdleDog EXCEPT !.pc = "probing"]

-----------------------------------------------------------------------------
(* What happens to the processes on their own. *)

CoreDies ==
  /\ "crash" \in Actors
  /\ core # NoPath
  /\ core' = NoPath
  /\ UNCHANGED <<saved, link, helper, doc, osProxy, chain, want, built,
                 stateWrite, refresh, noteVars, assetsStale, autoStarted, dog,
                 history>>

HelperDies ==
  /\ "crash" \in Actors
  /\ helper
  /\ helper' = FALSE
  /\ UNCHANGED <<saved, link, core, doc, osProxy, chain, want, built,
                 stateWrite, refresh, noteVars, assetsStale, autoStarted, dog,
                 history>>

LinkBreaks ==
  /\ "crash" \in Actors
  /\ Remote
  /\ link
  /\ link' = FALSE
  /\ UNCHANGED <<saved, core, helper, doc, osProxy, chain, want, built,
                 stateWrite, refresh, noteVars, assetsStale, autoStarted, dog,
                 history>>

-----------------------------------------------------------------------------
Requests ==
  \/ \E id \in Ids : UserStart(id)
  \/ UserStop
  \/ UserReload
  \/ UserProbe
  \/ \E s \in AppStates : EditSave(s)
  \/ BootAutoStart
  \/ NetworkChange
  \/ SystemResume
  \/ AssetChanged
  \/ \E s \in AppStates, affected \in BOOLEAN : SubApply(s, affected)
  \/ DogSample

(* Steps of a running chain that wait for nobody. *)
ChainStep ==
  \/ StopOld
  \/ NoteOldStopped
  \/ Resolve
  \/ RecordConnecting
  \/ SpawnCore
  \/ BringUp
  \/ StartFails
  \/ CleanUpFailed
  \/ NoteStarted
  \/ ClearForStop
  \/ Halt
  \/ DogReap
  \/ DogReaped

RefreshStep(r) ==
  RefreshClone(r) \/ RefreshBuild(r) \/ RefreshApply(r) \/ RefreshMode(r)

ProbeRuns(p) ==
  ProbeProfile(p) \/ ProbeStatus(p) \/ ProbeFetch(p) \/ ProbeStore(p)

Failures == CoreDies \/ HelperDies \/ LinkBreaks

Next ==
  \/ Requests
  \/ ChainStep
  \/ SettleBegin
  \/ \E r \in Refreshers : RefreshStep(r)
  \/ \E p \in Probers : ProbeRuns(p)
  \/ DogCheck
  \/ DogLock
  \/ DogTail
  \/ Failures

Spec == Init /\ [][Next]_vars

(* A task that can take its next step takes it, the watchdog keeps ticking,*)
(* and both locks are tokio mutexes, which serve waiters in order: a task  *)
(* that waits while the lock is free again and again gets it.              *)
Fairness ==
  /\ WF_vars(ChainStep)
  /\ SF_vars(SettleBegin)
  /\ \A r \in Refreshers : WF_vars(RefreshStep(r))
  /\ \A p \in Probers : WF_vars(ProbeRuns(p))
  /\ WF_vars(DogSample)
  /\ WF_vars(DogCheck)
  /\ SF_vars(DogLock)
  /\ WF_vars(DogTail)

FairSpec == Spec /\ Fairness
-----------------------------------------------------------------------------
(* Properties. *)

(* Nobody holds a lock: every command has returned. *)
Settled == chain = "idle" /\ stateWrite = "free"

(* What the saved state would start in place of the running path. *)
SavedPath == Build(saved, saved.active)

(* An edit is never silently left unapplied: once all commands returned, a *)
(* running path that differs from what the saved settings build has        *)
(* pending_restart raised, whenever the edit landed: before, during or     *)
(* after the start (settle_pending_restart, refresh_pending_restart).      *)
NoMissedRestart ==
  Settled /\ baseline # NoPath /\ SavedPath # NoPath
    /\ MutationEffect(baseline, SavedPath) = "pending"
    => pending

(* A stored connectivity verdict is about the latest core: a probe that    *)
(* was in flight while the core was replaced drops its answer              *)
(* (probe_and_store against reset_connectivity).                           *)
VerdictMeasuresLatest == verdict.result # "unknown" => verdict.latest

(* While a path runs, the OS proxy is what its mode asks for: a start and  *)
(* a live mode switch that overlap never leave the OS pointed elsewhere    *)
(* (set_os_proxy in run_lifecycle and in refresh_pending_restart).         *)
OsProxyFollowsMode ==
  Settled /\ baseline # NoPath => osProxy \in OsProxyFor(baseline.mode)

(* After a completed stop or teardown nothing but a requested start brings *)
(* a core up: no watcher, updater or reload resurrects the data path       *)
(* (restart_if_up_locked, sub_update::apply, ReloadAppFilter).             *)
StoppedStaysStopped == ~wanted => core = NoPath /\ doc # "connecting"

(* A core that runs on geo data replaced on disk is reported as needing a  *)
(* restart: one an earlier process started too, and through every stop,    *)
(* start and teardown that may come before, between and after              *)
(* (note_assets_changed, core_running, note_data_path_started).            *)
StaleCoreIsFlagged == link /\ core # NoPath /\ geoChanged => assetsStale

(* The watchdog only ever tears down a data path that is dead at that      *)
(* moment, however old its sample was (reap_dead_data_path).               *)
ReapSparesHealthy == [][chain = "reap" /\ chain' = "reapNote" => ~Healthy]_vars

(* A lifecycle command always returns and frees the lock: the two locks    *)
(* are taken in one order (serialize, then state_write).                   *)
ChainFinishes == (chain # "idle") ~> (chain = "idle")

(* A data path whose processes died is torn down, restarted or at least    *)
(* no longer claimed, as long as the helper can be reached (spawn_watchdog,*)
(* reap_dead_data_path).                                                   *)
DeadPathReaped == (link /\ Claims /\ ~Healthy) ~> (~link \/ ~Claims \/ Healthy)

(* A running path does not stay "connecting" for ever: with the check on   *)
(* the watchdog gets a verdict on it (spawn_watchdog, probe_and_store).    *)
VerdictArrives ==
  (chain = "idle" /\ EngineUp /\ saved.check)
    ~> (verdict.result # "unknown" \/ chain # "idle" \/ ~EngineUp \/ ~saved.check)

(* With no core the OS proxy is off once the command has returned: "A      *)
(* failed bring-up must not leave a previously-set OS proxy pointing at a  *)
(* dead port" (service/lifecycle.rs).  Stated for runs without crashes.    *)
ProxyNeedsCore == Settled /\ core = NoPath => osProxy = "off"

-----------------------------------------------------------------------------
(* The strengthenings that make the invariants above inductive. *)

(* What a refresh in flight and a start in the chain have in hand. *)
InHand ==
  /\ \A r \in Refreshers :
       /\ refresh[r].pc \in {"build", "apply", "mode"}
            => refresh[r].base \in Paths /\ refresh[r].active \in Profiles
       /\ refresh[r].pc \in {"apply", "mode"} => refresh[r].next \in Paths
  /\ chain \in {"record", "spawn", "bringup", "up"} => built \in Paths

(* Between the note that the old core is gone and the spawn of the next,   *)
(* no core answers, and no probe that still counts has measured anything.  *)
BetweenCores ==
  /\ chain \in {"note", "resolve", "record", "spawn"} => core = NoPath
  /\ chain \in {"resolve", "record", "spawn"} =>
       /\ verdict.result = "unknown"
       /\ \A p \in Probers : probe[p].current =>
            probe[p].pc # "fetch" /\ probe[p].result = "unknown"
  /\ \A p \in Probers :
       probe[p].current /\ probe[p].result # "unknown" => probe[p].latest

(* A refresh called by the settle or by the subscription updater runs      *)
(* under the lifecycle lock of its caller.                                 *)
RefreshHoldsLock ==
  /\ refresh["settle"].pc # "idle" => chain = "settling"
  /\ refresh["sub"].pc # "idle" => chain = "saved"

(* While no start is wanted there is no baseline to restart from, and the  *)
(* lock is held by nobody who starts.                                      *)
NothingWanted ==
  /\ chain = "halt" => baseline = NoPath
  /\ ~wanted =>
       /\ baseline = NoPath \/ chain = "reapNote"
       /\ chain \in {"idle", "clear", "halt", "reap", "reapNote", "saved"}

(* The start in the chain loaded the geo data that is on disk. *)
FreshStart == chain \in {"bringup", "up"} => ~geoChanged

(* The watchdog holds the lock over a dead path. *)
ReapsDead == chain = "reap" => ~Healthy

(* Who holds state_write is the one refresh in flight; it reads the state  *)
(* it was called with, and compares with the live baseline unless a start  *)
(* that settles later, or a stop, has come in between.                     *)
RefreshInFlight ==
  /\ \A r \in Refreshers : refresh[r].pc # "idle" => stateWrite = r
  /\ \A r \in Refreshers : refresh[r].pc # "idle" => refresh[r].active = saved.active
  /\ stateWrite = "settle" => chain = "settling"
  /\ chain = "settling" => stateWrite = "settle"
  /\ stateWrite # "free" => refresh[stateWrite].pc # "idle"
  /\ \A r \in Refreshers :
       /\ refresh[r].pc \in {"build", "apply"}
            => chain = "settle" \/ baseline = NoPath \/ baseline = refresh[r].base
       /\ refresh[r].pc = "mode" =>
            \/ chain = "settle"
            \/ baseline = NoPath
            \/ baseline.cfg = refresh[r].next.cfg
       /\ refresh[r].pc \in {"apply", "mode"} => refresh[r].next = SavedPath

(* NoMissedRestart at every moment when no recompute is under way. *)
NoneMissed ==
  stateWrite = "free" /\ chain # "settle" /\ baseline # NoPath
    /\ SavedPath # NoPath /\ MutationEffect(baseline, SavedPath) = "pending"
    => pending

(* OsProxyFollowsMode at every moment: a live mode switch has pointed the  *)
(* OS where the baseline will say, and a start that resolves while the     *)
(* switch is in flight resolves from the settings the switch applies.      *)
ProxyFits ==
  /\ chain \in {"resolve", "record", "spawn", "bringup", "up"} => baseline = NoPath
  /\ \A r \in Refreshers :
       /\ refresh[r].pc \in {"build", "apply", "mode"}
            /\ chain \in {"record", "spawn", "bringup", "up"}
            => built.mode = saved.mode
       /\ refresh[r].pc = "mode" /\ baseline # NoPath
            => osProxy \in OsProxyFor(saved.mode)
  /\ baseline # NoPath /\ (\A r \in Refreshers : refresh[r].pc # "mode")
       => osProxy \in OsProxyFor(baseline.mode)
=============================================================================
