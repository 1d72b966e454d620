---------------------------- MODULE HelperSession ----------------------------
(***************************************************************************)
(* Which privileged helper a GUI reaches, and which GUI a helper serves.   *)
(* On Linux every GUI spawns a helper of its own and dials a socket path   *)
(* that an older helper may still be listening on (privhelper/spawn.rs,    *)
(* entry.rs). On Windows one service, started on demand with the paths of  *)
(* the GUI that started it, is reached by the GUIs of every session        *)
(* (privhelper/connect.rs, service.rs, session.rs). The data path itself   *)
(* is one machine-wide thing that outlives neither.                        *)
(***************************************************************************)
EXTENDS Naturals, FiniteSets

CONSTANTS Guis,         \* GUI processes, in the order they are launched: 1..n
          SessionOf,    \* the Windows session each of them runs in
          OldBuild,     \* the GUIs of an earlier build: another protocol, no session argument
          NoGui

ASSUME SessionConstants == /\ Guis \subseteq Nat \ {0} /\ NoGui \notin Guis
                           /\ OldBuild \subseteq Guis
                           /\ \A g \in Guis : SessionOf[g] # NoGui

(* proto::PROTOCOL_VERSION of the build that g, and what g installs, is of. *)
Protocol(g) == IF g \in OldBuild THEN 1 ELSE 2

VARIABLES os,        \* "linux", "windows" or "portable" (Windows without the service); fixed
          guiAt,       \* per GUI: "off", "dialing", "outdated", "restarting", "up", "failed", "gone"
          conn,      \* per GUI: the helper its client is connected to, by the GUI that spawned it
          stale,     \* per GUI: the socket's inode when it spawned its helper
          helperAt,    \* per helper: "none", "launching", "serving", "stopping", "exited"
          sock,      \* whose helper bound the socket file last, None for no file
          service,   \* the Windows service: "absent", "stopped", "running", "stopping"
          build,     \* the GUI whose build the service binary is of
          owner,     \* the session the service was started for, None from an old GUI
          active,    \* the GUI whose connection the service serves
          servedAny, \* whether it has served one since it was started
          pathOf       \* the GUI that brought the data path up, None when it is down

sessionVars == <<os, guiAt, conn, stale, helperAt, sock, service, build, owner, active, servedAny, pathOf>>
linux == <<os, stale, helperAt, sock>>
windows == <<service, build, owner, active, servedAny>>

SessionInit ==
    /\ os \in {"linux", "portable", "windows"}
    /\ guiAt = [g \in Guis |-> "off"]
    /\ conn = [g \in Guis |-> NoGui]
    /\ stale = [g \in Guis |-> NoGui]
    /\ helperAt = [g \in Guis |-> "none"]
    /\ sock = NoGui
    /\ service \in {"absent", "stopped"} /\ build = NoGui
    /\ owner = NoGui /\ active = NoGui /\ servedAny = FALSE
    /\ pathOf = NoGui

-----------------------------------------------------------------------------
(* Linux: spawn_and_connect and the helper's entry *)

(* What the machine offers: a developer's override, the NixOS wrapper, the bundled
   helper, the two places a package installs one (a candidate is the set of what
   is wrong with it), and the tools to elevate with. *)
Defects == {"no file", "not executable", "not root's", "writable", "unsafe ancestor", "no caps"}
Envs == [override : {"none", "capped", "uncapped"}, wrapper : BOOLEAN,
         sibling : {"capped", "uncapped", "read-only"},
         installed : {<<{}, {}>>} \cup {<<{d}, {}>> : d \in Defects} \cup {<<{d}, {d}>> : d \in Defects},
         elevator : BOOLEAN, setcap : BOOLEAN]

(* validate_installed_candidate *)
Trusted(candidate) == candidate = {}

(* find_capped_helper: the override stands alone; then the wrapper, the sibling and
   the first installed candidate that can be trusted. *)
FindCappedHelper(env) ==
    IF env.override # "none" THEN env.override = "capped"
    ELSE \/ env.wrapper
         \/ env.sibling = "capped"
         \/ \E k \in 1..2 : Trusted(env.installed[k])

(* self_setcap_target: not an override, not a read-only image. *)
SelfSetcapTarget(env) == env.override = "none" /\ env.sibling # "read-only"

(* How spawn_and_connect runs the helper: without a prompt, after granting it its
   capabilities, or as root; the user may decline either prompt. *)
LaunchesOf(env) ==
    IF FindCappedHelper(env) THEN {"launching"}
    ELSE IF ~env.elevator THEN {"failed"}
    ELSE {"launching", "exited"}   \* setcap granted or declined, then the helper as root or declined
Launches == UNION {LaunchesOf(env) : env \in Envs}

(* The shell's single-instance guard: per user on Linux, per session on Windows. A
   GUI that failed shows its dialog until it is closed. *)
OnlyInstance(g) == \A h \in Guis :
    h < g => /\ guiAt[h] # "off"
             /\ os # "windows" \/ SessionOf[h] = SessionOf[g] => guiAt[h] = "gone"

SpawnHelper(g) ==
    /\ os = "linux" /\ guiAt[g] = "off" /\ OnlyInstance(g)
    /\ \E l \in Launches :
         IF l = "failed"
         THEN /\ guiAt' = [guiAt EXCEPT ![g] = "failed"]
              /\ UNCHANGED <<stale, helperAt>>
         ELSE /\ guiAt' = [guiAt EXCEPT ![g] = "dialing"]
              /\ stale' = [stale EXCEPT ![g] = sock]
              /\ helperAt' = [helperAt EXCEPT ![g] = l]
    /\ UNCHANGED <<os, conn, sock, windows, pathOf>>

(* server::serve: remove the old socket, bind a new one, accept. *)
Bind(g) == /\ helperAt[g] = "launching"
           /\ helperAt' = [helperAt EXCEPT ![g] = "serving"]
           /\ sock' = IF os = "linux" THEN g ELSE sock
           /\ UNCHANGED <<os, guiAt, conn, stale, windows, pathOf>>

(* One turn of the loop of spawn_and_connect: connect to whoever listens at the
   path and take it if it answers this protocol; an outdated answer ends the
   loop only from a socket that is new since the spawn. *)
Fresh(g) == sock # NoGui /\ sock # stale[g]
DialSocket(g) ==
    /\ os = "linux" /\ guiAt[g] = "dialing"
    /\ sock # NoGui /\ helperAt[sock] \in {"serving", "stopping"}
    /\ \/ /\ Protocol(sock) = Protocol(g)
          /\ guiAt' = [guiAt EXCEPT ![g] = "up"]
          /\ conn' = [conn EXCEPT ![g] = sock]
       \/ /\ Protocol(sock) # Protocol(g) /\ Fresh(g)
          /\ guiAt' = [guiAt EXCEPT ![g] = "failed"]
          /\ UNCHANGED conn
    /\ UNCHANGED <<linux, windows, pathOf>>

(* The deadline of either loop: nobody answered in time. *)
GiveUp(g) == /\ guiAt[g] \in {"dialing", "restarting"}
             /\ guiAt' = [guiAt EXCEPT ![g] = "failed"]
             /\ UNCHANGED <<conn, linux, windows, pathOf>>

(* watch_gui notices that the helper's GUI is gone, stops the data path whoever
   runs it, and exits; the cores it spawned itself die with it. *)
WatchItsGui(g) == /\ os = "linux" /\ helperAt[g] = "serving" /\ guiAt[g] = "gone"
               /\ helperAt' = [helperAt EXCEPT ![g] = "stopping"]
               /\ pathOf' = NoGui
               /\ UNCHANGED <<os, guiAt, conn, stale, sock, windows>>
ExitHelper(g) == /\ os = "linux" /\ helperAt[g] = "stopping"
                 /\ helperAt' = [helperAt EXCEPT ![g] = "exited"]
                 /\ pathOf' = IF pathOf # NoGui /\ conn[pathOf] = g THEN NoGui ELSE pathOf
                 /\ UNCHANGED <<os, guiAt, conn, stale, sock, windows>>

-----------------------------------------------------------------------------
(* Windows, portable build: connect_transient runs an elevated helper of the
   GUI's own, on a pipe named after the GUI's pid; the prompt may be declined. *)
SpawnTransient(g) ==
    /\ os = "portable" /\ guiAt[g] = "off" /\ OnlyInstance(g)
    /\ \/ /\ guiAt' = [guiAt EXCEPT ![g] = "dialing"]
          /\ helperAt' = [helperAt EXCEPT ![g] = "launching"]
       \/ /\ guiAt' = [guiAt EXCEPT ![g] = "failed"]
          /\ UNCHANGED helperAt
    /\ UNCHANGED <<os, conn, stale, sock, windows, pathOf>>

DialTransient(g) == /\ os = "portable" /\ guiAt[g] = "dialing" /\ helperAt[g] = "serving"
                    /\ guiAt' = [guiAt EXCEPT ![g] = "up"]
                    /\ conn' = [conn EXCEPT ![g] = g]
                    /\ UNCHANGED <<linux, windows, pathOf>>

(* serve_transient: one connection, or none within a minute; then the data path
   comes down and the process ends. *)
TransientEnds(g) == /\ os = "portable" /\ helperAt[g] = "serving"
                    /\ guiAt[g] = "gone" \/ (conn[g] = NoGui /\ guiAt[g] # "dialing")
                    /\ helperAt' = [helperAt EXCEPT ![g] = "exited"]
                    /\ pathOf' = IF conn[g] = NoGui THEN pathOf ELSE NoGui
                    /\ UNCHANGED <<os, guiAt, conn, stale, sock, windows>>

-----------------------------------------------------------------------------
(* Windows: connect_service and the service *)

(* session::admit: the session named in a refusal, or None to serve. *)
Admit(o, client, serving) ==
    IF serving # NoGui THEN [serve |-> FALSE, owner |-> IF o # NoGui THEN o ELSE serving]
    ELSE IF o # NoGui /\ client # o THEN [serve |-> FALSE, owner |-> o]
    ELSE [serve |-> TRUE, owner |-> o]
ServingSession == IF active = NoGui THEN NoGui ELSE SessionOf[active]

LaunchWindows(g) == /\ os = "windows" /\ guiAt[g] = "off" /\ OnlyInstance(g)
                    /\ guiAt' = [guiAt EXCEPT ![g] = "dialing"]
                    /\ UNCHANGED <<conn, linux, windows, pathOf>>

(* connect_and_ping, for a GUI whose connection reached the pipe. *)
PingOutcome(g) == IF ~Admit(owner, SessionOf[g], ServingSession).serve THEN "other session"
                  ELSE IF Protocol(build) = Protocol(g) THEN "ok" ELSE "outdated"

(* serve_pipe's admission of it. A refused GUI gives up; an admitted one of another
   protocol hangs up and restarts the service once, and the session it held ends
   like any other. *)
DialPipe(g) ==
    /\ os = "windows" /\ guiAt[g] \in {"dialing", "restarting"} /\ service = "running"
    /\ guiAt' = [guiAt EXCEPT ![g] = CASE PingOutcome(g) = "ok" -> "up"
                                   [] PingOutcome(g) = "outdated" /\ @ = "dialing" -> "outdated"
                                   [] OTHER -> "failed"]
    /\ conn' = IF PingOutcome(g) = "ok" THEN [conn EXCEPT ![g] = build] ELSE conn
    /\ IF PingOutcome(g) = "other session" THEN UNCHANGED <<active, servedAny>>
       ELSE active' = g /\ servedAny' = TRUE
    /\ UNCHANGED <<linux, service, build, owner, pathOf>>

(* The outdated branch of connect_service: stop the service, start it again. The
   updated build is what starts. *)
StopService(g) ==
    /\ guiAt[g] = "outdated"
    /\ guiAt' = [guiAt EXCEPT ![g] = "restarting"]
    /\ service' = IF service = "running" THEN "stopping" ELSE service
    /\ UNCHANGED <<conn, linux, build, owner, active, servedAny, pathOf>>

(* The elevated install of a service that is not there, unless declined. *)
InstallService(g) ==
    /\ os = "windows" /\ guiAt[g] = "dialing" /\ service = "absent"
    /\ \/ service' = "stopped" /\ build' = g /\ UNCHANGED guiAt
       \/ guiAt' = [guiAt EXCEPT ![g] = "failed"] /\ UNCHANGED <<service, build>>
    /\ UNCHANGED <<conn, linux, owner, active, servedAny, pathOf>>

(* start_if_stopped passes the GUI's paths and session to run_service; a GUI of
   the earlier build passes no session. *)
StartIfStopped(g) ==
    /\ os = "windows" /\ guiAt[g] \in {"dialing", "restarting"} /\ service = "stopped"
    /\ service' = "running"
    /\ build' = g
    /\ owner' = IF g \in OldBuild THEN NoGui ELSE SessionOf[g]
    /\ active' = NoGui /\ servedAny' = FALSE
    /\ UNCHANGED <<guiAt, conn, linux, pathOf>>

(* Mutant: the path of a connection that ended stays up. *)
ActiveEnds_NoTeardown ==
    /\ service = "running" /\ active # NoGui /\ guiAt[active] # "up"
    /\ active' = NoGui
    /\ service' = IF owner # NoGui THEN "stopped" ELSE service
    /\ UNCHANGED <<guiAt, conn, linux, build, owner, servedAny, pathOf>>

(* serve_pipe: the connection it serves has ended. The data path comes down; a
   service that has an owner exits with its GUI, one without stays. *)
ActiveEnds ==
    /\ service = "running" /\ active # NoGui /\ guiAt[active] # "up"
    /\ active' = NoGui /\ pathOf' = NoGui
    /\ service' = IF owner # NoGui THEN "stopped" ELSE service
    /\ UNCHANGED <<guiAt, conn, linux, build, owner, servedAny>>

(* Mutant: only a service that has served somebody gives up. *)
FirstClientTimeout_OnceServed ==
    /\ service = "running" /\ owner # NoGui /\ servedAny /\ active = NoGui
    /\ service' = "stopped" /\ pathOf' = NoGui
    /\ UNCHANGED <<guiAt, conn, linux, build, owner, active, servedAny>>

(* Nobody dialled within a minute of the start. *)
FirstClientTimeout ==
    /\ service = "running" /\ owner # NoGui /\ ~servedAny /\ active = NoGui
    /\ service' = "stopped" /\ pathOf' = NoGui
    /\ UNCHANGED <<guiAt, conn, linux, build, owner, active, servedAny>>

(* The service control manager's stop: the loop breaks, the data path comes down,
   the connection with the process. *)
ServiceStops ==
    /\ service = "stopping"
    /\ service' = "stopped" /\ pathOf' = NoGui /\ active' = NoGui
    /\ conn' = [g \in Guis |-> IF os = "windows" THEN NoGui ELSE conn[g]]
    /\ UNCHANGED <<guiAt, linux, build, owner, servedAny>>

-----------------------------------------------------------------------------
(* A connected GUI starts and stops the data path through its helper. *)
Reachable(g) == IF os # "windows" THEN conn[g] # NoGui /\ helperAt[conn[g]] \in {"serving", "stopping"}
                ELSE service = "running" /\ active = g
StartPath(g) == /\ guiAt[g] = "up" /\ Reachable(g) /\ pathOf = NoGui
                /\ pathOf' = g
                /\ UNCHANGED <<guiAt, conn, linux, windows>>
StopPath(g) == /\ guiAt[g] = "up" /\ Reachable(g) /\ pathOf = g
               /\ pathOf' = NoGui
               /\ UNCHANGED <<guiAt, conn, linux, windows>>
Quit(g) == /\ guiAt[g] \notin {"off", "gone"}
           /\ guiAt' = [guiAt EXCEPT ![g] = "gone"]
           /\ UNCHANGED <<conn, linux, windows, pathOf>>

LinuxNext == \E g \in Guis : SpawnHelper(g) \/ Bind(g) \/ DialSocket(g) \/ WatchItsGui(g) \/ ExitHelper(g)
PortableNext == \E g \in Guis : SpawnTransient(g) \/ DialTransient(g) \/ TransientEnds(g)
WindowsNext == \/ \E g \in Guis : \/ LaunchWindows(g) \/ DialPipe(g) \/ StopService(g)
                                  \/ InstallService(g) \/ StartIfStopped(g)
               \/ ActiveEnds \/ FirstClientTimeout \/ ServiceStops
SessionNext == \/ LinuxNext \/ PortableNext \/ WindowsNext
        \/ \E g \in Guis : GiveUp(g) \/ StartPath(g) \/ StopPath(g) \/ Quit(g)

(* The helper's poll and timers fire, the service loop and the service manager
   run; no GUI has to be launched, and none has to quit. *)
SessionFairness == /\ \A g \in Guis : /\ WF_sessionVars(Bind(g)) /\ WF_sessionVars(WatchItsGui(g)) /\ WF_sessionVars(ExitHelper(g))
                                /\ WF_sessionVars(TransientEnds(g)) /\ WF_sessionVars(StopService(g)) /\ WF_sessionVars(GiveUp(g))
            /\ WF_sessionVars(ActiveEnds) /\ WF_sessionVars(FirstClientTimeout) /\ WF_sessionVars(ServiceStops)

SessionSpec == SessionInit /\ [][SessionNext]_sessionVars
SessionLive == SessionSpec /\ SessionFairness

-----------------------------------------------------------------------------
(* Properties *)

SessionTypeOK ==
    /\ os \in {"linux", "portable", "windows"}
    /\ guiAt \in [Guis -> {"off", "dialing", "outdated", "restarting", "up", "failed", "gone"}]
    /\ conn \in [Guis -> Guis \cup {NoGui}] /\ stale \in [Guis -> Guis \cup {NoGui}]
    /\ helperAt \in [Guis -> {"none", "launching", "serving", "stopping", "exited"}]
    /\ sock \in Guis \cup {NoGui}
    /\ service \in {"absent", "stopped", "running", "stopping"}
    /\ build \in Guis \cup {NoGui}
    /\ owner \in {SessionOf[g] : g \in Guis} \cup {NoGui}
    /\ active \in Guis \cup {NoGui} /\ servedAny \in BOOLEAN
    /\ pathOf \in Guis \cup {NoGui}

(* A GUI that is served talks to a helper of its own protocol, through updates,
   restarts of the service and helpers left over from earlier sessions. *)
SpeaksItsProtocol == \A g \in Guis : guiAt[g] = "up" /\ Reachable(g) => Protocol(conn[g]) = Protocol(g)

(* The service runs with one GUI's paths: whoever it admits finds the data path
   down, so no GUI takes over the path of another, crashed or not. *)
PathHasItsGui == os = "windows" /\ pathOf # NoGui => active = pathOf /\ service \in {"running", "stopping"}

(* A helper leaves with its GUI, and a service started for one session is given
   up once no GUI uses it, also when its GUI died before it dialled. *)
HelperFollowsGui == \A g \in Guis : helperAt[g] = "serving" /\ guiAt[g] = "gone" ~> helperAt[g] = "exited"
Unused == service = "running" /\ owner # NoGui /\ \A g \in Guis : guiAt[g] \in {"off", "gone"}
ServiceIsGivenUp == Unused ~> ~Unused

(* What spawn.rs says of the socket: only one created after the spawn speaks for
   the helper just launched. *)
TakesOwnHelper == os = "linux" => \A g \in Guis : guiAt[g] = "up" => conn[g] = g

(* A GUI is served by a helper of its protocol, and only with its own data path. *)
ServedByItsOwn == SessionTypeOK /\ SpeaksItsProtocol /\ PathHasItsGui

(* Whatever was started with root rights for a GUI goes with it. *)
HelperEnds == HelperFollowsGui /\ ServiceIsGivenUp
=============================================================================
