------------------------------ MODULE MCPaths ------------------------------
(* What the backend leaves on the machine while it runs and when it ends: the data paths of
   the desktop and of Android, the OS proxy, the cores of tests and the saved files. They share
   no state: a behaviour is one of them, the others rest in an initial state. *)
EXTENDS DesktopPath, OsProxy, AndroidPath, TestJobs, StateStore
VARIABLE part
mcVars == <<desktopVars, proxyVars, pathVars, jobVars, vars, part>>

CONSTANTS p1, p2
MCProfiles == {p1, p2}

MCPlans == {[engine |-> "xray", tun |-> "none", helper |-> "none"],
            [engine |-> "sing-box", tun |-> "native", helper |-> "none"],
            [engine |-> "xray", tun |-> "external", helper |-> "tun2socks"],
            [engine |-> "xray", tun |-> "external", helper |-> "sing-box"]}
MCConfigs == {{[key |-> "vnext", host |-> "a.example"], [key |-> "dns", host |-> "10.0.0.1"],
               [key |-> "dns", host |-> "dns.example"], [key |-> "servers", host |-> "127.0.0.1"]}}

(* Capture all and none, an app bypassed, an app forced, strict with either. *)
MCFilters == {[all |-> TRUE, strict |-> FALSE, bypass |-> {10001}, force |-> {10002}],
              [all |-> FALSE, strict |-> FALSE, bypass |-> {}, force |-> {10001}],
              [all |-> TRUE, strict |-> TRUE, bypass |-> {10001}, force |-> {}],
              [all |-> FALSE, strict |-> TRUE, bypass |-> {}, force |-> {10002}]}

(* Two tests of one profile and one of another. *)
MCRowOf == [t \in Tests |-> IF t = 3 THEN "b" ELSE "a"]

MCInit == /\ DesktopInit /\ OsProxyInit /\ AndroidInit /\ JobInit /\ Init
          /\ part \in {"desktop", "proxy", "android", "tests", "store"}
          /\ part # "desktop" => host = [os |-> "linux", gated |-> FALSE, cfg |-> CHOOSE c \in Configs : TRUE]
          /\ part # "proxy" => desk = CHOOSE d \in Desks : TRUE
          /\ part # "android" => aSet = [tun |-> "native", filter |-> CHOOSE f \in AFilters : TRUE]
          /\ part # "store" => disk = [f \in Files |-> Absent]
          /\ limit = 2
MCNext ==
    /\ UNCHANGED part
    /\ \/ part = "desktop" /\ DesktopNext /\ UNCHANGED <<proxyVars, pathVars, jobVars, vars>>
       \/ part = "proxy" /\ OsProxyNext /\ UNCHANGED <<desktopVars, pathVars, jobVars, vars>>
       \/ part = "android" /\ AndroidNext /\ UNCHANGED <<desktopVars, proxyVars, jobVars, vars>>
       \/ part = "tests" /\ JobNext /\ UNCHANGED <<desktopVars, proxyVars, pathVars, vars>>
       \/ part = "store" /\ Next /\ UNCHANGED <<desktopVars, proxyVars, pathVars, jobVars>>
MCSpec == MCInit /\ [][MCNext]_mcVars
=============================================================================
