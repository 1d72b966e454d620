-------------------------- MODULE MCServiceLifecycle --------------------------
(* ServiceLifecycle on two profiles, two configs and a handful of saved    *)
(* states: a profile switch, a duplicate under another id, a profile that  *)
(* does not build, a mode move inside the non-tun family and out of it.    *)
EXTENDS ServiceLifecycle, TLC

CONSTANTS p1, p2, c1, c2

S(active, x, y, mode) ==
  [active |-> active, cfg |-> (p1 :> x @@ p2 :> y), mode |-> mode,
   autoStart |-> TRUE, check |-> TRUE]

MCProfiles == {p1, p2}
MCCfgs == {c1, c2}
NoOrphan == {NoPath}
Orphan == {NoPath, [id |-> p1, cfg |-> c1, mode |-> "tun"]}

(* switch, duplicate, unbuildable, non-tun move, tun move *)
EditStates == {S(p1, c1, c2, "system"), S(p2, c1, c2, "system"),
               S(p2, c1, c1, "pac"), S(p1, NoCfg, c1, "system"),
               S(p1, c1, c2, "tun")}
ModeStates == {S(p1, c1, c1, "system"), S(p2, c1, c1, "proxyOnly"),
               S(p1, c2, c1, "system")}
(* tun with the check on, a subscription that drops or renames the active  *)
(* profile, a non-tun state with the check off                             *)
WatchStates == {S(p1, c1, c2, "tun"), S(NoId, NoCfg, c2, "tun"),
                [S(p2, c1, c2, "system") EXCEPT !.check = FALSE]}
OneState == {S(p1, c1, c2, "tun")}
SubStates == {S(p1, c1, c2, "system"), S(p2, NoCfg, c1, "system"),
              S(NoId, NoCfg, c2, "system"), S(p1, c2, c2, "system")}
=============================================================================
