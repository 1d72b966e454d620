SPECIFICATION Spec
CONSTANTS
  p1 = p1  p2 = p2  c1 = c1  c2 = c2  NoId = NoId  NoCfg = NoCfg
  Profiles <- MCProfiles
  Cfgs <- MCCfgs
  AppStates <- EditStates
  InitialCores <- NoOrphan
  Actors = {"user", "edit", "crash"}
  Remote = FALSE
  Uplink = "never"
INVARIANTS TypeOK NoMissedRestart OsProxyFollowsMode
