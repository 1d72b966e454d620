SPECIFICATION FairSpec
CONSTANTS
  p1 = p1  p2 = p2  c1 = c1  c2 = c2  NoId = NoId  NoCfg = NoCfg
  Profiles <- MCProfiles
  Cfgs <- MCCfgs
  AppStates <- OneState
  InitialCores <- NoOrphan
  Actors = {"user", "edit", "watchdog", "crash"}
  Remote = TRUE
  Uplink = "never"
PROPERTIES ChainFinishes DeadPathReaped VerdictArrives
