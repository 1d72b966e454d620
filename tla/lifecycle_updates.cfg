SPECIFICATION Spec
CONSTANTS
  p1 = p1  p2 = p2  c1 = c1  c2 = c2  NoId = NoId  NoCfg = NoCfg
  Profiles <- MCProfiles
  Cfgs <- MCCfgs
  AppStates <- WatchStates
  InitialCores <- Orphan
  Actors = {"user", "probe", "watchdog", "sub", "crash"}
  Remote = FALSE
  Uplink = "never"
INVARIANTS VerdictMeasuresLatest StoppedStaysStopped
