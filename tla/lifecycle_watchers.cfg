SPECIFICATION Spec
CONSTANTS
  p1 = p1  p2 = p2  c1 = c1  c2 = c2  NoId = NoId  NoCfg = NoCfg
  Profiles <- MCProfiles
  Cfgs <- MCCfgs
  AppStates <- WatchStates
  InitialCores <- Orphan
  Actors = {"user", "boot", "network", "resume", "watchdog", "asset", "crash"}
  Remote = TRUE
  Uplink = "bound"
INVARIANTS StoppedStaysStopped StaleCoreIsFlagged
PROPERTIES ReapSparesHealthy
