SPECIFICATION MCSpec
CONSTANTS
  Pids = {1, 2}
  Plans <- MCPlans
  Configs <- MCConfigs
  Flaky = {"escape", "capture", "auto", "192.0.2.1", "split"}
  MaxLost = 1
  Desks = {"gnome", "kde", "windows"}
  MaxFaults = 1
  QuitRaces = FALSE
  ABins = {"tun2socks", "hev", "sing-box"}
  AFilters <- MCFilters
  AFlaky = {"rule", "mark", "mss", "guards", "orphan", "tun"}
  AMaxEdits = 2
  Tests = {1, 2, 3}
  Rows = {"a", "b"}
  RowOf <- MCRowOf
  Limits = {1, 2}
  LastPort = 3
  MaxLimitChanges = 1
  p1 = p1  p2 = p2  NoId = NoId
  Profiles <- MCProfiles
  Writers = {"mutate"}
  MaxWrites = 2
INVARIANTS StopIsClean PathIsSound ProxyIsGivenBack AndroidIsSound TestsAreSound StoreIsSafe
CHECK_DEADLOCK FALSE
