SPECIFICATION MCSpec
CONSTANTS
  Links = {"a", "b", "c", "blank"}
  Keyed = {"b"}
  Unreadable = {"c"}
  Fragment <- MCFragment
  Replies <- WithNaive
  Modes = {"auto", "proxy", "direct"}
  Filters = {"all", "servers", "broken"}
  Passes <- MCPasses
  Unavailable = {"naive"}
  Interval = 1
  ProviderInterval = 2
  Horizon = 2
  Budget = 3
  Timeout = 2
  Retries = 1
  MaxEdits = 2
  MaxFaults = 1
  Downstreams = {"wlan1", "rndis0"}
  UserValues = {"null", "1"}
  Flaky = {"steer", "reject6", "pin"}
  MaxChanges = 3
PROPERTY
  KeepsList
CHECK_DEADLOCK FALSE
