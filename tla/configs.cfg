SPECIFICATION MCSpec
CONSTANTS
  Ids = {a, b, c}
  NoId = "no"
  LoneShapes <- MCLoneShapes
  MaxEdits = 1
  ChainShapes <- MCChainShapes
  Conns <- MCConns
  RuleShapes <- MCRuleShapes
  MaxRules = 2
  MaxPort = 3
  Uids = {1, 2}
  DnsHosts = {"dns.example", "dns.other"}
  OutTags = {"o1", "o2"}
  NoTag = "no"
  Hosts = {"srv", "alt"}
  OutShapes <- MCOutShapes
SYMMETRY MCSymmetry
INVARIANTS ChosenCoreFits RulesAsWritten LookupsFollowRules EgressPassesTun
CHECK_DEADLOCK FALSE
