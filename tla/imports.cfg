SPECIFICATION MCSpec
CONSTANTS
  p1 = p1  p2 = p2  p3 = p3  f1 = f1  f2 = f2  f3 = f3  g0 = g0  g1 = g1  g2 = g2
  u1 = u1  u2 = u2  b1 = b1  r1 = r1  r2 = r2  def = def  n1 = n1  n2 = n2  e1 = e1  e2 = e2
  None = None  Proxy = Proxy  Base = g0  Default = def
  ProfileIds = {p1, p2, p3}  FreshIds = {f1}  Groups = {g0, g1, g2}  SubIds = {u1, u2}
  BlockIds = {b1}  RouteIds = {r1, r2}  Names = {n1, n2}  Ends = {e1, e2}
  Url <- OneUrl
  Starts <- RouteStarts  Backups <- MCBackups  Answers = {}  RouteDrafts <- MCRouteDrafts
  Intents = {"route", "backup", "group"}
  MaxWrites = 3
  Bodies <- MCBodies
  MaxMembers = 2
  MaxNodes = 6
  Links <- MCLinks
  Edited <- MCEdited
  MaxShares = 2
INVARIANTS DocumentReadsBack ImportKeepsGraph LinkKeepsServer
PROPERTIES RestoreAddsOnce RouteEditsTakeEffect
CHECK_DEADLOCK FALSE
