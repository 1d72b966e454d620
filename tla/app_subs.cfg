SPECIFICATION Spec
CONSTANTS
  p1 = p1  p2 = p2  p3 = p3  f1 = f1  f2 = f2  f3 = f3  g0 = g0  g1 = g1  g2 = g2
  u1 = u1  u2 = u2  b1 = b1  r1 = r1  r2 = r2  def = def  n1 = n1  n2 = n2  e1 = e1  e2 = e2
  None = None  Proxy = Proxy  Base = g0  Default = def
  ProfileIds = {p1}  FreshIds = {f1, f2, f3}  Groups = {g0, g1}  SubIds = {u1}
  BlockIds = {}  RouteIds = {r1, r2}  Names = {n1, n2}  Ends = {e1, e2}
  Url <- OneUrl
  Starts <- SubStarts  Backups = {}  Answers <- SubAnswers  RouteDrafts = {}
  Intents = {"profile", "group", "sub", "fetch", "sheet", "answer"}
  MaxWrites = 3
INVARIANTS Intact AskedOnce
PROPERTIES RefreshKeepsTheirs EditIsMinimal
CHECK_DEADLOCK FALSE
