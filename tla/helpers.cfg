SPECIFICATION MCSpec
CONSTANTS
  None = None
  NoGui = NoGui
  Testers = {t1, t2}
  MaxCores = 2
  MaxCalls = 1
  Guis <- MCGuis
  SessionOf <- MCSessionOf
  OldBuild = {1}
INVARIANTS NothingStrays ServedByItsOwn
PROPERTIES ImplementsCall CallsAndCoresEnd HelperEnds
CHECK_DEADLOCK FALSE
