CONSTANTS
  None = None
  Processes = {p1, p2}  CanCrash = FALSE
  LastLabel = 3  Window = 2  FiledBefore = 1  Restatable = {1, 2}  Unreadable = FALSE  NSections = 2
  TTL = 2  MaxCallTicks = 1  End = 6
SPECIFICATION Spec
INVARIANTS HistoryReachesLive
PROPERTIES FigureNeverReverts
CHECK_DEADLOCK FALSE
