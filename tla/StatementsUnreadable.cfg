CONSTANTS
  None = None
  Processes = {p1}  CanCrash = FALSE
  LastLabel = 4  Window = 2  FiledBefore = 2  Restatable = {2}  Unreadable = TRUE  NSections = 2
  TTL = 2  MaxCallTicks = 1  End = 6
SPECIFICATION Spec
PROPERTIES FigureNeverLost
CHECK_DEADLOCK FALSE
