CONSTANTS
  None = None
  Processes = {p1}  CanCrash = TRUE
  LastLabel = 4  Window = 2  FiledBefore = 2  Restatable = {2, 3}  Unreadable = FALSE  NSections = 2
  TTL = 2  MaxCallTicks = 1  End = 6
SPECIFICATION Spec
INVARIANTS EveryFetchBanked
CHECK_DEADLOCK FALSE
