CONSTANTS
  None = None
  Processes = {p1, p2}
  NTables = 1  NColumns = 2
  NItems = 2  ListedBefore = 1  Revisable = {1}  Withdrawable = {1}
  PageSize = 1  MaxPages = 2  Unreadable = {0}  Partial = {0, 1}
  TTL = 1  MaxCallTicks = 1  End = 3
SPECIFICATION Spec
INVARIANTS ListedIsServed HalfListNeverFresh
CHECK_DEADLOCK FALSE
