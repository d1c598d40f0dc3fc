CONSTANTS
  None = None
  Processes = {p1, p2}
  NTables = 1  NColumns = 2
  NItems = 4  ListedBefore = 3  Revisable = {1}  Withdrawable = {2}
  PageSize = 1  MaxPages = 2  Unreadable = {1}  Partial = {}
  TTL = 1  MaxCallTicks = 1  End = 3
SPECIFICATION Spec
INVARIANTS ListedIsServed ListedOnce
CHECK_DEADLOCK FALSE
