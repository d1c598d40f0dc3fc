CONSTANTS
  None = None
  Processes = {p1, p2}
  NTables = 1  NColumns = 2
  NItems = 3  ListedBefore = 2  Revisable = {1}  Withdrawable = {1}
  PageSize = 1  MaxPages = 2  Unreadable = {0, 1}  Partial = {0, 1}
  TTL = 1  MaxCallTicks = 1  End = 3
SPECIFICATION FairSpec
INVARIANTS TypeOK ConnectedIsMigrated FreshIsRecent
PROPERTIES MembersStay Connects
CHECK_DEADLOCK FALSE
