CONSTANTS
  None = None
  LastSession = 7  SettledBefore = 5  Depth = 6
  PageSize = 2  MaxPages = 3
  Unreadable = {}  MayCount = TRUE  Garbled = FALSE
SPECIFICATION HistorySpec
PROPERTIES WindowCovered
CHECK_DEADLOCK FALSE
