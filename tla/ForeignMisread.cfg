CONSTANTS
  None = None
  LastSession = 7  SettledBefore = 5  Depth = 6
  PageSize = 2  MaxPages = 4
  Unreadable = {3}  MayCount = TRUE  Garbled = TRUE
SPECIFICATION CrawlSpec
PROPERTIES ShortPageIsLast EmptyIsAnAnswer
CHECK_DEADLOCK FALSE
