CONSTANTS
  None = None
  \* The clock
  SlotsPerDay = 4  OpenSlot = 1  CloseSlot = 2  Start = 9  End = 17
  \* The calendar
  FirstDay = 1  LastDay = 4  Holidays = {}  CalendarFrom = 0  CalendarThrough = 100
  MaxClosedRun = 9
  \* The feeds
  Sources = {s1, s2}  Hollow = {}  ListedFrom = 1  NoTrade = {}  Quiet = {}  FragDays = {2}
  MidSession = FALSE  Ex = 3  Factor = 3  AdoptBy = 14  PublishLag = 1
  \* The store
  Band = 2  Jumps = {2}  MaxGap = 4  BaselineBars = 3  MinBaseline = 1  RecentDays = 4
  \* The adapter
  Callers = {c1}  Kinds = {"get", "rescan"}  Lookbacks = {1, 3}  RescanLookback = 3
  IsIndex = FALSE  TTL = 3  WithheldRetry = 1  Lead = 7  ResolveMax = 1  UtcLag = 1
  AdjudicateAge = 1  MaxDates = 1  MaxCallTicks = 0  CanCrash = FALSE
SPECIFICATION Spec
INVARIANTS OneScale
PROPERTIES RepairRewritesAll FragmentIsReread
CHECK_DEADLOCK FALSE
