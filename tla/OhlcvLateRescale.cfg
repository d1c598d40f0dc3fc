CONSTANTS
  None = None
  \* The clock
  SlotsPerDay = 4  OpenSlot = 1  CloseSlot = 2  Start = 7  End = 22
  \* The calendar
  FirstDay = 1  LastDay = 5  Holidays = {}  CalendarFrom = 0  CalendarThrough = 100
  MaxClosedRun = 9
  \* The feeds
  Sources = {s1}  Hollow = {}  ListedFrom = 1  NoTrade = {}  Quiet = {}  FragDays = {}
  MidSession = FALSE  Ex = 2  Factor = 1  AdoptBy = 16  PublishLag = 1
  \* The store
  Band = 2  Jumps = {}  MaxGap = 4  BaselineBars = 3  MinBaseline = 1  RecentDays = 4
  \* The adapter
  Callers = {c1}  Kinds = {"get"}  Lookbacks = {3}  RescanLookback = 3  IsIndex = FALSE
  TTL = 3  WithheldRetry = 1  Lead = 7  ResolveMax = 1  UtcLag = 1  AdjudicateAge = 1
  MaxDates = 1  MaxCallTicks = 0  CanCrash = FALSE
SPECIFICATION Spec
INVARIANTS CaughtByNextTopUp
CHECK_DEADLOCK FALSE
