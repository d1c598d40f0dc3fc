CONSTANTS
  None = None
  SlotsPerDay = 4  OpenSlot = 2  CloseSlot = 3
  Holidays = {0}  CalendarFrom = 0  CalendarThrough = 30  MaxClosedRun = 9
  End = 7  Start = 3
  Callers = {page, watcher}  Symbols = {s1, s2}  Watchers = {watcher}  Watched = {s1}
  BatchSize = 1  Quorum = 2  TTL = 2  StaleTTL = 4  MaxCallTicks = 1
SPECIFICATION Spec
INVARIANTS CountersOfTheirSession NothingOld
PROPERTIES ZerosAreFacts
CHECK_DEADLOCK FALSE
