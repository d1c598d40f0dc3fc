CONSTANTS
  None = None
  SlotsPerDay = 4  OpenSlot = 1  CloseSlot = 3
  Holidays = {7, 8, 9, 10, 11}  CalendarFrom = 0  CalendarThrough = 30  MaxClosedRun = 9
  End = 63
SPECIFICATION FairSpec
INVARIANTS OneCatchUp AlwaysAClose
PROPERTIES SessionDateAdvances CloseIsFetched
CHECK_DEADLOCK FALSE
