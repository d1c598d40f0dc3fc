CONSTANTS
  Threads = {t1, t2}
  Interval = 2  Attempts = 2  Overrun = 1  Timeout = 1
  LastBegin = 2  End = 16
SPECIFICATION FairSpec
INVARIANTS TypeOK SlotsSpaced
PROPERTIES SpacedUpToOverrun FetchReturns
CHECK_DEADLOCK FALSE
