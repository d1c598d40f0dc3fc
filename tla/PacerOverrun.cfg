CONSTANTS
  Threads = {t1, t2}
  Interval = 2  Attempts = 2  Overrun = 1  Timeout = 1
  LastBegin = 3  End = 14
SPECIFICATION Spec
PROPERTIES RequestsSpaced
CHECK_DEADLOCK FALSE
