CONSTANTS
  None = None
  Threads = {main, worker}  Coroutine = main  Recorders = {pass, symbol}
  Sources = 3  Supporting = {1, 3}
  MaxRequests = 3  MayResolve = TRUE  MayFail = TRUE
SPECIFICATION HistorySpec
INVARIANTS NoFalseTrip ErrorsAreBilled
CHECK_DEADLOCK FALSE
