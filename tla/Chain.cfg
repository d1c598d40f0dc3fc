CONSTANTS
  None = None
  Threads = {main, worker}  Coroutine = main  Recorders = {pass, symbol}
  Sources = 3  Supporting = {1, 3}
  MaxRequests = 2  MayResolve = TRUE  MayFail = TRUE
SPECIFICATION HistorySpec
INVARIANTS BillIsExact AnswersAreBilled
CHECK_DEADLOCK FALSE
