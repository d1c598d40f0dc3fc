CONSTANTS
  None = None
  Processes = {p1, p2}  CanCrash = TRUE
  LastLabel = 2  Window = 1  FiledBefore = 1  Restatable = {1}  Unreadable = FALSE  NSections = 2
  TTL = 1  MaxCallTicks = 1  End = 3
SPECIFICATION MCSpec
INVARIANTS TypeOK BankedUnlessTorn CurrentOneAtATime HistoryOneAtATime ServedIsRecent
PROPERTIES ArchiveSpec FigureKeptInWindow
SYMMETRY Symmetry
CHECK_DEADLOCK FALSE
