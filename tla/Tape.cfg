CONSTANTS
  NoTape = NoTape  Refused = Refused
  LastSession = 2  MaxPrints = 4  MaxVolume = 2
  PageSize = 2  MaxPages = 2  Faulty = {2}
SPECIFICATION HistorySpec
INVARIANTS TapeIsAPrefix
PROPERTIES TapeIsCurrent
CHECK_DEADLOCK FALSE
