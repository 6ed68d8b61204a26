SPECIFICATION FairSpec
CONSTANTS
  Symbols = {0, 1}
  SnapCap = 1
  TradeCap = 2
  MaxFills = 4
  MaxSnaps = 1
  MaxFaults = 1
  MaxRestarts = 0
INVARIANTS TypeOK DrainedAtExit HistoryInv OwedInv
PROPERTIES KeepsHistory JoinReturns
CHECK_DEADLOCK FALSE
