SPECIFICATION RestartSpec
CONSTANTS
  Symbols = {0, 1}
  SnapCap = 1
  TradeCap = 2
  MaxFills = 2
  MaxSnaps = 0
  MaxFaults = 0
  MaxRestarts = 1
PROPERTY KeepsHistory
CHECK_DEADLOCK FALSE
