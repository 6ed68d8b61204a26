SPECIFICATION FairSpec
CONSTANTS
  NSyms = 1
  MdCap = 1
  ExecCap = 8
  OrdCap = 2
  TradeCap = 1
  SnapCap = 1
  tick_size = 2
  minimum_spread = 3
  order_qty = 1
  book_depth = 5
  dry_run = FALSE
  MaxMd = 2
  MaxLogouts = 1
  StrayRoom = 0
  MaxRestarts = 0
  MaxSnapshots = 0
  VenueMay = {"ack_orig", "refuse_gone"}
  Snapshots <- MCPhases
PROPERTY PendingResolved
