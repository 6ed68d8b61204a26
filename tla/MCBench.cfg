SPECIFICATION FairSpec
CONSTANTS
  NSyms = 2
  MdCap = 2
  ExecCap = 1
  OrdCap = 2
  TradeCap = 1
  SnapCap = 1
  LogCap = 2
  tick_size = 2
  minimum_spread = 3
  order_qty = 1
  book_depth = 5
  dry_run = FALSE
  MaxSnapshots = 1
  n_msgs = 4
  NarrowEvery = 3
  narrow_half = 1
  wide_half = 4
  Mids = {10}
INVARIANTS TypeOK NothingDropped OneOrderPerSlot LogDrained LogAccounted
PROPERTY Reports
CHECK_DEADLOCK FALSE
