SPECIFICATION Spec
CONSTANTS
  NSyms = 1
  MdCap = 1
  ExecCap = 8
  OrdCap = 2
  TradeCap = 1
  SnapCap = 1
  tick_size = 2
  minimum_spread = 3
  order_qty = 2
  book_depth = 5
  dry_run = FALSE
  MaxMd = 3
  MaxLogouts = 0
  StrayRoom = 0
  MaxRestarts = 0
  MaxSnapshots = 0
  VenueMay = {"ack_orig", "refuse_gone", "fill", "pending_status"}
  Snapshots <- MCMoves
INVARIANT OneWorkingOrder
