SPECIFICATION Spec
CONSTANTS
  NSyms = 1
  MdCap = 1
  ExecCap = 1
  OrdCap = 2
  TradeCap = 1
  SnapCap = 1
  tick_size = 2
  minimum_spread = 3
  order_qty = 1
  book_depth = 5
  dry_run = FALSE
  MaxMd = 2
  MaxLogouts = 0
  StrayRoom = 1
  MaxRestarts = 0
  MaxSnapshots = 0
  VenueMay = {"ack_orig", "refuse_gone", "ack_request", "blind_ack", "reject_cancel", "reject_new", "fill", "unsolicited", "expire", "stray"}
  Snapshots <- MCShapes
INVARIANTS OrderIdsInv SlotsInv
