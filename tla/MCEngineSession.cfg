SPECIFICATION Spec
CONSTANTS
  NSyms = 1
  MdCap = 1
  ExecCap = 1
  OrdCap = 2
  TradeCap = 1
  SnapCap = 1
  tick_size = 2
  minimum_spread = 3
  order_qty = 1
  book_depth = 5
  dry_run = FALSE
  MaxMd = 3
  MaxLogouts = 1
  StrayRoom = 0
  MaxRestarts = 1
  MaxSnapshots = 1
  VenueMay = {"ack_orig", "refuse_gone", "ack_request", "blind_ack", "reject_cancel"}
  Snapshots <- MCMoves
INVARIANTS TypeOK OneWorkingOrder NoOrphanOrder CancelFollowsAck NoRepeatedCancel
PROPERTY SlotLifecycle
