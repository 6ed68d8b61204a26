SPECIFICATION FairSpec
CONSTANTS
  Items = {a, b}
  NoItem = NoItem
  Capacity = 2
  MaxPush = 5
INVARIANTS
  TypeOK
  NoDataRace
  SizeApproxInRange
PROPERTIES
  ImplementsQueue
  AllDelivered
