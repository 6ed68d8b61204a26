SPECIFICATION FairSpec
CONSTANTS
  Values <- MCValues
  Recorders = {r1, r2}
  MaxUpdates = 3
  MaxSize = 1
INVARIANTS TypeOK SnapshotBetween PercentileBound MaxWhenIdle PublishedConsistent MetricsInv PercentileInv
PROPERTIES NeverGoesBack CatchesUp
CHECK_DEADLOCK FALSE
