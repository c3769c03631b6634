SPECIFICATION FairProgressSpec
CONSTANTS
  MaxItems = 5
  MaxWorkers = 3
  Outcomes = {"ok", "err", "panic"}
  k1 = k1
  k2 = k2
  k3 = k3
  v1 = v1
  v2 = v2
  v3 = v3
  Pairs <- MCPairs
  Cells = 5
  PositionMaps <- MCMaps
  MaxHeld = 3
INVARIANTS
  ScheduleIndependent
  RecoveredAreDifferences
  RecoversUnlessCancelled
PROPERTIES
  ImplementsOrderedMap
  Returns
  DecodeEnds
CHECK_DEADLOCK FALSE
