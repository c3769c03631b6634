SPECIFICATION ProgressSpec
CONSTANTS
  MaxItems = 0
  MaxWorkers = 1
  Outcomes = {"ok"}
  k1 = k1
  k2 = k2
  k3 = k3
  v1 = v1
  v2 = v2
  v3 = v3
  Pairs <- MCPairs
  Cells = 5
  PositionMaps <- MCRepeatedMaps
  MaxHeld = 3
INVARIANT RecoversExactly
CHECK_DEADLOCK FALSE
