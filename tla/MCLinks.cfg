SPECIFICATION LinksSpec
CONSTANTS
  a = a
  b = b
  c = c
  Values = {a, b, c}
  Size <- MCSize
  MaxEntries = 2
  ByteLimit <- NoLimit
  MaxBatch = 3
  MaxFrames = 3
  DEFAULT_SIZE_LIMIT = 40
  Setups <- MCSetups
  RawSizes = {4, 30, 41}
  PackedSizes = {0, 5}
  Misread = {0, 40, 100, 1000}
  MaxSends = 2
  MaxFaults = 2
INVARIANTS
  DeliversInOrder
  TablesAgree
  DeliveredInOrder
  InStep
  LimitsCompose
  AllocationBounded
CHECK_DEADLOCK FALSE
