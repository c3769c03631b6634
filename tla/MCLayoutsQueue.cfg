SPECIFICATION LayoutsSpec
CONSTANTS
  Configs <- MCConfigs
  Ids = {1, 2, 3}
  Types <- MCTypes
  Values <- MCValues
  Foreign <- MCForeign
  MaxCalls = 3
  Roots <- MCQueuedRoots
  BlockSizes = {8, 16, 12}
  MinBlock = 8
  CountBits = 6
  Limits = {150, 1000}
  Faults = {0, 3, 8, 16, 33}
  Cuts = {0, 128, 140}
  Offsets = {0, 7, 8, 20}
  Lens = {0, 1, 17}
  Bases = {0, 4}
  RecordFields <- MCRecordFields
  Queries <- MCQueries
  SchemaVersions = {1, 2}
  RecordLimits <- MCRecordLimits
  Misreads = {0, 1, 2, 5, 7}
INVARIANT OpenedReadsBack
CHECK_DEADLOCK FALSE
