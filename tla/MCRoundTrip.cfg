SPECIFICATION RTSpec
CONSTANTS
  Configs <- MCConfigs
  Values <- MCValues
  Keys <- MCKeys
  Capacity = 3
  MaxEvents = 7
  MaxData = 2
  MaxDepth = 3
INVARIANTS
  SinksAgree
  EncodedIsOneValue
  RefusedAtTheLimit
  EncodedRoundTrips
  TruncationIsRejected
CHECK_DEADLOCK FALSE
