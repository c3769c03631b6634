SPECIFICATION MCSpec
CONSTANTS
  Inputs <- MCInputs
  Configs <- MCConfigs
  MaxDepth = 3
  MaxAttempts = 1
  SaveAfterPeek = FALSE
INVARIANTS
  TypeOK
  FramesMatch
  NextTokenIsNext
  ErrorIsLatest
  AcceptedIsOneValue
  PreflightIsSound
  AcceptsExactlyTheFormat
  ProbeIsExact
CHECK_DEADLOCK FALSE
