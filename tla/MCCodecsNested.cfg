SPECIFICATION Spec
CONSTANTS
  IntMax = 2097151
  HeuristicSample = 3
  LengthBits = 2
  DistanceBits = 2
  LiteralBits = 2
  WordBits = 10
  MaxChain = 2
  HashBuckets = 4
  M = 4
  L = 16
  BASE = 8
  WordBytes = 2
  HeaderLen = 2
  Jobs <- MCNestedJobs
  Arrivals <- MCNoFrames
  CodecConfigs <- MCConfigs
  Damages = {0, 1, 3, 17, 70}
  DeltaBits = 16
  TypeIdentity <- MCTypeIdentity
  CborDepth = 2
  CborAttempts = 1
  Unguarded = {}
  CborBytes <- MCBytes
INVARIANT EvidenceIsHonest
CHECK_DEADLOCK FALSE
