CONSTANTS
  NPOOLS = 2
  NSamples <- MCNSamples
  MaxSchedule <- MCMaxSchedule
  CACHE_SIZE = 4
  FIPS_REQUEST_SIZE_THRESHOLD = 3
  MAX_CHUNK = 5
  ReqSizes <- MCReqSizes
  ZERO = ZERO
  NONE = NONE
  RESEED_INTERVAL = 3
  MaxReseeds = 2
SPECIFICATION KSpec
INVARIANTS
  KTypeOK
  BootstrapGate
PROPERTIES
  FirstReseedFromDigest
  CompromiseRequiresFreshEntropy
