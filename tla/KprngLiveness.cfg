CONSTANTS
  NPOOLS = 2
  NSamples <- MCHealthyNSamples
  MaxSchedule <- MCMaxSchedule
  CACHE_SIZE = 4
  FIPS_REQUEST_SIZE_THRESHOLD = 3
  MAX_CHUNK = 5
  ReqSizes <- MCLiveReqSizes
  ZERO = ZERO
  NONE = NONE
  RESEED_INTERVAL = 3
  MaxReseeds = 4
SPECIFICATION KEntropyFairSpec
PROPERTY ReseedEventuallyPerformed
