CONSTANTS
  CACHE_SIZE = 4
  FIPS_REQUEST_SIZE_THRESHOLD = 3
  MAX_CHUNK = 5
  ReqSizes = {}
  ZERO = ZERO
  NONE = NONE
  DRBG = "HMAC_DRBG"
  FIPS = TRUE
  RESEED_INTERVAL <- MCReseedInterval
  MaxReseeds <- MCMaxReseeds
  TV_MAX <- MCTvMax
  GenAmnt <- MCGenAmnt
  NGens <- MCNGens
  TimerGenAmnt = 4
  TimerNGens = 3
  SeedLens = {32, 64}
  HASH_LEN = 32
SPECIFICATION VSpec
INVARIANTS
  VTypeOK
  AfterReseedIsFresh
\* The script ends after the third file.
CHECK_DEADLOCK FALSE
