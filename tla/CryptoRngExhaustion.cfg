CONSTANTS
  CACHE_SIZE = 4
  FIPS_REQUEST_SIZE_THRESHOLD = 3
  MAX_CHUNK = 5
  ReqSizes <- MCReqSizes
  AlwaysReseed = FALSE
  ZERO = ZERO
  NONE = NONE
  DRBG = "HMAC_DRBG"
  FIPS = TRUE
  RESEED_INTERVAL = 3
  MaxReseeds = 2
SPECIFICATION CryptoSpec
PROPERTY ReseedRecovers
