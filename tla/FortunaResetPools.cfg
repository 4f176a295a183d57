CONSTANTS
  NPOOLS = 3
  NSamples <- MCNSamples
  GenSizes <- MCGenSizes
  MaxSchedule <- MCMaxSchedule
SPECIFICATION FortunaSpec
INVARIANT PoolCountsMatchContents
