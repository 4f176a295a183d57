CONSTANTS
  NPOOLS = 3
  NSamples <- MCPositiveNSamples
  GenSizes <- MCGenSizes
  MaxSchedule <- MCOverrunSchedule
SPECIFICATION FortunaSpec
INVARIANT NoPoolIndexError
