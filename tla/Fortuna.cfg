CONSTANTS
  NPOOLS = 3
  NSamples <- MCSeedingNSamples
  GenSizes <- MCGenSizes
  MaxSchedule <- MCMaxSchedule
SPECIFICATION FortunaFairSpec
INVARIANTS
  FortunaTypeOK
  FfsMatchesReference
  SeededOnlyByFreshEntropy
  DrainSchedule
PROPERTY
  EventuallySeeded
