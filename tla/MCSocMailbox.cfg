SPECIFICATION FairSpec
CONSTANTS
  N = 3
  DirectOps <- BothOps
  MaxProf = 1
  ShareMode = FALSE
  CoreId = 0
  FifoMax = 1
INVARIANTS
  TypeOK
  ScanExcludesIss
  ServedOnce
  NeverTwice
  RingsWhenAllIn
  NoWakeUpLost
PROPERTIES
  EveryCommandEnds
  EveryStepNearer
