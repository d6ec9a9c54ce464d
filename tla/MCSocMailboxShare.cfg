SPECIFICATION FairSpec
CONSTANTS
  N = 2
  DirectOps <- DbgOnly
  MaxProf = 1
  ShareMode = TRUE
  CoreId = 0
  FifoMax = 2
INVARIANT
  NoWakeUpLost
PROPERTY
  EveryCommandEnds
