SPECIFICATION FairSpec
CONSTANTS
  DSPNUM = 4
  Dest <- Crowd
  Receiver = {0}
  Timeouts = {}
  MayCancel = FALSE
  MaxMsg <- Crowded
INVARIANTS
  TypeOK
  InOrderOnce
  NoneLost
  WholeUnlessSpoilt
PROPERTIES
  TakesTurns
  SomeoneGetsIn
