SPECIFICATION FairSpec
CONSTANTS
  DSPNUM = 2
  SEMIHOST = TRUE
  Commands = {"data", "run", "step", "stop", "reason"}
  MaxCommands = 3
INVARIANTS
  TypeOK
  AnsweredMeansDone
  NothingLeft
  HaltTogether
  CulpritKnown
  ShownHasExited
  NeverWaitsInVain
PROPERTIES
  CommandEnds
  RunEnds
CHECK_DEADLOCK FALSE
