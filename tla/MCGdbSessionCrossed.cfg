SPECIFICATION Spec
CONSTANTS
  DSPNUM = 1
  SEMIHOST = FALSE
  Commands = {"data", "run", "stop"}
  MaxCommands = 4
INVARIANTS
  DataAnswered
CHECK_DEADLOCK FALSE
