SPECIFICATION FairSpec
CONSTANTS
  c1 = c1
  c2 = c2
  copy = copy
  other = other
  data = data
  Zero = Zero
  Core = {c1, c2}
  CFU_NUM = 2
  Func = {copy, other}
  Registered <- MCRegistered
  Data <- MCData
  MaxStarts = 3
INVARIANTS
  TypeOK
PROPERTIES
  ReturnsServed
  CallEnds
CHECK_DEADLOCK FALSE
