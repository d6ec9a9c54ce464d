SPECIFICATION Spec
CONSTANTS
  NI = 3
  MaxTag = 2
  LineSize = 4
  Len = 2
  Code <- Wraps
  Written <- Pair
  MaxWrites = 2
INVARIANTS
  FetchesItsLine
