SPECIFICATION FairSpec
CONSTANTS
  c1 = c1
  c2 = c2
  Core = {c1, c2}
  Tag = {0, 1}
  Index = {0, 1}
  Offset = {0, 1}
  Data = {0, 1}
  Zero = 0
  LastLine <- MCLastLine
  MaxAccesses = 3
INVARIANTS
  TypeOK
  FlushLeavesLatest
PROPERTIES
  ReadsLatest
  DmaCopiesLatest
  AccessEnds
