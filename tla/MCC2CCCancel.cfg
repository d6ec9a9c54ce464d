SPECIFICATION Spec
CONSTANTS
  DSPNUM = 3
  Dest <- Fan
  Receiver = {0, 2}
  Timeouts = {3}
  MayCancel = TRUE
  MaxMsg <- TwoEach
INVARIANTS
  BusyMeansUnsent
PROPERTIES
  ImplementsChannel
