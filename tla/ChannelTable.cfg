SPECIFICATION Spec
CONSTANTS
  MaxChannels = 4
  InitialChannels = 1
INVARIANTS
  IndInv
  ShortageIsReal
PROPERTIES
  NumberPoolSpec
CHECK_DEADLOCK FALSE
