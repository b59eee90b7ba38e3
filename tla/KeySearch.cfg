SPECIFICATION FairSpec
CONSTANTS
  Key <- NodeKeys
  MaxN = 7
  TopBit <- NodeTopBit
INVARIANTS
  IndInv
PROPERTIES
  Terminates
CHECK_DEADLOCK FALSE
