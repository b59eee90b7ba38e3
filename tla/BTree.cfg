SPECIFICATION Spec
CONSTANTS
  T = 2
  Inode = FALSE
  Tables <- CleanAndDirty
INVARIANTS
  TreeSound
  LookupExact
  ScanExact
CHECK_DEADLOCK FALSE
