CONSTANTS
  Keys = {"a", "b"}
  Clients = {"c", "d"}
  Threads = {"t1", "t2"}
  JobIds = {1, 2}
  Vals = {1, 2}
  Size <- MCSize
  NoVal = 0
  NPages = 3
  Mixes <- MCMixes
  Zero = {"a"}
  MaxVal = 2
  MaxJobs = 2
  DsMixes <- MCDsMixes
SPECIFICATION StorageSpec
INVARIANTS PagesExact Invisible SnapshotStable IoSound CleanOnDisk SnapshotExact
PROPERTY Resumed
CHECK_DEADLOCK FALSE
