SPECIFICATION Spec
CONSTANTS
  Parts = {"skiplist", "dict", "ziplist", "zipmap", "intset", "setobj", "hashobj", "listobj", "sds", "events", "ahash", "pure"}
  MaxLevel = 3
  Elements <- MCElements
  Scores <- MCScores
  Ranges <- MCRanges
  MaxElements = 4
  InitialSize = 2
  ForceRatio = 1
  MinFill = 50
  Keys = {0, 1, 2, 4}
  BigLen = 6
  Wide = 3
  MaxCount = 3
  Lens = {2, 3, 4, 6}
  MaxEntries = 4
  ZipmapBigLen = 3
  WideLen = 5
  MaxFree = 2
  MapKeys = {1, 2, 3}
  ValueLens = {0, 1, 2, 3, 5}
  Values = {"u"}
  MaxPackedEntries = 3
  MaxPackedLen = 4
  Widths <- MCWidths
  Small = 3
  Fds <- MCFds
  MaxClients = 3
  Horizon = 2
  Periods = {1, 2}
  MaxTimers = 2
  ULMax = 255
  IntBits <- MCIntBits
  UIntMax = 1023
  HashSize = 5
  MaxCollisions = 2
  UcharMax = 255
  UshrtMax = 350
  MinHashCols = 100
  RowKeys = {1, 2, 5, 9, 13, 17}
  Now = 1000
  LzfMin = 20
  MaxPacked = 2
  MaxPackedValue = 4
  Inputs <- MCInputs
INVARIANTS
  ContainerExact
  
CHECK_DEADLOCK FALSE
