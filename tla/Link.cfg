SPECIFICATION FairSpec
CONSTANTS
    Db = {0, 1}
    ConnId = {1, 2, 3}
    BufCap = 2
    Mixes <- MCMixes
    ADb = {0, 1}
    MaxLog = 2
    LogMixes <- MCLogMixes
    Streams <- MCStreams
    Scripts <- MCScripts
    BufBytes = 3
    ChunkBytes = 3
INVARIANTS
    SyncExact
    
    LogExact
    StreamExact
PROPERTY Linked
CHECK_DEADLOCK FALSE
