SPECIFICATION Spec
CONSTANTS
    Keys = {0, 1, 2, 3, 4}
    Space = {1, 2, 3}
    Values = {"a", "b"}
    Absent = Absent
    Tombstone = Tombstone
    None = None
    Batches <- MCBatches
    FirstLayers <- MCFirstLayers
    Queries <- MCQueries
    Lookups <- MCLookups
    ChunkSize = 1
    BlockRecords = 2
    CacheBytes = 8
    PageLimit = 2
    PageReach = 3
    Examined = 2
    ScanAttempts = 2
    FirstRetries = 2
    MaxChanges = 2
    MaxReads = 2
INVARIANTS AnswersConsistent FailsOnlyWhenOvertaken BlockCacheAgrees
PROPERTIES EveryReadReturns
CHECK_DEADLOCK FALSE
