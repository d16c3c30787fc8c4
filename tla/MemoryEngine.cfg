\* Two jobs, two priorities and batch claims; three objects, two streams, two references.
CONSTANTS
    Ids = {1, 2}
    Priorities = {0, 1}
    AttemptLimits = {2}
    Delays = {0, 1}
    LeaseTimes = {1}
    BatchLimits = {2}
    MaxNow = 2
    Absent = Absent
    Keys <- MCKeys
    Fields = {"x", "y", "s"}
    Bodies <- MCBodies
    Streams = {1, 2}
    Protected = {2}
    Idems = {0, 1}
    Refs = {"a", "b"}
    MaxLink = 2
    Parts = {"queue", "objects", "events", "links"}
    Numbers <- MCNumbers
    Texts = {"s"}
    Similarity <- MCSimilarity
    Lists <- MCLists
    Aggregates <- MCAggregates
    Series <- MCSeries
    MaxOps = 3
SPECIFICATION EngineSpec
INVARIANTS FifoAmongEquals 
PROPERTIES RefinesJobQueue RefinesRecordStore
CHECK_DEADLOCK FALSE
