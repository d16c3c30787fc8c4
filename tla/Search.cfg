\* One object, one event, a queue and a replay map of one key: overflow, rebuild under writes, one reopen, one failure anywhere.
CONSTANTS
    Objects = {1}
    Events = {2}
    Bodies = {"a", "b"}
    Relevance <- KeyRelevance
    Modes = {"async", "persistent"}
    QueueMax = 1
    BatchSize = 2
    ReplayLimit = 1
    RecoveryBatch = 1
    MaxRetries = 1
    Threads = {t1, t2}
    MaxWrites = 3
    MaxOpens = 2
    MaxRequests = 1
    MaxFailures = 1
SPECIFICATION Spec
INVARIANTS SearchIsCurrent
PROPERTIES QueueDrains DropEnds RebuildEnds
CHECK_DEADLOCK FALSE
