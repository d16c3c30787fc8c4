\* Two callers on a channel of one place, groups of at most three bytes,
\* one failure.
CONSTANTS
    Clients = {c1, c2}
    Sizes = {1, 3}
    QueueCapacity = 1
    MaxGroupBytes = 3
    MaxMemtableBytes = 2
    MaxJournalingSize = 4
    Threads = {t1, t2}
    MaxRequests = 4
    MaxErrors = 1
SPECIFICATION Spec
INVARIANTS SingleFlusher RequestInOnePlace MemtableBounded
PROPERTIES EveryCallReturns MemtableFlushed DropCompletes
CHECK_DEADLOCK FALSE
