\* One incarnation: the engine implements KVStore.  Groups of two requests,
\* a flush before every acknowledgement, one I/O error of any kind.
CONSTANTS
    k1 = k1
    k2 = k2
    v1 = v1
    v2 = v2
    Keys = {k1, k2}
    Absent = Absent
    Tombstone = Tombstone
    Values = {v1, v2}
    Batches <- MixedBatches
    MaxGroup = 2
    MaxSequence = 3
    MaxOpens = 1
    MaxMemtableBytes = 1
    MaxTableLayers = 2
    Faults <- FaultPoints
    MaxErrors = 1
SPECIFICATION Spec
PROPERTIES RefinesKVStore
CHECK_DEADLOCK FALSE
