\* A put that is only in the WAL when the database is reopened, then a flush.
CONSTANTS
    k1 = k1
    k2 = k2
    v1 = v1
    v2 = v2
    Keys = {k1, k2}
    Absent = Absent
    Tombstone = Tombstone
    Values = {v1}
    Batches <- PutBatches
    MaxGroup = 1
    MaxSequence = 3
    MaxOpens = 2
    MaxMemtableBytes = 3
    MaxTableLayers = 2
    Faults <- NoFaults
    MaxErrors = 0
SPECIFICATION Spec
INVARIANTS ReadsAcked
CHECK_DEADLOCK FALSE
