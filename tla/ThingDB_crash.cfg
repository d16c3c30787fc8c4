\* Crashes at every step, one reopen, one I/O error of the kinds the engine
\* recovers from.  Batches end when MaxSequence is used up, so the system may stop.
CONSTANTS
    k1 = k1
    k2 = k2
    v1 = v1
    v2 = v2
    Keys = {k1, k2}
    Absent = Absent
    Tombstone = Tombstone
    Values = {v1}
    Batches <- FewBatches
    MaxGroup = 1
    MaxSequence = 3
    MaxOpens = 2
    MaxMemtableBytes = 3
    MaxTableLayers = 2
    Faults <- SafeFaults
    MaxErrors = 1
SPECIFICATION Spec
INVARIANTS AckedDurable ManifestAlwaysOpens UnreplayedKeysExact CommitNeverConflicts
PROPERTIES RecoveryExactForPuts
CHECK_DEADLOCK FALSE
