\* Two jobs, batch claims, one job pushed again, one failed claim, workers that answer late.
CONSTANTS
    Ids = {1, 2}
    Priorities = {0}
    AttemptLimits = {2}
    Delays = {0}
    LeaseTimes = {1}
    BatchLimits = {1, 2}
    MaxNow = 1
    MaxPush = 2
    MaxRepush = 1
    LateCalls = TRUE
    MaxFailures = 1
SPECIFICATION Spec
INVARIANTS IndexesComplete NoExpiredLeaseMissed
