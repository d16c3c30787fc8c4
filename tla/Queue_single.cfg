\* Two jobs, two priorities, single claims by workers that keep polling and stop when their lease runs out.
CONSTANTS
    Ids = {1, 2}
    Priorities = {0, 1}
    AttemptLimits = {2}
    Delays = {0, 1}
    LeaseTimes = {1}
    BatchLimits = {}
    MaxNow = 2
    MaxPush = 2
    MaxRepush = 0
    LateCalls = FALSE
    MaxFailures = 1
SPECIFICATION PollSpec
INVARIANTS CachesExact LeaseExclusive
PROPERTIES RefinesJobQueue ReadyIsClaimed
