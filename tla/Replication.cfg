SPECIFICATION Spec
CONSTANTS
    None = None
    Keys = {k1}
    Bodies = {b1}
    Elsewhere = Elsewhere
    Clients = {c1}
    Limit = 2
    Late = {"page"}
    KeepsLast = TRUE
    Odds = {"mcp", "record fails", "report", "bootstrap", "reset", "unanswered", "give up"}
    MaxLog = 3
    MaxEvents = 1
    MaxOdds = 2
INVARIANTS ReplicaIsReplay AppendsAppliedOnce
PROPERTY CatchesUp
CHECK_DEADLOCK FALSE
