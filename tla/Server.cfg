\* Two clients, the default database and one tenant, two requests and one clear
\* on top of a database in use, one permit.
CONSTANTS
    Clients = {1, 2}
    Paths = {"default", "tenant"}
    Default = "default"
    Parts = {"objects", "log"}
    MaxPermits = 1
    MaxRequests = 2
    MaxRecords = 2
    MaxClears = 1
SPECIFICATION Spec
INVARIANTS AckedServed RoleRespected PermitsConserved
PROPERTIES AllAnswered
CHECK_DEADLOCK FALSE
