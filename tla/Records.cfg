\* Three objects, two streams and two references; at most MaxOps calls and one crash or close.
CONSTANTS
    None = None
    Keys <- MCKeys
    Fields = {"x", "y"}
    Bodies <- MCBodies
    Streams = {1, 2}
    Protected = {2}
    ReplicationStream = 2
    Idems = {0, 1}
    PageSize = 2
    Legacy <- MCLegacy
    Exposed = {}
    Refs = {"a", "b"}
    MaxLink = 3
    Parts = {"objects", "events", "links"}
    Versions = {0, 1, 2}
    Cursors = {0, 1}
    MaxBatch = 2
    MaxOps = 3
    MaxCrashes = 1
SPECIFICATION Spec
INVARIANTS DerivedExact 
PROPERTIES RefinesRecordStore
CHECK_DEADLOCK FALSE
