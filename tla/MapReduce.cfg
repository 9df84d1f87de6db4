SPECIFICATION MapReduceSpec
CHECK_DEADLOCK FALSE
CONSTANTS
    None = None
    Jobs = {"a", "b"}
    Total <- MCTotal
    Unreducible = {"b"}
    Workers = {"w1", "w2"}
    Expiry = TRUE
    MaxCrashes = 1
    Callers = {"w1", "w2", "e"}
    Items = 3
    Concurrency = 2
    Scopes <- Deployments
INVARIANTS
    ResultWhole
    OneReducer
PROPERTIES
    JobReduced
    CallsEnd
