SPECIFICATION Spec
CONSTANTS
    None = None
    Procs = {"p1", "p2"}
    Ids = {"i", "j"}
    Writers = {"w1", "w2"}
    Requests = {"s1", "s2", "r1", "r2"}
    Stream = {"s1", "s2"}
    Concurrency = 2
    Limit = 1
    Slots = 1
    Capacity = 2
    Scopes <- Deployments
INVARIANTS
    CopiesFollow
CHECK_DEADLOCK FALSE
