SPECIFICATION FairSpec
CONSTANTS
    None = None
    Procs = {"p1", "p2"}
    Runs = {"r1", "r2"}
    Nodes = {"a", "b", "c"}
    Initial <- Definitions
    Updates <- OneUpdate
    Scope <- MCScope
    MaxCrashes = 1
CHECK_DEADLOCK FALSE
INVARIANTS
    TraceMeaning
    VerdictExplained
    ReviewsReported
    WebhookOnce
    VersionsStable
PROPERTIES
    RunEnds
