SPECIFICATION Spec
CONSTANTS
    None = None
    Procs = {"p1", "p2"}
    Projects = {"i", "j"}
    Datasets = {"d1", "d2"}
    Reviews = {"r1", "r2"}
    Models = {"m1", "m2"}
    Decision <- MCDecision
    Calls = {"c1", "c2", "c3", "c4"}
    Keys = {"k", "l"}
    Days = {1, 2}
    Slot = "slot"
    Texts = {"a", "b", "c", "d", "e"}
    Labels = {"x", "y"}
    MinExamples = 1
    TrainLimit = 3
    Scopes <- AllScopes
CHECK_DEADLOCK FALSE
INVARIANTS
    QuotaHolds
    AuditExact
    DeployedOwned
    TenantIsolation
    LineageExact
