SPECIFICATION Spec
CHECK_DEADLOCK FALSE
CONSTANTS
    p1 = p1
    p2 = p2
    c1 = c1
    None = None
    Jobs <- TwoJobs
    Procs = {p1, p2}
    Catalogs = {c1}
    CatalogOf <- SameCatalog
    BatchSize = 2
    Scopes <- Paused
INVARIANTS
    AlwaysOneFeed
