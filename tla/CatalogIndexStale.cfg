SPECIFICATION Spec
CONSTANTS
    None = None
    Procs = {"p1", "p2"}
    Catalogs = {"k"}
    Items = {"i", "j"}
    Texts = {"a", "b", "blank"}
    Blank = {"blank"}
    Dims = {"small", "large"}
    Snapshots = {"s"}
    Calls = {c1, c2, c3, c4}
    Scopes <- Conflicting
INVARIANTS
    IndexAlwaysMatches
SYMMETRY CallSymmetry
CHECK_DEADLOCK FALSE
