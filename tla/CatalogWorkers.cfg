SPECIFICATION Spec
CONSTANTS
    None = None
    Gens = {1, 2}
    Procs = {"p1", "p2"}
    Traffic = {"p1", "p2"}
    Hosts = {"h1", "h2"}
    HostOf <- MCOneHost
    Faults = {}
    MaxCrashes = 1
CHECK_DEADLOCK FALSE
INVARIANTS
    PointerStatus
    OneBuilder
