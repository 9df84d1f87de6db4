SPECIFICATION Spec
CONSTANTS
    None = None
    Gens = {1}
    Procs = {"p1", "p2"}
    Traffic = {"p1"}
    Hosts = {"h1", "h2"}
    HostOf <- MCOneHost
    Faults = {"slow"}
    MaxCrashes = 0
INVARIANTS
    ActiveComplete
CHECK_DEADLOCK FALSE
