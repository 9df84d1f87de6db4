SPECIFICATION Spec
CONSTANTS
    None = None
    Gens = {1, 2, 3}
    Procs = {"p1"}
    Traffic = {"p1"}
    Hosts = {"h1", "h2"}
    HostOf <- MCOneHost
    Faults = {"io", "damage", "busy"}
    MaxCrashes = 0
CHECK_DEADLOCK FALSE
INVARIANTS
    ServedComplete
