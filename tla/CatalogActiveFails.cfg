SPECIFICATION Spec
CONSTANTS
    None = None
    Gens = {1}
    Procs = {"p1"}
    Traffic = {"p1"}
    Hosts = {"h1", "h2"}
    HostOf <- MCOneHost
    Faults = {"io"}
    MaxCrashes = 0
PROPERTIES
    ActiveOnlyRetires
CHECK_DEADLOCK FALSE
