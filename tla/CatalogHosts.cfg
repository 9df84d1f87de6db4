SPECIFICATION FairSpec
CONSTANTS
    None = None
    Gens = {1, 2}
    Procs = {"p1", "p2"}
    Traffic = {}
    Hosts = {"h1", "h2"}
    HostOf <- MCOwnHost
    Faults = {"slow"}
    MaxCrashes = 1
CHECK_DEADLOCK FALSE
PROPERTIES
    ImplementsBlueGreen
    BuildSettles
