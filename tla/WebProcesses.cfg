SPECIFICATION FairSpec
CONSTANTS
    t1 = t1
    t2 = t2
    g1 = g1
    g2 = g2
    b1 = b1
    b2 = b2
    b3 = b3
    None = None
    Tasks = {t1, t2}
    Procs = {"server", "second"}
    ProcOf <- MCTwoProcesses
    Proposals = {p1, p2}
    Runs = {r1}
    Pages = {page1}
    Slugs = {s1, s2}
    Targets = {g1}
    Bodies = {b1, b2}
    AnchorsIn <- MCAnchors
    MaxEdits = 1
    MaxCrashes = 0
CHECK_DEADLOCK FALSE
PROPERTIES
    ImplementsGate
    ApplyResolves
    RunFinishes
