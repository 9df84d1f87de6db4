SPECIFICATION Spec
CONSTANTS
    t1 = t1
    t2 = t2
    g1 = g1
    g2 = g2
    b1 = b1
    b2 = b2
    b3 = b3
    None = None
    Tasks = {t1, t2}
    Procs = {"server"}
    ProcOf <- MCOneProcess
    Proposals = {p1, p2}
    Runs = {r1, r2}
    Pages = {page1}
    Slugs = {s1}
    Targets = {g1}
    Bodies = {b1, b2, b3}
    AnchorsIn <- MCAnchors
    MaxEdits = 1
    MaxCrashes = 1
SYMMETRY MCSymmetry
CHECK_DEADLOCK FALSE
INVARIANTS
    ReviewedContentOnly
    OneOpenProposal
PROPERTIES
    NeverReopened
