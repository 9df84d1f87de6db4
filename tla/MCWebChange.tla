----------------------------- MODULE MCWebChange -----------------------------
(* Instances of WebChange for TLC. *)
EXTENDS WebChange, TLC

CONSTANTS t1, t2, g1, g2, b1, b2, b3

\* Each task in the same process, or each in its own.
MCOneProcess == [t \in Tasks |-> "server"]
MCTwoProcesses == [t \in Tasks |-> IF t = t1 THEN "server" ELSE "second"]

\* Handlers of one process, proposals and runs are interchangeable.
MCSymmetry ==
    Permutations(Tasks) \cup Permutations(Proposals) \cup Permutations(Runs)

\* One text has no anchor; in the others every anchor is present.
MCAnchors == [b \in Bodies |-> IF b = b3 THEN {} ELSE Targets]
===============================================================================
