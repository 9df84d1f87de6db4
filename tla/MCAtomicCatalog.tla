--------------------------- MODULE MCAtomicCatalog ---------------------------
(* Instances of AtomicCatalog for TLC. *)
EXTENDS AtomicCatalog

\* The processes of `uvicorn --workers n`, or one on each machine.
MCOneHost == [p \in Procs |-> "h1"]
MCOwnHost == [p \in Procs |-> IF p = "p1" THEN "h1" ELSE "h2"]
===============================================================================
