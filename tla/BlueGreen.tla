------------------------------- MODULE BlueGreen -------------------------------
(***************************************************************************)
(* What the atomic catalog promises to a reader: generations are built     *)
(* aside, and the one that is live is always one that was built to the end. *)
(***************************************************************************)
CONSTANTS Gens, None

VARIABLES live, built

vars == <<live, built>>

Init == live = None /\ built = {}

\* A generation is finished; from then on it never changes.
Finish(g) ==
    /\ built' = built \cup {g}
    /\ UNCHANGED live

Switch(g) ==
    /\ g \in built
    /\ live' = g
    /\ UNCHANGED built

Next == \E g \in Gens : Finish(g) \/ Switch(g)

Spec == Init /\ [][Next]_vars
===============================================================================
