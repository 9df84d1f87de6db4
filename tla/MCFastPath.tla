------------------------------ MODULE MCFastPath ------------------------------
(* Deployments of FastPath for TLC. *)
EXTENDS FastPath

\* A stream of two events and two other requests in one process, with and
\* without a limit on the wait for a slot.
Scheduling ==
    {[procs |-> {"p1"}, ids |-> {"i"}, writers |-> {}, waits |-> b,
      requests |-> {"s1", "s2", "r1", "r2"}, faults |-> {"cancel"}] : b \in BOOLEAN}

\* Two processes and a request: two writers without faults, and one with.
Sharing ==
    {[procs |-> {"p1", "p2"}, ids |-> {"i"}, waits |-> TRUE, requests |-> {"r1"},
      writers |-> W, faults |-> IF W = {"w1"} THEN {"redis", "listener", "crash"} ELSE {}] :
        W \in {{"w1"}, {"w1", "w2"}}}

\* Two profiles, of which a process keeps one copy, and two requests.
Evicting ==
    [procs |-> {"p1"}, ids |-> {"i", "j"}, writers |-> {"w1"}, waits |-> TRUE,
     requests |-> {"r1", "r2"}, faults |-> {"cancel"}]

Deployments == Scheduling \cup Sharing \cup {Evicting}
=============================================================================
