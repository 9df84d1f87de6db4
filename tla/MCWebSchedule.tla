---------------------------- MODULE MCWebSchedule ----------------------------
(* Instances of WebSchedule for TLC. *)
EXTENDS WebSchedule

Every == [s \in Schedules |-> 1]

One(procs, faults, requests, crashes_) ==
    [procs |-> procs, schedulers |-> procs, faults |-> faults, requests |-> requests,
     crashes |-> crashes_]

\* One process that is stopped or dies; two that share the database, with one
\* or two schedulers; statements that fail.
Deployments ==
    {One({"p1"}, {}, {"disabled", "test", "delete", "stop"}, 1),
     One({"p1", "p2"}, {}, {"delete"}, 0),
     One({"p1", "p2"}, {}, {}, 1),
     [One({"p1", "p2"}, {"busy"}, {}, 0) EXCEPT !.schedulers = {"p1"}]}

\* For the counterexample.
Two == {One({"p1", "p2"}, {}, {"delete"}, 0)}
=============================================================================
