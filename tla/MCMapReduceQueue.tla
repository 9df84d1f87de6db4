--------------------------- MODULE MCMapReduceQueue ---------------------------
(***************************************************************************)
(* Small instances of MapReduceQueue, alone and with the engine, for TLC.  *)
(***************************************************************************)
EXTENDS MapReduce

\* The first job has one shard more than the second.
MCTotal == [j \in Jobs |-> IF j = "a" THEN 3 ELSE 1]

\* A request alone.
RequestOnly == {[jobs |-> {}, workers |-> {}, detail |-> TRUE, expiry |-> FALSE,
                 clients |-> {"e"}, crashes |-> 0]}

\* Two workers on one job, with expiring keys and a crash, and on two jobs
\* with a crash, each shard mapped in one step; one worker that maps item by item; a request.
\* Calls share nothing but the event loop, so that two at a time show no more.
Deployments ==
    {[jobs |-> {"a"}, workers |-> Workers, detail |-> FALSE, expiry |-> TRUE, clients |-> {},
      crashes |-> 1],
     [jobs |-> Jobs, workers |-> Workers, detail |-> FALSE, expiry |-> FALSE, clients |-> {},
      crashes |-> 1],
     [jobs |-> {"a"}, workers |-> {"w1"}, detail |-> TRUE, expiry |-> FALSE, clients |-> {},
      crashes |-> 1]} \cup RequestOnly
===============================================================================
