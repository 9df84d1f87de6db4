---------------------------- MODULE MapReduceEngine ----------------------------
(***************************************************************************)
(* Map/reduce inside one process: run() and stream() of app/mapreduce.py,  *)
(* behind the routes of app/main.py and in each worker of the Redis queue. *)
(*                                                                         *)
(* A call has one asyncio task per item.  The tasks share a semaphore; a   *)
(* task of run() returns its result to gather(), one of stream() puts it   *)
(* in a queue that the response reads.  The tasks, and the tasks of        *)
(* several calls, are interleaved at each await.  What an item's value is, *)
(* and so what a reducer computes, is left out.                            *)
(***************************************************************************)
EXTENDS Naturals, Sequences, FiniteSets, FiniteSetsExt, SequencesExt

CONSTANTS
    Callers,      \* requests, and the workers of the queue
    Items,        \* the number of items of a call
    Concurrency   \* MapReduceRequest.concurrency

ASSUME EngineAssumption == {Items, Concurrency} \subseteq Nat \ {0}

VARIABLE call     \* what each caller has asked for, and where it is

-----------------------------------------------------------------------------
(* Data *)

Index == 1 .. Items

\* bad: items on which the map operation raises; reducible: the reducer takes
\* the values of the others.
RequestOf == [kind : {"run", "stream"}, failFast : BOOLEAN, bad : SUBSET Index,
          reducible : BOOLEAN]

TaskPcs == {"waiting", "mapping", "ok", "failed", "raised"}

Ended == {"answered", "refused", "broken", "gone"}

\* gather: run() awaits its tasks; get: stream() awaits its queue
CallPcs == {"idle", "gather", "get", "join"} \cup Ended

NoCall == [pc |-> "idle", kind |-> "run", failFast |-> FALSE, bad |-> {}, reducible |-> TRUE,
           task |-> [i \in Index |-> "waiting"], queue |-> << >>, got |-> 0]

EngineInit == call = [e \in Callers |-> NoCall]

In(e, pcs) == {i \in Index : call[e].task[i] \in pcs}

-----------------------------------------------------------------------------
(* The tasks *)

\* run() and stream() create a task for each item.
StartCall(e, spec) ==
    call' = [call EXCEPT ![e] =
        [NoCall EXCEPT !.pc = IF spec.kind = "run" THEN "gather" ELSE "get",
                       !.kind = spec.kind, !.failFast = spec.failFast,
                       !.bad = spec.bad, !.reducible = spec.reducible]]

\* The semaphore admits tasks in the order in which they came to it, which is
\* that of the items, and never more than Concurrency.
Acquire(e) ==
    /\ call[e].pc # "idle"
    /\ In(e, {"waiting"}) # {}
    /\ Cardinality(In(e, {"mapping"})) < Concurrency
    /\ call' = [call EXCEPT ![e].task[Min(In(e, {"waiting"}))] = "mapping"]

\* What _run_item makes of the map of item i.
Outcome(e, i) ==
    IF i \notin call[e].bad THEN "ok" ELSE IF call[e].failFast THEN "raised" ELSE "failed"

\* Mutant: only results that are ok are put in the queue.
PutOk(e, i, outcome) ==
    IF call[e].kind = "stream" /\ outcome = "ok"
    THEN Append(call[e].queue, i) ELSE call[e].queue

\* worker() of stream() puts the result of an item in the queue; an exception
\* ends the task before that.
Put(e, i, outcome) ==
    IF call[e].kind = "stream" /\ outcome # "raised"
    THEN Append(call[e].queue, i) ELSE call[e].queue

\* _map_one answers or raises.  The task goes on to its end also when nobody
\* waits for it any more.
MapItem(e, i) ==
    /\ call[e].task[i] = "mapping"
    /\ call' = [call EXCEPT ![e].task[i] = Outcome(e, i),
                            ![e].queue = Put(e, i, Outcome(e, i))]

-----------------------------------------------------------------------------
(* run *)

\* reduce_results, which takes the results that are ok and may raise on them.
Reduced(e) == call[e].reducible \/ In(e, {"ok"}) = {}

\* gather() raises with the first task that does and leaves the others alone.
GatherRaises(e) ==
    /\ call[e].pc = "gather"
    /\ In(e, {"raised"}) # {}
    /\ call' = [call EXCEPT ![e].pc = "refused"]

\* gather() returns when every task has, and the results are reduced.
Gather(e) ==
    /\ call[e].pc = "gather"
    /\ In(e, {"ok", "failed"}) = Index
    /\ call' = [call EXCEPT ![e] =
         [@ EXCEPT !.pc = IF Reduced(e) THEN "answered" ELSE "refused"]]

-----------------------------------------------------------------------------
(* stream *)

\* queue.get(), once per task, and the event of the result
Get(e) ==
    /\ call[e].pc = "get"
    /\ call[e].queue # << >>
    /\ call' = [call EXCEPT ![e] =
         [@ EXCEPT !.queue = Tail(@), !.got = @ + 1,
                   !.pc = IF call[e].got + 1 = Items THEN "join" ELSE "get"]]

\* Every task has put its result, and the results are reduced; an exception
\* breaks off the response, whose status has been sent.
Join(e) ==
    /\ call[e].pc = "join"
    /\ call' = [call EXCEPT ![e] =
         [@ EXCEPT !.pc = IF Reduced(e) THEN "answered" ELSE "broken"]]

\* The client of a stream goes away, and the generator is closed.
Disconnect(e) ==
    /\ call[e].pc \in {"get", "join"}
    /\ call' = [call EXCEPT ![e].pc = "gone"]

-----------------------------------------------------------------------------

EngineStep(e) ==
    \/ Acquire(e) \/ GatherRaises(e) \/ Gather(e) \/ Get(e) \/ Join(e)
    \/ \E i \in Index : MapItem(e, i)

-----------------------------------------------------------------------------
(* Properties *)

EngineTypeOK ==
    \A e \in Callers :
        /\ call[e].pc \in CallPcs
        /\ call[e].task \in [Index -> TaskPcs]
        /\ call[e].queue \in Seq(Index) /\ call[e].got \in 0 .. Items
        /\ Cardinality(In(e, {"mapping"})) <= Concurrency

\* Every call ends, or its worker has died.  With fail_fast a stream whose item raised does not: it
\* waits for a result that nobody puts.  See MapStreamWaits.cfg.
CallsEnd ==
    \A e \in Callers :
        call[e].pc \in {"gather", "get"}
            ~> \/ call[e].pc \in Ended \cup {"idle"}
               \/ call[e].kind = "stream" /\ In(e, {"raised"}) # {}

\* docs/ADVANCED_PIPELINES.md: a stream emits the results and then a final
\* reduce event.  Violated: see MapStreamWaits.cfg.
StreamsEnd == \A e \in Callers : call[e].pc = "get" ~> call[e].pc \in Ended
=============================================================================
