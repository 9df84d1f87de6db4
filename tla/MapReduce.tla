------------------------------- MODULE MapReduce -------------------------------
(***************************************************************************)
(* The Redis queue together with the engine that its workers map shards    *)
(* with: worker_loop() of app/distributed.py awaits run() of               *)
(* app/mapreduce.py between BLPOP and the SET of the shard.  Requests call *)
(* the same engine through the routes of app/main.py.                      *)
(***************************************************************************)
EXTENDS MapReduceQueue, MapReduceEngine

CONSTANT Scopes   \* the deployments explored: the jobs and workers, whether
                  \* the tasks of a shard are explored or its map is one step,
                  \* whether keys expire, requests, and the bound on crashes

VARIABLE scope

allVars == <<vars, call, scope>>

Clients == Callers \ Workers

Detailed == scope.detail

-----------------------------------------------------------------------------

MapReduceInit ==
    /\ scope \in Scopes
    /\ Init
    /\ EngineInit

\* The request of a shard collects, so that its reducer takes every value.
ShardRequests(w) ==
    {[kind |-> "run", failFast |-> ff, bad |-> b, reducible |-> TRUE] :
        ff \in BOOLEAN, b \in {{}, {1}}}

\* The worker pops a task and starts its map.
PopShard(w) ==
    /\ Pop(w)
    /\ IF Detailed THEN \E request \in ShardRequests(w) : StartCall(w, request)
       ELSE UNCHANGED call

\* The map has ended: its results, or the exception as the result of each
\* item, are stored.
StoreShard(w) ==
    /\ Detailed => call[w].pc \in Ended
    /\ Store(w)
    /\ call' = IF Detailed THEN [call EXCEPT ![w] = NoCall] ELSE call

OtherWork(w) ==
    /\ \/ Count(w) \/ SetRunning(w) \/ ReadMeta(w) \/ Combine(w) \/ Reduce(w)
       \/ SetCompleted(w) \/ Refresh(w)
    /\ UNCHANGED call

WorkStep(w) == (PopShard(w) \/ StoreShard(w) \/ OtherWork(w)) /\ UNCHANGED scope

CrashWorker(w) ==
    /\ crashes < scope.crashes
    /\ Crash(w)
    /\ call' = [call EXCEPT ![w] = NoCall]
    /\ UNCHANGED scope

\* mapreduce_run and mapreduce_stream
ClientCall(e) ==
    /\ e \in scope.clients
    /\ call[e].pc = "idle"
    /\ \E request \in RequestOf : StartCall(e, request)
    /\ UNCHANGED <<vars, scope>>

ClientLeaves(e) == e \in Clients /\ Disconnect(e) /\ UNCHANGED <<vars, scope>>

CallStep(e) == EngineStep(e) /\ UNCHANGED <<vars, scope>>

RedisStep ==
    /\ \E j \in scope.jobs : Submit(j) \/ (scope.expiry /\ (Age(j) \/ ExpireKey(j)))
    /\ UNCHANGED <<call, scope>>

MapReduceNext ==
    \/ RedisStep
    \/ \E w \in scope.workers : WorkStep(w) \/ CrashWorker(w)
    \/ \E e \in Callers : CallStep(e)
    \/ \E e \in Clients : ClientCall(e) \/ ClientLeaves(e)

\* Workers and tasks go on: Redis and the map operations answer.
MapReduceSpec ==
    /\ MapReduceInit /\ [][MapReduceNext]_allVars
    /\ \A w \in Workers : WF_allVars(WorkStep(w))
    /\ \A e \in Callers : WF_allVars(CallStep(e))

-----------------------------------------------------------------------------
(* Properties *)

MapReduceTypeOK == TypeOK /\ EngineTypeOK
=============================================================================
