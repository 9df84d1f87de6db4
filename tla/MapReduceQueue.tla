---------------------------- MODULE MapReduceQueue ----------------------------
(***************************************************************************)
(* Distributed map/reduce over Redis: app/distributed.py.                  *)
(*                                                                         *)
(* submit() writes the hash of a job and pushes one task per shard, in one *)
(* transaction.  Workers pop tasks, map them, store the results of a shard *)
(* under a key of its own and count it in the hash; the one whose count    *)
(* reaches the total reads all shards, reduces them and stores the result. *)
(* Each Redis command is atomic, a worker is interleaved between any two.  *)
(* What a shard's results are is abstracted: an item that fails is a       *)
(* result too.                                                             *)
(***************************************************************************)
EXTENDS Naturals, Sequences, FiniteSets

CONSTANTS
    Jobs,
    Total,        \* the number of shards of each job
    Unreducible,  \* jobs whose reducer raises on the values of the map
    Workers,      \* processes of app.mapreduce_worker
    Expiry,       \* whether the TTL of a job may pass
    MaxCrashes,   \* bound on worker crashes
    None

ASSUME JobAssumption ==
    /\ Total \in [Jobs -> Nat \ {0}]
    /\ Unreducible \subseteq Jobs
    /\ Expiry \in BOOLEAN
    /\ MaxCrashes \in Nat

VARIABLES
    queue,    \* the list rtdc:mapreduce:tasks
    hash,     \* the hash of a job; absent fields read as "none" and 0
    ttl,      \* what set the TTL of the hash, None without one
    stored,   \* shards whose results are stored
    result,   \* the shards the stored result reduces
    aged,     \* the TTL has passed since the job was submitted
    work,     \* the local state of each worker
    crashes

vars == <<queue, hash, ttl, stored, result, aged, work, crashes>>

-----------------------------------------------------------------------------
(* Data *)

ShardsOf(j) == 1 .. Total[j]

Task == {t \in [job : Jobs, shard : Nat] : t.shard \in ShardsOf(t.job)}

ASSUME NoneAssumption ==
    /\ None \notin {"submit", "refresh"}
    /\ \A j \in Jobs : \A s \in SUBSET ShardsOf(j) : s # None

Hash == [state : {"none", "queued", "running", "completed"}, total : Nat, done : Nat]

Absent == [state |-> "none", total |-> 0, done |-> 0]

\* task: what blpop returned; count: what hincrby returned; next, combined:
\* the shard to read next, and those that were found.
WorkPcs == {"idle", "store", "count", "running", "meta", "combine", "reduce",
            "complete", "refresh", "dead"}

WorkState == [pc : WorkPcs, task : Task \cup {None}, count : Nat, next : Nat,
              combined : SUBSET Nat]

NoWork == [pc |-> "idle", task |-> None, count |-> 0, next |-> 1, combined |-> {}]

Step(w, pc) == work' = [work EXCEPT ![w].pc = pc]

JobOf(w) == work[w].task.job

Init ==
    /\ queue = << >>
    /\ hash = [j \in Jobs |-> Absent]
    /\ ttl = [j \in Jobs |-> None]
    /\ stored = [j \in Jobs |-> {}]
    /\ result = [j \in Jobs |-> None]
    /\ aged = [j \in Jobs |-> FALSE]
    /\ work = [w \in Workers |-> NoWork]
    /\ crashes = 0

-----------------------------------------------------------------------------
(* submit *)

Tasks(j) == [s \in ShardsOf(j) |-> [job |-> j, shard |-> s]]

\* A job's id is new: nothing of it is in Redis yet.
Submit(j) ==
    /\ ttl[j] = None /\ hash[j] = Absent /\ ~ aged[j]
    /\ hash' = [hash EXCEPT ![j] = [state |-> "queued", total |-> Total[j], done |-> 0]]
    /\ ttl' = [ttl EXCEPT ![j] = "submit"]
    /\ queue' = queue \o Tasks(j)
    /\ UNCHANGED <<stored, result, aged, work, crashes>>

-----------------------------------------------------------------------------
(* worker_loop and _complete_shard *)

\* BLPOP removes the task; the map runs, and its exceptions become results.
Pop(w) ==
    /\ work[w].pc = "idle"
    /\ queue # << >>
    /\ queue' = Tail(queue)
    /\ work' = [work EXCEPT ![w] = [NoWork EXCEPT !.pc = "store", !.task = Head(queue)]]
    /\ UNCHANGED <<hash, ttl, stored, result, aged, crashes>>

\* Mutant: an exception of the map leaves the loop.
StoreUncaught(w) ==
    /\ work[w].pc = "store"
    /\ Step(w, "dead")
    /\ UNCHANGED <<queue, hash, ttl, stored, result, aged, crashes>>

Store(w) ==
    /\ work[w].pc = "store"
    /\ stored' = [stored EXCEPT ![JobOf(w)] = @ \cup {work[w].task.shard}]
    /\ Step(w, "count")
    /\ UNCHANGED <<queue, hash, ttl, result, aged, crashes>>

\* HINCRBY creates the hash, without a TTL, when it has expired.
Count(w) ==
    LET done == hash[JobOf(w)].done + 1
    IN  /\ work[w].pc = "count"
        /\ hash' = [hash EXCEPT ![JobOf(w)].done = done]
        /\ work' = [work EXCEPT ![w].pc = "running", ![w].count = done]
        /\ UNCHANGED <<queue, ttl, stored, result, aged, crashes>>

\* HSET state "running", whatever the state is by now.
SetRunning(w) ==
    /\ work[w].pc = "running"
    /\ hash' = [hash EXCEPT ![JobOf(w)].state = "running"]
    /\ Step(w, "meta")
    /\ UNCHANGED <<queue, ttl, stored, result, aged, crashes>>

\* Mutant: the worker trusts the counter it reads now, not its own count.
LastShardNow(w) == hash[JobOf(w)].done = hash[JobOf(w)].total

\* HGETALL: this worker counted the last shard.
LastShard(w) == work[w].count = hash[JobOf(w)].total

ReadMeta(w) ==
    /\ work[w].pc = "meta"
    /\ IF LastShard(w) THEN Step(w, "combine")
       ELSE work' = [work EXCEPT ![w] = NoWork]
    /\ UNCHANGED <<queue, hash, ttl, stored, result, aged, crashes>>

\* Mutant: the loop over the shards stops one too early.
CombineAllButLast(w) ==
    /\ work[w].pc = "combine"
    /\ IF work[w].next >= Total[JobOf(w)] THEN Step(w, "reduce")
       ELSE work' = [work EXCEPT ![w].next = @ + 1,
               ![w].combined = @ \cup ({work[w].next} \cap stored[JobOf(w)])]
    /\ UNCHANGED <<queue, hash, ttl, stored, result, aged, crashes>>

\* One GET per shard; a shard that has expired is left out.
Combine(w) ==
    /\ work[w].pc = "combine"
    /\ IF work[w].next > Total[JobOf(w)] THEN Step(w, "reduce")
       ELSE work' = [work EXCEPT ![w].next = @ + 1,
               ![w].combined = @ \cup ({work[w].next} \cap stored[JobOf(w)])]
    /\ UNCHANGED <<queue, hash, ttl, stored, result, aged, crashes>>

\* reduce_results and SET.  An exception of the reducer leaves worker_loop.
Reduce(w) ==
    /\ work[w].pc = "reduce"
    /\ IF JobOf(w) \in Unreducible THEN Step(w, "dead") /\ UNCHANGED result
       ELSE /\ result' = [result EXCEPT ![JobOf(w)] = work[w].combined]
            /\ Step(w, "complete")
    /\ UNCHANGED <<queue, hash, ttl, stored, aged, crashes>>

SetCompleted(w) ==
    /\ work[w].pc = "complete"
    /\ hash' = [hash EXCEPT ![JobOf(w)].state = "completed"]
    /\ Step(w, "refresh")
    /\ UNCHANGED <<queue, ttl, stored, result, aged, crashes>>

\* EXPIRE: the TTL of the hash starts again.
Refresh(w) ==
    /\ work[w].pc = "refresh"
    /\ ttl' = [ttl EXCEPT ![JobOf(w)] = IF hash[JobOf(w)] = Absent THEN None
                                        ELSE "refresh"]
    /\ work' = [work EXCEPT ![w] = NoWork]
    /\ UNCHANGED <<queue, hash, stored, result, aged, crashes>>

-----------------------------------------------------------------------------
(* Time and crashes *)

\* The TTL since submit() has passed.  A hash that was not refreshed is gone.
Age(j) ==
    /\ Expiry
    /\ ttl[j] # None /\ ~ aged[j]
    /\ aged' = [aged EXCEPT ![j] = TRUE]
    /\ IF ttl[j] = "submit"
       THEN /\ hash' = [hash EXCEPT ![j] = Absent]
            /\ ttl' = [ttl EXCEPT ![j] = None]
       ELSE UNCHANGED <<hash, ttl>>
    /\ UNCHANGED <<queue, stored, result, work, crashes>>

\* Keys written after submit() expire after the job's first TTL.
ExpireKey(j) ==
    /\ aged[j]
    /\ \/ /\ ttl[j] = "refresh"
          /\ hash' = [hash EXCEPT ![j] = Absent]
          /\ ttl' = [ttl EXCEPT ![j] = None]
          /\ UNCHANGED <<stored, result>>
       \/ /\ \E s \in stored[j] : stored' = [stored EXCEPT ![j] = @ \ {s}]
          /\ UNCHANGED <<hash, ttl, result>>
       \/ /\ result[j] # None
          /\ result' = [result EXCEPT ![j] = None]
          /\ UNCHANGED <<hash, ttl, stored>>
    /\ UNCHANGED <<queue, aged, work, crashes>>

\* A worker process dies, the task it popped with it, and is started again.
Crash(w) ==
    /\ crashes < MaxCrashes
    /\ work[w].pc # "idle"
    /\ work' = [work EXCEPT ![w] = NoWork]
    /\ crashes' = crashes + 1
    /\ UNCHANGED <<queue, hash, ttl, stored, result, aged>>

-----------------------------------------------------------------------------
(* The specification *)

Work(w) ==
    \/ Pop(w) \/ Store(w) \/ Count(w) \/ SetRunning(w) \/ ReadMeta(w)
    \/ Combine(w) \/ Reduce(w) \/ SetCompleted(w) \/ Refresh(w)

Next ==
    \/ \E w \in Workers : Work(w) \/ Crash(w)
    \/ \E j \in Jobs : Submit(j) \/ Age(j) \/ ExpireKey(j)

Spec == Init /\ [][Next]_vars

\* A worker process that is running goes on: BLPOP returns a task when there
\* is one, Redis and the map answer.
FairSpec == Spec /\ \A w \in Workers : WF_vars(Work(w))

-----------------------------------------------------------------------------
(* Properties *)

\* The Redis keys and the workers' locals have their types.
TypeOK ==
    /\ queue \in Seq(Task)
    /\ hash \in [Jobs -> Hash]
    /\ ttl \in [Jobs -> {"submit", "refresh", None}]
    /\ stored \in [Jobs -> SUBSET Nat]
    /\ result \in [Jobs -> (SUBSET Nat) \cup {None}]
    /\ aged \in [Jobs -> BOOLEAN]
    /\ work \in [Workers -> WorkState]
    /\ crashes \in Nat

\* A result that is stored while the job lives reduces every shard: the last
\* count comes after all the shards were stored, crashes or not.
ResultWhole ==
    \A j \in Jobs : result[j] # None /\ ~ aged[j] => result[j] = ShardsOf(j)

Reducing(w) == work[w].pc \in {"combine", "reduce", "complete", "refresh"}

\* A job is reduced by one worker: only one count reaches the total, also when
\* the hash expires and is counted from zero again.
OneReducer ==
    \A v, w \in Workers :
        v # w /\ Reducing(v) /\ Reducing(w) => JobOf(v) # JobOf(w)

\* A client that is told that a job is completed finds its result.
CompletedHasResult ==
    \A j \in Jobs : hash[j].state = "completed" /\ ~ aged[j] => result[j] # None

\* Unless a worker crashes or the TTL passes, every job gets its result; a job
\* whose reducer raises costs one worker, and never the jobs of others.
JobReduced ==
    \A j \in Jobs \ Unreducible :
        hash[j].state = "queued" ~> result[j] # None \/ crashes > 0 \/ aged[j]

\* A job that is completed stays completed until it expires.
CompletedFinal ==
    [][\A j \in Jobs : hash[j].state = "completed"
                          => hash'[j].state # "running"]_vars
===============================================================================
