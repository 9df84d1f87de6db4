--------------------------- MODULE MapReduceProofs ---------------------------
(***************************************************************************)
(* Theorems about MapReduceQueue, for any number of jobs, shards, workers  *)
(* and crashes.  A task is in one place at a time (PlaceInv), so the count *)
(* of a job never exceeds the shards that are stored and not about to be   *)
(* counted (CountInv); the counts that workers got are all different       *)
(* (OwnCount), so one of them at most is the total, and that worker finds  *)
(* every shard (ReduceInv).                                                *)
(***************************************************************************)
EXTENDS MapReduceQueue, FiniteSetTheorems, SequenceTheorems, TLAPS

\* The worker has a task in hand that is not counted yet, or is.
Holding(w) == work[w].pc \in {"store", "count"}
Counted(w) == work[w].pc \in {"running", "meta", "combine", "reduce",
                              "complete", "refresh"}

Busy(w) == Holding(w) \/ Counted(w)

\* Something of job j is in Redis or in a worker's hands.
Known(j) ==
    \/ \E i \in 1 .. Len(queue) : queue[i].job = j
    \/ \E w \in Workers : Busy(w) /\ JobOf(w) = j
    \/ stored[j] # {}

\* A job whose TTL has not passed is there as it was submitted, or is not
\* known at all; a hash that was created again has no total.
JobInv ==
    \A j \in Jobs :
        /\ hash[j].total \in {0, Total[j]}
        /\ ttl[j] = "submit" => ~ aged[j]
        /\ ~ aged[j] => (hash[j].total = 0 <=> ttl[j] = None)
        /\ Known(j) => aged[j] \/ hash[j].total = Total[j]
        /\ stored[j] \subseteq ShardsOf(j)

\* A task is in the queue once, or in one worker's hands, or stored.
PlaceInv ==
    /\ \A i, k \in 1 .. Len(queue) : i # k => queue[i] # queue[k]
    /\ \A i \in 1 .. Len(queue) : queue[i].shard \notin stored[queue[i].job]
    /\ \A i \in 1 .. Len(queue), w \in Workers : Holding(w) => queue[i] # work[w].task
    /\ \A v, w \in Workers :
          v # w /\ Holding(v) /\ Holding(w) => work[v].task # work[w].task
    /\ \A w \in Workers :
          work[w].pc = "store" => work[w].task.shard \notin stored[JobOf(w)]
    /\ \A w \in Workers :
          work[w].pc = "count" /\ ~ aged[JobOf(w)]
             => work[w].task.shard \in stored[JobOf(w)]

\* The shards of j that are stored and about to be counted.
InCount(j) ==
    {work[w].task.shard : w \in {x \in Workers : work[x].pc = "count" /\ JobOf(x) = j}}

CountInv ==
    \A j \in Jobs :
        ~ aged[j] => hash[j].done <= Cardinality(stored[j] \ InCount(j))

\* The counts workers got from one hash are different, and not above it.
OwnCount ==
    /\ \A w \in Workers : Counted(w) => work[w].count > 0
    /\ \A w \in Workers :
          Counted(w) /\ hash[JobOf(w)].total # 0 => work[w].count <= hash[JobOf(w)].done
    /\ \A v, w \in Workers :
          /\ v # w /\ Counted(v) /\ Counted(w)
          /\ JobOf(v) = JobOf(w) /\ hash[JobOf(v)].total # 0
          => work[v].count # work[w].count

\* The worker that reduces has the total, and all shards are stored.
ReduceInv ==
    /\ \A w \in Workers : Reducing(w) => work[w].count = Total[JobOf(w)]
    /\ \A w \in Workers :
          Reducing(w) /\ ~ aged[JobOf(w)]
             => /\ stored[JobOf(w)] = ShardsOf(JobOf(w))
                /\ work[w].combined = {s \in ShardsOf(JobOf(w)) : s < work[w].next}
    /\ \A w \in Workers :
          work[w].pc = "reduce" => work[w].next > Total[JobOf(w)]
    /\ \A w \in Workers :
          work[w].pc \in {"complete", "refresh"} /\ ~ aged[JobOf(w)]
             => result[JobOf(w)] # None

\* A worker that is not idle has a task.
TaskInv == \A w \in Workers : Busy(w) => work[w].task \in Task

\* Until it reduces, a worker has read no shard.
FreshInv ==
    \A w \in Workers :
        work[w].pc \in {"idle", "store", "count", "running", "meta"}
            => work[w].next = 1 /\ work[w].combined = {}

IInv == /\ TypeOK
        /\ TaskInv
        /\ JobInv
        /\ PlaceInv
        /\ CountInv
        /\ OwnCount
        /\ FreshInv
        /\ ReduceInv
        /\ ResultWhole
        /\ OneReducer
        /\ CompletedHasResult

-----------------------------------------------------------------------------
\* A task names a job and one of its shards.
LEMMA TaskType ==
    ASSUME NEW t \in Task
    PROVE  /\ t.job \in Jobs
           /\ t.shard \in ShardsOf(t.job) /\ t.shard \in Nat \ {0}
           /\ t = [job |-> t.job, shard |-> t.shard]
BY JobAssumption DEF Task, ShardsOf

LEMMA ShardsFinite ==
    ASSUME NEW j \in Jobs
    PROVE  /\ Total[j] \in Nat \ {0}
           /\ IsFiniteSet(ShardsOf(j))
           /\ Cardinality(ShardsOf(j)) = Total[j]
<1>1. Total[j] \in Nat \ {0}
  BY JobAssumption
<1>2. IsFiniteSet(1 .. Total[j]) /\ Cardinality(1 .. Total[j]) = Total[j]
  BY <1>1, FS_Interval
<1> QED
  BY <1>1, <1>2 DEF ShardsOf

\* The tasks of a job, one per shard.
LEMMA TasksType ==
    ASSUME NEW j \in Jobs
    PROVE  /\ Tasks(j) \in Seq(Task) /\ Len(Tasks(j)) = Total[j]
           /\ \A s \in 1 .. Total[j] : Tasks(j)[s] = [job |-> j, shard |-> s]
<1>1. Total[j] \in Nat
  BY JobAssumption
<1>2. \A n \in ShardsOf(j) : [job |-> j, shard |-> n] \in Task
  BY <1>1 DEF Task, ShardsOf
<1>3. Tasks(j) \in [1 .. Total[j] -> Task]
  BY <1>2 DEF Tasks, ShardsOf
<1>4. Tasks(j) \in Seq(Task)
  BY <1>1, <1>3, SeqDef
<1> QED
  BY <1>1, <1>3, <1>4 DEF Tasks, ShardsOf

LEMMA NoWorkType == NoWork \in WorkState
BY DEF NoWork, WorkState, WorkPcs

LEMMA InitInv == Init => IInv
<1> SUFFICES ASSUME Init PROVE IInv
  OBVIOUS
<1> USE DEF Init
<1>1. TypeOK
  <2>1. queue \in Seq(Task)
    OBVIOUS
  <2>2. Absent \in Hash
    BY DEF Absent, Hash
  <2>3. hash \in [Jobs -> Hash] /\ ttl \in [Jobs -> {"submit", "refresh", None}]
    BY <2>2
  <2>4. stored \in [Jobs -> SUBSET Nat] /\ result \in [Jobs -> (SUBSET Nat) \cup {None}]
    OBVIOUS
  <2>5. work \in [Workers -> WorkState] /\ crashes \in Nat
    BY NoWorkType
  <2> QED
    BY <2>1, <2>3, <2>4, <2>5, Zenon DEF TypeOK
<1>2. \A w \in Workers : ~ Busy(w) /\ ~ Reducing(w)
  BY DEF Busy, Holding, Counted, Reducing, NoWork
<1>3. JobInv
  <2> SUFFICES ASSUME NEW j \in Jobs
               PROVE  /\ hash[j].total = 0 /\ ttl[j] = None /\ ~ aged[j]
                      /\ ~ Known(j) /\ stored[j] = {}
    BY NoneAssumption DEF JobInv
  <2>1. ~ \E i \in 1 .. Len(queue) : queue[i].job = j
    OBVIOUS
  <2> QED
    BY <1>2, <2>1 DEF Known, Absent
<1>4. PlaceInv
  BY <1>2 DEF PlaceInv, Busy, Holding, NoWork
<1>5. CountInv
  <2> SUFFICES ASSUME NEW j \in Jobs PROVE 0 <= Cardinality({} \ InCount(j))
    BY DEF CountInv, Absent
  <2> QED
    BY FS_EmptySet, {} \ InCount(j) = {}
<1>6. OwnCount /\ FreshInv /\ ReduceInv
  BY <1>2 DEF OwnCount, FreshInv, ReduceInv, Busy, Reducing, NoWork
<1>7. ResultWhole /\ OneReducer /\ CompletedHasResult
  BY <1>2 DEF ResultWhole, OneReducer, CompletedHasResult, Absent
<1> QED
  BY <1>1, <1>2, <1>3, <1>4, <1>5, <1>6, <1>7 DEF IInv, TaskInv

-----------------------------------------------------------------------------
(* Types *)

\* What the invariant says of a worker that has a task.
LEMMA BusyType ==
    ASSUME TypeOK, TaskInv, NEW w \in Workers, Busy(w)
    PROVE  /\ work[w] \in WorkState
           /\ work[w].task \in Task /\ work[w].count \in Nat /\ work[w].next \in Nat
           /\ JobOf(w) \in Jobs
           /\ work[w].task.shard \in ShardsOf(JobOf(w))
           /\ work[w].task.shard \in Nat \ {0}
           /\ work[w].task = [job |-> JobOf(w), shard |-> work[w].task.shard]
<1>1. work[w] \in WorkState /\ work[w].task \in Task
  BY DEF TypeOK, TaskInv
<1>2. work[w].count \in Nat /\ work[w].next \in Nat
  BY <1>1 DEF WorkState
<1> QED
  BY <1>1, <1>2, TaskType DEF JobOf

\* Step changes the program counter of one worker and nothing else.
LEMMA StepType ==
    ASSUME TypeOK, NEW w \in Workers, NEW pc \in WorkPcs, Step(w, pc)
    PROVE  /\ work' \in [Workers -> WorkState]
           /\ work'[w].pc = pc
           /\ work'[w].task = work[w].task /\ work'[w].count = work[w].count
           /\ work'[w].next = work[w].next /\ work'[w].combined = work[w].combined
           /\ \A x \in Workers \ {w} : work'[x] = work[x]
<1>1. work \in [Workers -> WorkState] /\ work[w] \in WorkState
  BY DEF TypeOK
<1>2. work' = [work EXCEPT ![w] = [work[w] EXCEPT !.pc = pc]]
  BY <1>1 DEF Step
<1>3. [work[w] EXCEPT !.pc = pc] \in WorkState
  BY <1>1 DEF WorkState
<1>4. work'[w] = [work[w] EXCEPT !.pc = pc]
  BY <1>1, <1>2
<1>5. /\ work'[w].pc = pc
      /\ work'[w].task = work[w].task /\ work'[w].count = work[w].count
      /\ work'[w].next = work[w].next /\ work'[w].combined = work[w].combined
  BY <1>1, <1>4 DEF WorkState
<1> QED
  BY <1>1, <1>2, <1>3, <1>5

\* A worker that gives its task up is idle.
LEMMA ReleaseType ==
    ASSUME TypeOK, NEW w \in Workers, work' = [work EXCEPT ![w] = NoWork]
    PROVE  /\ work' \in [Workers -> WorkState]
           /\ work'[w].pc = "idle" /\ work'[w].next = 1 /\ work'[w].combined = {}
           /\ \A x \in Workers \ {w} : work'[x] = work[x]
<1>1. work \in [Workers -> WorkState]
  BY DEF TypeOK
<1>2. NoWork.pc = "idle" /\ NoWork.next = 1 /\ NoWork.combined = {}
  BY DEF NoWork
<1> QED
  BY <1>1, <1>2, NoWorkType

\* What Pop does to the queue and to the worker.
LEMMA PopEffect ==
    ASSUME TypeOK, NEW w \in Workers, Pop(w)
    PROVE  /\ Len(queue) \in Nat \ {0} /\ queue[1] \in Task
           /\ queue' \in Seq(Task) /\ Len(queue') = Len(queue) - 1
           /\ \A i \in 1 .. Len(queue') : queue'[i] = queue[i + 1]
           /\ work' \in [Workers -> WorkState]
           /\ work'[w].pc = "store" /\ work'[w].task = queue[1]
           /\ \A x \in Workers \ {w} : work'[x] = work[x]
<1> USE DEF Pop
<1>1. queue \in Seq(Task) /\ queue # << >> /\ queue' = Tail(queue)
  BY DEF TypeOK
<1>2. /\ Len(queue) \in Nat \ {0} /\ Head(queue) = queue[1] /\ queue[1] \in Task
      /\ queue' \in Seq(Task) /\ Len(queue') = Len(queue) - 1
      /\ \A i \in 1 .. Len(queue') : queue'[i] = queue[i + 1]
  BY <1>1
<1>3. [NoWork EXCEPT !.pc = "store", !.task = Head(queue)] \in WorkState
  BY <1>2 DEF NoWork, WorkState, WorkPcs
<1>4. /\ work' \in [Workers -> WorkState]
      /\ work'[w].pc = "store" /\ work'[w].task = queue[1]
      /\ \A x \in Workers \ {w} : work'[x] = work[x]
  BY <1>2, <1>3 DEF TypeOK, NoWork
<1> QED
  BY <1>2, <1>4

\* What Count does to the hash and to the worker.
LEMMA CountEffect ==
    ASSUME TypeOK, TaskInv, NEW w \in Workers, Count(w)
    PROVE  /\ hash' \in [Jobs -> Hash]
           /\ hash'[JobOf(w)] = [hash[JobOf(w)] EXCEPT !.done = @ + 1]
           /\ \A j \in Jobs \ {JobOf(w)} : hash'[j] = hash[j]
           /\ work' \in [Workers -> WorkState]
           /\ work'[w].pc = "running" /\ work'[w].task = work[w].task
           /\ work'[w].count = hash[JobOf(w)].done + 1
           /\ \A x \in Workers \ {w} : work'[x] = work[x]
<1> USE DEF Count
<1> DEFINE d == hash[JobOf(w)].done + 1
           new == [work[w] EXCEPT !.pc = "running", !.count = d]
<1>1. Busy(w)
  BY DEF Busy, Holding
<1>2. JobOf(w) \in Jobs /\ work[w] \in WorkState
  BY <1>1, BusyType
<1>3. hash \in [Jobs -> Hash] /\ hash[JobOf(w)] \in Hash
  BY <1>2 DEF TypeOK
<1>4. d \in Nat
  BY <1>3 DEF Hash
<1>5. hash' = [hash EXCEPT ![JobOf(w)] = [hash[JobOf(w)] EXCEPT !.done = d]]
  BY <1>3
<1>6. [hash[JobOf(w)] EXCEPT !.done = d] \in Hash
  BY <1>3, <1>4 DEF Hash
<1>7. /\ hash' \in [Jobs -> Hash]
      /\ hash'[JobOf(w)] = [hash[JobOf(w)] EXCEPT !.done = @ + 1]
      /\ \A j \in Jobs \ {JobOf(w)} : hash'[j] = hash[j]
  BY <1>2, <1>3, <1>5, <1>6
<1>8. /\ new \in WorkState
      /\ new.pc = "running" /\ new.task = work[w].task /\ new.count = d
  BY <1>2, <1>4 DEF WorkState, WorkPcs
<1>9. work' = [work EXCEPT ![w] = new]
  BY DEF TypeOK
<1> HIDE DEF new
<1>10. work' \in [Workers -> WorkState] /\ work'[w] = new
       /\ \A x \in Workers \ {w} : work'[x] = work[x]
  BY <1>8, <1>9 DEF TypeOK
<1> QED
  BY <1>7, <1>8, <1>10

\* Setting the state of a job changes nothing else of its hash.
LEMMA StateEffect ==
    ASSUME TypeOK, TaskInv, NEW w \in Workers, Busy(w),
           NEW st \in {"running", "completed"},
           hash' = [hash EXCEPT ![JobOf(w)].state = st]
    PROVE  /\ hash' \in [Jobs -> Hash]
           /\ hash'[JobOf(w)].state = st
           /\ \A j \in Jobs : hash'[j].total = hash[j].total /\ hash'[j].done = hash[j].done
           /\ \A j \in Jobs \ {JobOf(w)} : hash'[j] = hash[j]
<1>1. JobOf(w) \in Jobs
  BY BusyType
<1>2. hash \in [Jobs -> Hash] /\ \A j \in Jobs : hash[j] \in Hash
  BY DEF TypeOK
<1>3. hash' = [hash EXCEPT ![JobOf(w)] = [hash[JobOf(w)] EXCEPT !.state = st]]
  BY <1>2
<1>4. /\ [hash[JobOf(w)] EXCEPT !.state = st] \in Hash
      /\ [hash[JobOf(w)] EXCEPT !.state = st].state = st
      /\ [hash[JobOf(w)] EXCEPT !.state = st].total = hash[JobOf(w)].total
      /\ [hash[JobOf(w)] EXCEPT !.state = st].done = hash[JobOf(w)].done
  BY <1>1, <1>2 DEF Hash
<1> QED
  BY <1>1, <1>2, <1>3, <1>4

\* Combine reads one more shard or goes on to the reducer.
LEMMA CombineEffect ==
    ASSUME TypeOK, TaskInv, NEW w \in Workers, Combine(w)
    PROVE  /\ work' \in [Workers -> WorkState]
           /\ work'[w].task = work[w].task /\ work'[w].count = work[w].count
           /\ \/ /\ work[w].next > Total[JobOf(w)] /\ work'[w].pc = "reduce"
                 /\ work'[w].next = work[w].next
                 /\ work'[w].combined = work[w].combined
              \/ /\ ~ (work[w].next > Total[JobOf(w)]) /\ work'[w].pc = "combine"
                 /\ work'[w].next = work[w].next + 1
                 /\ work'[w].combined = work[w].combined
                                          \cup ({work[w].next} \cap stored[JobOf(w)])
           /\ \A x \in Workers \ {w} : work'[x] = work[x]
<1> USE DEF Combine
<1>1. Busy(w)
  BY DEF Busy, Counted
<1>2. CASE work[w].next > Total[JobOf(w)]
  <2>1. Step(w, "reduce") /\ "reduce" \in WorkPcs
    BY <1>2 DEF WorkPcs
  <2> QED
    BY <1>2, <2>1, StepType
<1>3. CASE ~ (work[w].next > Total[JobOf(w)])
  <2> DEFINE comb == work[w].combined \cup ({work[w].next} \cap stored[JobOf(w)])
             new == [work[w] EXCEPT !.next = work[w].next + 1, !.combined = comb]
  <2>1. work[w].next \in Nat /\ work[w] \in WorkState
    BY <1>1, BusyType
  <2>2. comb \in SUBSET Nat /\ work[w].next + 1 \in Nat
    BY <2>1 DEF WorkState
  <2>3. /\ new \in WorkState /\ new.task = work[w].task /\ new.count = work[w].count
        /\ new.pc = work[w].pc /\ new.next = work[w].next + 1 /\ new.combined = comb
    BY <2>1, <2>2 DEF WorkState
  <2>4. work' = [work EXCEPT ![w] = new]
    BY <1>3, <2>1 DEF TypeOK
  <2> HIDE DEF new
  <2>5. work' \in [Workers -> WorkState] /\ work'[w] = new
        /\ \A x \in Workers \ {w} : work'[x] = work[x]
    BY <2>3, <2>4 DEF TypeOK
  <2> QED
    BY <1>3, <2>3, <2>5
<1> QED
  BY <1>2, <1>3

\* Every step keeps the types.
LEMMA TypeStep ==
    ASSUME TypeOK, TaskInv, [Next]_vars
    PROVE  TypeOK' /\ TaskInv'
<1> USE DEF WorkPcs
<1>1. ASSUME NEW w \in Workers, Pop(w) PROVE TypeOK' /\ TaskInv'
  <2>1. TypeOK'
    BY <1>1, PopEffect DEF Pop, TypeOK
  <2>2. TaskInv'
    BY <1>1, PopEffect DEF TaskInv, Busy, Holding, Counted
  <2> QED
    BY <2>1, <2>2
<1>2. ASSUME NEW w \in Workers, Busy(w), NEW pc \in WorkPcs, Step(w, pc)
      PROVE  work' \in [Workers -> WorkState] /\ TaskInv'
  BY <1>2, StepType DEF TaskInv, Busy, Holding, Counted
<1>3. ASSUME NEW w \in Workers, work' = [work EXCEPT ![w] = NoWork]
      PROVE  work' \in [Workers -> WorkState] /\ TaskInv'
  BY <1>3, ReleaseType DEF TaskInv, Busy, Holding, Counted
<1>4. ASSUME NEW w \in Workers, Store(w) PROVE TypeOK' /\ TaskInv'
  <2> USE <1>4 DEF Store
  <2>1. Busy(w)
    BY DEF Busy, Holding
  <2>2. stored' \in [Jobs -> SUBSET Nat]
    BY <2>1, BusyType DEF TypeOK
  <2> QED
    BY <1>2, <2>1, <2>2 DEF TypeOK
<1>5. ASSUME NEW w \in Workers, Count(w) PROVE TypeOK' /\ TaskInv'
  <2>1. TypeOK'
    BY <1>5, CountEffect DEF Count, TypeOK
  <2>2. Busy(w)
    BY <1>5 DEF Count, Busy, Holding
  <2>3. TaskInv'
    BY <1>5, <2>2, CountEffect DEF TaskInv, Busy, Holding, Counted
  <2> QED
    BY <2>1, <2>3
<1>6. ASSUME NEW w \in Workers, SetRunning(w) PROVE TypeOK' /\ TaskInv'
  <2> USE <1>6 DEF SetRunning
  <2>1. Busy(w)
    BY DEF Busy, Counted
  <2>2. hash' \in [Jobs -> Hash]
    BY <2>1, StateEffect
  <2> QED
    BY <1>2, <2>1, <2>2 DEF TypeOK
<1>7. ASSUME NEW w \in Workers, ReadMeta(w) PROVE TypeOK' /\ TaskInv'
  <2> USE <1>7 DEF ReadMeta
  <2>1. Busy(w)
    BY DEF Busy, Counted
  <2> QED
    BY <1>2, <1>3, <2>1 DEF TypeOK
<1>8. ASSUME NEW w \in Workers, Combine(w) PROVE TypeOK' /\ TaskInv'
  <2>1. TypeOK'
    BY <1>8, CombineEffect DEF Combine, TypeOK
  <2>2. Busy(w)
    BY <1>8 DEF Combine, Busy, Counted
  <2>3. TaskInv'
    BY <1>8, <2>2, CombineEffect DEF TaskInv, Busy, Holding, Counted
  <2> QED
    BY <2>1, <2>3
<1>9. ASSUME NEW w \in Workers, Reduce(w) PROVE TypeOK' /\ TaskInv'
  <2> USE <1>9 DEF Reduce
  <2>1. Busy(w)
    BY DEF Busy, Counted
  <2>2. work[w].combined \in SUBSET Nat
    BY <2>1, BusyType DEF WorkState
  <2>3. result' \in [Jobs -> (SUBSET Nat) \cup {None}]
    BY <2>1, <2>2, BusyType DEF TypeOK
  <2> QED
    BY <1>2, <2>1, <2>3 DEF TypeOK
<1>10. ASSUME NEW w \in Workers, SetCompleted(w) PROVE TypeOK' /\ TaskInv'
  <2> USE <1>10 DEF SetCompleted
  <2>1. Busy(w)
    BY DEF Busy, Counted
  <2>2. hash' \in [Jobs -> Hash]
    BY <2>1, StateEffect
  <2> QED
    BY <1>2, <2>1, <2>2 DEF TypeOK
<1>11. ASSUME NEW w \in Workers, Refresh(w) PROVE TypeOK' /\ TaskInv'
  BY <1>3, <1>11 DEF Refresh, TypeOK
<1>12. ASSUME NEW w \in Workers, Crash(w) PROVE TypeOK' /\ TaskInv'
  <2>1. work' \in [Workers -> WorkState] /\ TaskInv'
    BY <1>3, <1>12 DEF Crash
  <2>2. crashes' \in Nat
    BY <1>12 DEF Crash, TypeOK
  <2> QED
    BY <1>12, <2>1, <2>2 DEF Crash, TypeOK
<1>13. Absent \in Hash
  BY DEF Absent, Hash
<1>14. ASSUME NEW j \in Jobs, Submit(j) PROVE TypeOK' /\ TaskInv'
  <2> USE <1>14 DEF Submit
  <2>1. hash' \in [Jobs -> Hash]
    BY JobAssumption DEF TypeOK, Hash
  <2>2. queue' \in Seq(Task)
    BY TasksType DEF TypeOK
  <2> QED
    BY <2>1, <2>2 DEF TypeOK, TaskInv, Busy, Holding, Counted
<1>15. ASSUME NEW j \in Jobs, Age(j) PROVE TypeOK' /\ TaskInv'
  BY <1>13, <1>15 DEF Age, TypeOK, TaskInv, Busy, Holding, Counted
<1>16. ASSUME NEW j \in Jobs, ExpireKey(j) PROVE TypeOK' /\ TaskInv'
  BY <1>13, <1>16 DEF ExpireKey, TypeOK, TaskInv, Busy, Holding, Counted
<1>17. CASE UNCHANGED vars
  BY <1>17 DEF vars, TypeOK, TaskInv, Busy, Holding, Counted
<1> QED
  BY <1>1, <1>4, <1>5, <1>6, <1>7, <1>8, <1>9, <1>10, <1>11, <1>12, <1>14, <1>15,
     <1>16, <1>17 DEF Next, Work

-----------------------------------------------------------------------------
(* Counting shards *)

LEMMA ShardSubset ==
    ASSUME NEW j \in Jobs, NEW S \in SUBSET ShardsOf(j), NEW T \in SUBSET S
    PROVE  /\ IsFiniteSet(S) /\ IsFiniteSet(T)
           /\ Cardinality(S) \in Nat /\ Cardinality(T) \in Nat
           /\ Cardinality(T) <= Cardinality(S)
           /\ Cardinality(S) <= Total[j]
           /\ Cardinality(S) = Total[j] => S = ShardsOf(j)
<1>1. IsFiniteSet(ShardsOf(j)) /\ Cardinality(ShardsOf(j)) = Total[j]
  BY ShardsFinite
<1>2. IsFiniteSet(S) /\ Cardinality(S) <= Total[j]
      /\ (Cardinality(S) = Total[j] => S = ShardsOf(j))
  BY <1>1, FS_Subset
<1>3. IsFiniteSet(T) /\ Cardinality(T) <= Cardinality(S)
  BY <1>2, FS_Subset
<1> QED
  BY <1>2, <1>3, FS_CardinalityType

\* A worker that is not about to count, before and after, does not matter.
LEMMA SameInCount ==
    ASSUME NEW w \in Workers, NEW j \in Jobs,
           work[w].pc # "count", work'[w].pc # "count",
           \A x \in Workers \ {w} : work'[x] = work[x]
    PROVE  InCount(j)' = InCount(j)
BY DEF InCount, JobOf

\* After its count a worker disturbs neither the places of the tasks nor the
\* counts of others.
LEMMA AfterCount ==
    ASSUME IInv, NEW w \in Workers, Counted(w),
           \A x \in Workers \ {w} : work'[x] = work[x],
           \/ work'[w].pc = "idle"
           \/ Counted(w)' /\ work'[w].task = work[w].task /\ work'[w].count = work[w].count,
           UNCHANGED <<queue, stored, aged>>,
           \A j \in Jobs : hash'[j].total = hash[j].total /\ hash'[j].done = hash[j].done
    PROVE  /\ PlaceInv' /\ CountInv' /\ OwnCount'
           /\ \A j \in Jobs : Known(j)' => Known(j)
<1> USE DEF IInv
<1>1. /\ ~ Holding(w) /\ ~ Holding(w)'
      /\ work[w].pc # "count" /\ work'[w].pc # "count"
      /\ work[w].pc # "store" /\ work'[w].pc # "store"
  BY DEF Counted, Holding
<1>2. PlaceInv'
  BY <1>1 DEF PlaceInv, Holding, JobOf
<1>3. CountInv'
  BY <1>1, SameInCount DEF CountInv
<1>4. \A x \in Workers : Counted(x)' =>
         Counted(x) /\ work'[x].count = work[x].count /\ JobOf(x)' = JobOf(x)
               /\ JobOf(x) \in Jobs
  <2> SUFFICES ASSUME NEW x \in Workers, Counted(x)'
               PROVE  /\ Counted(x) /\ work'[x].count = work[x].count /\ JobOf(x)' = JobOf(x)
                      /\ JobOf(x) \in Jobs
    OBVIOUS
  <2>1. Counted(x) /\ work'[x].count = work[x].count /\ JobOf(x)' = JobOf(x)
    BY DEF Counted, JobOf
  <2> QED
    BY <2>1, BusyType DEF Busy
<1>5. OwnCount'
  BY <1>4 DEF OwnCount
<1>6. \A j \in Jobs : Known(j)' => Known(j)
  BY <1>1, <1>4 DEF Known, Busy, Holding, JobOf
<1> QED
  BY <1>2, <1>3, <1>5, <1>6

\* A worker that has a task keeps the job known.
LEMMA BusyKnown ==
    ASSUME IInv, NEW w \in Workers, Busy(w)
    PROVE  /\ Known(JobOf(w)) /\ JobOf(w) \in Jobs
           /\ ~ aged[JobOf(w)] => hash[JobOf(w)].total = Total[JobOf(w)]
                                  /\ ttl[JobOf(w)] # None
           /\ Total[JobOf(w)] \in Nat \ {0}
<1>1. JobOf(w) \in Jobs /\ Known(JobOf(w))
  BY BusyType DEF IInv, Known
<1> QED
  BY <1>1, JobAssumption DEF IInv, JobInv

\* A worker that gives its task up or dies, wherever it is, leaves the rest as it was.
LEMMA ReleaseKnown ==
    ASSUME NEW w \in Workers, work'[w].pc \in {"idle", "dead"},
           \A x \in Workers \ {w} : work'[x] = work[x],
           UNCHANGED <<queue, stored>>
    PROVE  \A j \in Jobs : Known(j)' => Known(j)
BY DEF Known, Busy, Holding, Counted, JobOf

LEMMA ReleaseInv ==
    ASSUME IInv, TypeOK', TaskInv', JobInv', NEW w \in Workers,
           work'[w].pc = "dead" \/ (work'[w].pc = "idle" /\ work'[w].next = 1
                                        /\ work'[w].combined = {}),
           \A x \in Workers \ {w} : work'[x] = work[x],
           UNCHANGED <<queue, hash, stored, result, aged>>
    PROVE  IInv'
<1> USE DEF IInv
<1>1. /\ work'[w].pc \in {"idle", "dead"}
      /\ work'[w].pc # "dead" => work'[w].next = 1 /\ work'[w].combined = {}
      /\ \A x \in Workers \ {w} : work'[x] = work[x]
  OBVIOUS
<1>2. ~ Holding(w)' /\ ~ Counted(w)' /\ ~ Reducing(w)'
  BY <1>1 DEF Holding, Counted, Reducing
<1>3. PlaceInv'
  BY <1>1, <1>2 DEF PlaceInv, Holding, JobOf
<1>4. CountInv'
  <2> SUFFICES ASSUME NEW j \in Jobs, ~ aged[j]
               PROVE  hash[j].done <= Cardinality(stored[j] \ InCount(j)')
    BY DEF CountInv
  <2> DEFINE S == stored[j] \ InCount(j)'
             T == stored[j] \ InCount(j)
  <2>1. InCount(j)' \subseteq InCount(j)
    BY <1>1 DEF InCount, JobOf
  <2>2. S \subseteq ShardsOf(j) /\ T \subseteq S
    BY <2>1 DEF JobInv
  <2>3. Cardinality(T) <= Cardinality(S) /\ Cardinality(T) \in Nat /\ Cardinality(S) \in Nat
    <3> HIDE DEF S, T
    <3> QED
      BY <2>2, ShardSubset
  <2>4. hash[j].done <= Cardinality(T) /\ hash[j].done \in Nat
    BY DEF CountInv, TypeOK, Hash
  <2> HIDE DEF T
  <2>5. hash[j].done <= Cardinality(S)
    <3> HIDE DEF S
    <3> QED
      BY <2>3, <2>4
  <2> QED
    BY <2>5
<1>5. OwnCount'
  BY <1>1, <1>2 DEF OwnCount, Counted, JobOf
<1>6. FreshInv'
  BY <1>1 DEF FreshInv
<1>7. ReduceInv'
  BY <1>1, <1>2 DEF ReduceInv, Reducing, JobOf
<1>8. OneReducer'
  BY <1>1, <1>2 DEF OneReducer, Reducing, JobOf
<1>9. ResultWhole' /\ CompletedHasResult'
  BY DEF ResultWhole, CompletedHasResult
<1> QED
  BY <1>3, <1>4, <1>5, <1>6, <1>7, <1>8, <1>9

-----------------------------------------------------------------------------
(* The steps of a worker that has counted its shard *)

LEMMA SetRunningInv ==
    ASSUME IInv, TypeOK', TaskInv', NEW w \in Workers, SetRunning(w)
    PROVE  IInv'
<1> USE DEF IInv
<1>1. Busy(w) /\ Counted(w) /\ ~ Reducing(w)
  BY DEF SetRunning, Busy, Counted, Reducing
<1>2. /\ work'[w].pc = "meta" /\ work'[w].task = work[w].task
      /\ work'[w].count = work[w].count
      /\ work'[w].next = work[w].next /\ work'[w].combined = work[w].combined
      /\ \A x \in Workers \ {w} : work'[x] = work[x]
  BY StepType DEF SetRunning, WorkPcs
<1>3. /\ hash'[JobOf(w)].state = "running"
      /\ \A j \in Jobs : hash'[j].total = hash[j].total /\ hash'[j].done = hash[j].done
      /\ \A j \in Jobs \ {JobOf(w)} : hash'[j] = hash[j]
  BY <1>1, StateEffect DEF SetRunning
<1>4. UNCHANGED <<queue, ttl, stored, result, aged>>
  BY DEF SetRunning
<1>5. Counted(w)' /\ ~ Reducing(w)'
  BY <1>2 DEF Counted, Reducing
<1>6. /\ PlaceInv' /\ CountInv' /\ OwnCount'
      /\ \A j \in Jobs : Known(j)' => Known(j)
  BY <1>1, <1>2, <1>3, <1>4, <1>5, AfterCount
<1>7. JobInv'
  BY <1>3, <1>4, <1>6 DEF JobInv
<1>8. ReduceInv' /\ FreshInv'
  BY <1>2, <1>4, <1>5 DEF ReduceInv, FreshInv, Reducing, JobOf, SetRunning
<1>9. ResultWhole'
  BY <1>4 DEF ResultWhole
<1>10. OneReducer'
  BY <1>2, <1>5 DEF OneReducer, Reducing, JobOf
<1>11. CompletedHasResult'
  BY <1>3, <1>4 DEF CompletedHasResult
<1> QED
  BY <1>6, <1>7, <1>8, <1>9, <1>10, <1>11

LEMMA ReadMetaInv ==
    ASSUME IInv, TypeOK', TaskInv', NEW w \in Workers, ReadMeta(w)
    PROVE  IInv'
<1> USE DEF IInv
<1>1. Busy(w) /\ Counted(w) /\ ~ Reducing(w)
  BY DEF ReadMeta, Busy, Counted, Reducing
<1>2. UNCHANGED <<queue, hash, ttl, stored, result, aged>>
  BY DEF ReadMeta
<1>3. CASE LastShard(w)
  <2>1. /\ work'[w].pc = "combine" /\ work'[w].task = work[w].task
        /\ work'[w].count = work[w].count /\ work'[w].next = work[w].next
        /\ work'[w].combined = work[w].combined
        /\ \A x \in Workers \ {w} : work'[x] = work[x]
    BY <1>3, StepType DEF ReadMeta, WorkPcs
  <2>2. Counted(w)'
    BY <2>1 DEF Counted
  <2>3. /\ PlaceInv' /\ CountInv' /\ OwnCount'
        /\ \A j \in Jobs : Known(j)' => Known(j)
    BY <1>1, <1>2, <2>1, <2>2, AfterCount
  <2>4. JobInv'
    BY <1>2, <2>3 DEF JobInv
  <2>5. JobOf(w) \in Jobs /\ Total[JobOf(w)] \in Nat \ {0}
    BY <1>1, BusyKnown
  <2>6. /\ work[w].count = hash[JobOf(w)].total /\ work[w].count > 0
        /\ hash[JobOf(w)].total = Total[JobOf(w)]
    BY <1>1, <1>3, <2>5 DEF LastShard, OwnCount, JobInv
  <2>7. ~ aged[JobOf(w)] => stored[JobOf(w)] = ShardsOf(JobOf(w))
    <3> SUFFICES ASSUME ~ aged[JobOf(w)] PROVE stored[JobOf(w)] = ShardsOf(JobOf(w))
      OBVIOUS
    <3> DEFINE S == stored[JobOf(w)] \ InCount(JobOf(w))
    <3>1. stored[JobOf(w)] \subseteq ShardsOf(JobOf(w)) /\ S \subseteq ShardsOf(JobOf(w))
      BY <2>5 DEF JobInv
    <3>2. work[w].count <= hash[JobOf(w)].done
      BY <1>1, <2>5, <2>6 DEF OwnCount
    <3>3. hash[JobOf(w)].done <= Cardinality(S)
      BY <2>5 DEF CountInv
    <3>4. hash[JobOf(w)].done \in Nat
      BY <2>5 DEF TypeOK, Hash
    <3>5. Cardinality(S) \in Nat /\ Cardinality(S) <= Total[JobOf(w)]
          /\ (Cardinality(S) = Total[JobOf(w)] => S = ShardsOf(JobOf(w)))
      BY <2>5, <3>1, ShardSubset
    <3>6. S = ShardsOf(JobOf(w))
      <4> HIDE DEF S
      <4> QED
        BY <2>5, <2>6, <3>2, <3>3, <3>4, <3>5
    <3> QED
      BY <3>1, <3>6
  <2>8. work[w].next = 1 /\ work[w].combined = {}
    BY <1>1 DEF FreshInv, ReadMeta
  <2>9. ReduceInv' /\ FreshInv'
    <3>1. {s \in ShardsOf(JobOf(w)) : s < 1} = {}
      BY <2>5 DEF ShardsOf
    <3> QED
      BY <1>2, <2>1, <2>6, <2>7, <2>8, <3>1 DEF ReduceInv, FreshInv, Reducing, JobOf
  <2>10. OneReducer'
    <3> SUFFICES ASSUME NEW v \in Workers \ {w}, Reducing(v), JobOf(v) = JobOf(w)
                 PROVE  FALSE
      <4>1. JobOf(w)' = JobOf(w) /\ \A x \in Workers \ {w} :
               JobOf(x)' = JobOf(x) /\ (Reducing(x)' <=> Reducing(x))
        BY <2>1 DEF Reducing, JobOf
      <4> QED
        BY <4>1 DEF OneReducer
    <3>1. work[v].count = Total[JobOf(w)] /\ Counted(v)
      BY DEF ReduceInv, Reducing, Counted
    <3> QED
      BY <1>1, <2>5, <2>6, <3>1 DEF OwnCount
  <2>11. ResultWhole' /\ CompletedHasResult'
    BY <1>2 DEF ResultWhole, CompletedHasResult
  <2> QED
    BY <2>3, <2>4, <2>9, <2>10, <2>11
<1>4. CASE ~ LastShard(w)
  <2>1. work' = [work EXCEPT ![w] = NoWork]
    BY <1>4 DEF ReadMeta
  <2>2. JobInv'
    BY <1>2, <2>1, ReleaseType, ReleaseKnown DEF JobInv
  <2> QED
    BY <1>2, <2>1, <2>2, ReleaseType, ReleaseInv
<1> QED
  BY <1>3, <1>4

LEMMA CombineInv ==
    ASSUME IInv, TypeOK', TaskInv', NEW w \in Workers, Combine(w)
    PROVE  IInv'
<1> USE DEF IInv
<1>1. Busy(w) /\ Counted(w) /\ Reducing(w)
  BY DEF Combine, Busy, Counted, Reducing
<1>2. UNCHANGED <<queue, hash, ttl, stored, result, aged>>
  BY DEF Combine
<1>3. /\ work'[w].task = work[w].task /\ work'[w].count = work[w].count
      /\ \A x \in Workers \ {w} : work'[x] = work[x]
      /\ work'[w].pc \in {"combine", "reduce"}
  BY CombineEffect
<1>4. Counted(w)' /\ Reducing(w)'
  BY <1>3 DEF Counted, Reducing
<1>5. /\ PlaceInv' /\ CountInv' /\ OwnCount'
      /\ \A j \in Jobs : Known(j)' => Known(j)
  BY <1>1, <1>2, <1>3, <1>4, AfterCount
<1>6. JobInv'
  BY <1>2, <1>5 DEF JobInv
<1>7. ReduceInv'
  <2> DEFINE j == JobOf(w)
  <2>1. j \in Jobs /\ work[w].next \in Nat /\ Total[j] \in Nat \ {0}
    BY <1>1, BusyType, BusyKnown
  <2>2. \A x \in Workers : JobOf(x)' = JobOf(x)
    BY <1>3 DEF JobOf
  <2>3. ~ aged[j] => work'[w].combined = {n \in ShardsOf(j) : n < work'[w].next}
    <3> SUFFICES ASSUME ~ aged[j]
                 PROVE  work'[w].combined = {n \in ShardsOf(j) : n < work'[w].next}
      OBVIOUS
    <3>1. /\ stored[j] = ShardsOf(j)
          /\ work[w].combined = {n \in ShardsOf(j) : n < work[w].next}
      BY <1>1 DEF ReduceInv
    <3>2. CASE work'[w].next = work[w].next /\ work'[w].combined = work[w].combined
      BY <3>1, <3>2
    <3>3. CASE /\ work'[w].next = work[w].next + 1
               /\ work'[w].combined = work[w].combined
                                        \cup ({work[w].next} \cap stored[j])
      BY <2>1, <3>1, <3>3 DEF ShardsOf
    <3> QED
      BY <3>2, <3>3, CombineEffect
  <2>4. work'[w].pc = "reduce" => work'[w].next > Total[j]
    BY CombineEffect
  <2>5. work'[w].count = Total[j]
    BY <1>1, <1>3 DEF ReduceInv
  <2> HIDE DEF j
  <2>6. \A x \in Workers \ {w} : work'[x] = work[x] /\ (Reducing(x)' <=> Reducing(x))
    BY <1>3 DEF Reducing
  <2>7. /\ stored' = stored /\ aged' = aged /\ result' = result
        /\ ~ aged[j] => stored[j] = ShardsOf(j)
    BY <1>1, <1>2 DEF ReduceInv, j
  <2>8. JobOf(w)' = j /\ JobOf(w) = j
    BY <2>2 DEF j
  <2> QED
    BY <1>3, <2>2, <2>3, <2>4, <2>5, <2>6, <2>7, <2>8 DEF ReduceInv
<1>8. FreshInv'
  BY <1>3 DEF FreshInv
<1>9. OneReducer'
  BY <1>1, <1>3 DEF OneReducer, Reducing, JobOf
<1>10. ResultWhole' /\ CompletedHasResult'
  BY <1>2 DEF ResultWhole, CompletedHasResult
<1> QED
  BY <1>5, <1>6, <1>7, <1>8, <1>9, <1>10

LEMMA ReduceStepInv ==
    ASSUME IInv, TypeOK', TaskInv', NEW w \in Workers, Reduce(w)
    PROVE  IInv'
<1> USE DEF IInv
<1>1. Busy(w) /\ Counted(w) /\ Reducing(w) /\ work[w].pc = "reduce"
  BY DEF Reduce, Busy, Counted, Reducing
<1>2. UNCHANGED <<queue, hash, ttl, stored, aged>>
  BY DEF Reduce
<1>3. CASE JobOf(w) \in Unreducible
  <2>1. /\ work'[w].pc = "dead" /\ \A x \in Workers \ {w} : work'[x] = work[x]
        /\ result' = result
    BY <1>3, StepType DEF Reduce, WorkPcs
  <2>2. JobInv'
    BY <1>2, <2>1, ReleaseKnown DEF JobInv
  <2> QED
    BY <1>2, <2>1, <2>2, ReleaseInv
<1>4. CASE JobOf(w) \notin Unreducible
  <2> DEFINE j == JobOf(w)
  <2>1. /\ work'[w].pc = "complete" /\ work'[w].task = work[w].task
        /\ work'[w].count = work[w].count /\ work'[w].next = work[w].next
        /\ work'[w].combined = work[w].combined
        /\ \A x \in Workers \ {w} : work'[x] = work[x]
    BY <1>4, StepType DEF Reduce, WorkPcs
  <2>2. Counted(w)' /\ Reducing(w)'
    BY <2>1 DEF Counted, Reducing
  <2>3. /\ PlaceInv' /\ CountInv' /\ OwnCount'
        /\ \A k \in Jobs : Known(k)' => Known(k)
    BY <1>1, <1>2, <2>1, <2>2, AfterCount
  <2>4. JobInv'
    BY <1>2, <2>3 DEF JobInv
  <2>5. j \in Jobs /\ work[w].next \in Nat /\ Total[j] \in Nat \ {0}
    BY <1>1, BusyType, BusyKnown
  <2>6. result'[j] = work[w].combined /\ \A k \in Jobs \ {j} : result'[k] = result[k]
    BY <1>4, <2>5 DEF Reduce, TypeOK
  <2>7. ~ aged[j] => result'[j] = ShardsOf(j) /\ result'[j] # None
    <3> SUFFICES ASSUME ~ aged[j] PROVE result'[j] = ShardsOf(j) /\ result'[j] # None
      OBVIOUS
    <3>1. work[w].combined = {n \in ShardsOf(j) : n < work[w].next}
          /\ work[w].next > Total[j]
      BY <1>1 DEF ReduceInv
    <3>2. work[w].combined = ShardsOf(j)
      BY <2>5, <3>1 DEF ShardsOf
    <3> QED
      BY <2>5, <2>6, <3>2, NoneAssumption
  <2>8. ResultWhole'
    BY <1>2, <2>6, <2>7 DEF ResultWhole
  <2>9. CompletedHasResult'
    BY <1>2, <2>6, <2>7 DEF CompletedHasResult
  <2>10. ReduceInv'
    <3>1. \A x \in Workers : JobOf(x)' = JobOf(x) /\ (Reducing(x)' <=> Reducing(x))
      BY <1>1, <2>1, <2>2 DEF JobOf, Reducing
    <3>2. \A x \in Workers : Reducing(x) => JobOf(x) \in Jobs
      BY BusyType DEF Busy, Counted, Reducing
    <3>3. ASSUME NEW x \in Workers, work'[x].pc \in {"complete", "refresh"},
                 ~ aged[JobOf(x)]
          PROVE  result'[JobOf(x)] # None
      <4>1. CASE JobOf(x) = j
        BY <2>7, <3>3, <4>1
      <4>2. CASE JobOf(x) # j
        BY <2>1, <2>6, <3>2, <3>3, <4>2 DEF ReduceInv, Reducing
      <4> QED
        BY <4>1, <4>2
    <3>4. \A x \in Workers :
             /\ work'[x].count = work[x].count /\ work'[x].next = work[x].next
             /\ work'[x].combined = work[x].combined
             /\ (work'[x].pc = "reduce" => work[x].pc = "reduce")
      BY <2>1
    <3> QED
      BY <1>2, <3>1, <3>3, <3>4 DEF ReduceInv
  <2>11. FreshInv'
    BY <2>1 DEF FreshInv
  <2>12. OneReducer'
    BY <1>1, <2>1 DEF OneReducer, Reducing, JobOf
  <2> QED
    BY <2>3, <2>4, <2>8, <2>9, <2>10, <2>11, <2>12
<1> QED
  BY <1>3, <1>4

LEMMA SetCompletedInv ==
    ASSUME IInv, TypeOK', TaskInv', NEW w \in Workers, SetCompleted(w)
    PROVE  IInv'
<1> USE DEF IInv
<1>1. Busy(w) /\ Counted(w) /\ Reducing(w) /\ work[w].pc = "complete"
  BY DEF SetCompleted, Busy, Counted, Reducing
<1>2. /\ work'[w].pc = "refresh" /\ work'[w].task = work[w].task
      /\ work'[w].count = work[w].count /\ work'[w].next = work[w].next
      /\ work'[w].combined = work[w].combined
      /\ \A x \in Workers \ {w} : work'[x] = work[x]
  BY StepType DEF SetCompleted, WorkPcs
<1>3. /\ \A j \in Jobs : hash'[j].total = hash[j].total /\ hash'[j].done = hash[j].done
      /\ \A j \in Jobs \ {JobOf(w)} : hash'[j] = hash[j]
  BY <1>1, StateEffect DEF SetCompleted
<1>4. UNCHANGED <<queue, ttl, stored, result, aged>>
  BY DEF SetCompleted
<1>5. Counted(w)' /\ Reducing(w)'
  BY <1>2 DEF Counted, Reducing
<1>6. /\ PlaceInv' /\ CountInv' /\ OwnCount'
      /\ \A j \in Jobs : Known(j)' => Known(j)
  BY <1>1, <1>2, <1>3, <1>4, <1>5, AfterCount
<1>7. JobInv'
  BY <1>3, <1>4, <1>6 DEF JobInv
<1>8. ReduceInv'
  BY <1>1, <1>2, <1>4 DEF ReduceInv, Reducing, JobOf
<1>9. FreshInv'
  BY <1>2 DEF FreshInv
<1>10. ResultWhole'
  BY <1>4 DEF ResultWhole
<1>11. OneReducer'
  BY <1>1, <1>2 DEF OneReducer, Reducing, JobOf
<1>12. CompletedHasResult'
  <2>1. ~ aged[JobOf(w)] => result[JobOf(w)] # None
    BY <1>1 DEF ReduceInv
  <2> QED
    BY <1>3, <1>4, <2>1 DEF CompletedHasResult
<1> QED
  BY <1>6, <1>7, <1>8, <1>9, <1>10, <1>11, <1>12

LEMMA RefreshInv ==
    ASSUME IInv, TypeOK', TaskInv', NEW w \in Workers, Refresh(w)
    PROVE  IInv'
<1> USE DEF IInv
<1>1. Busy(w)
  BY DEF Refresh, Busy, Counted
<1>2. /\ work' = [work EXCEPT ![w] = NoWork]
      /\ UNCHANGED <<queue, hash, stored, result, aged>>
  BY DEF Refresh
<1>3. /\ ttl'[JobOf(w)] = IF hash[JobOf(w)] = Absent THEN None ELSE "refresh"
      /\ \A j \in Jobs \ {JobOf(w)} : ttl'[j] = ttl[j]
  BY <1>1, BusyKnown DEF Refresh, TypeOK
<1>4. \A j \in Jobs : Known(j)' => Known(j)
  BY <1>2, ReleaseType, ReleaseKnown
<1>5. ~ aged[JobOf(w)] => hash[JobOf(w)].total # 0 /\ hash[JobOf(w)] # Absent
  BY <1>1, BusyKnown DEF Absent
<1>6. JobInv'
  BY <1>2, <1>3, <1>4, <1>5, NoneAssumption DEF JobInv
<1> QED
  BY <1>2, <1>6, ReleaseType, ReleaseInv

LEMMA CrashInv ==
    ASSUME IInv, TypeOK', TaskInv', NEW w \in Workers, Crash(w)
    PROVE  IInv'
<1>1. /\ work' = [work EXCEPT ![w] = NoWork]
      /\ UNCHANGED <<queue, hash, ttl, stored, result, aged>>
  BY DEF Crash
<1>2. JobInv'
  BY <1>1, ReleaseType, ReleaseKnown DEF IInv, JobInv
<1> QED
  BY <1>1, <1>2, ReleaseType, ReleaseInv DEF IInv

-----------------------------------------------------------------------------
(* The steps of a worker up to its count *)

LEMMA PopInv ==
    ASSUME IInv, TypeOK', TaskInv', NEW w \in Workers, Pop(w)
    PROVE  IInv'
<1> USE DEF IInv
<1>1. ~ Busy(w) /\ ~ Reducing(w) /\ work[w].pc = "idle"
  BY DEF Pop, Busy, Holding, Counted, Reducing
<1>2. UNCHANGED <<hash, ttl, stored, result, aged>>
  BY DEF Pop
<1>3. /\ Len(queue) \in Nat \ {0} /\ queue[1] \in Task
      /\ Len(queue') = Len(queue) - 1
      /\ \A i \in 1 .. Len(queue') : queue'[i] = queue[i + 1]
      /\ work'[w].pc = "store" /\ work'[w].task = queue[1]
      /\ \A x \in Workers \ {w} : work'[x] = work[x]
  BY PopEffect
<1>4. Holding(w)' /\ ~ Counted(w)' /\ ~ Reducing(w)' /\ JobOf(w)' = queue[1].job
  BY <1>3 DEF Holding, Counted, Reducing, JobOf
<1>5. \A i \in 1 .. Len(queue') : i + 1 \in 1 .. Len(queue) /\ i + 1 # 1
  BY <1>3
<1>6. \A j \in Jobs : Known(j)' => Known(j)
  <2> SUFFICES ASSUME NEW j \in Jobs, Known(j)' PROVE Known(j)
    OBVIOUS
  <2>1. CASE \E i \in 1 .. Len(queue') : queue'[i].job = j
    BY <1>3, <1>5, <2>1 DEF Known
  <2>2. CASE \E x \in Workers : Busy(x)' /\ JobOf(x)' = j
    <3>1. PICK x \in Workers : Busy(x)' /\ JobOf(x)' = j
      BY <2>2
    <3>2. CASE x = w
      BY <1>3, <1>4, <3>1, <3>2, 1 \in 1 .. Len(queue) DEF Known
    <3>3. CASE x # w
      BY <1>3, <3>1, <3>3 DEF Known, Busy, Holding, Counted, JobOf
    <3> QED
      BY <3>2, <3>3
  <2> QED
    BY <1>2, <2>1, <2>2 DEF Known
<1>7. JobInv'
  BY <1>2, <1>6 DEF JobInv
<1>8. PlaceInv'
  <2>1. 1 \in 1 .. Len(queue)
    BY <1>3
  <2>2. \A i, k \in 1 .. Len(queue') : i # k => queue'[i] # queue'[k]
    BY <1>3, <1>5 DEF PlaceInv
  <2>3. \A i \in 1 .. Len(queue') : queue'[i].shard \notin stored'[queue'[i].job]
    BY <1>2, <1>3, <1>5 DEF PlaceInv
  <2>4. \A x \in Workers \ {w} : (Holding(x)' <=> Holding(x)) /\ JobOf(x)' = JobOf(x)
    BY <1>3 DEF Holding, JobOf
  <2>5. \A i \in 1 .. Len(queue'), x \in Workers :
           Holding(x)' => queue'[i] # work'[x].task
    BY <1>3, <1>5, <2>1, <2>4 DEF PlaceInv
  <2>6. \A v, x \in Workers :
           v # x /\ Holding(v)' /\ Holding(x)' => work'[v].task # work'[x].task
    BY <1>3, <2>1, <2>4 DEF PlaceInv
  <2>7. \A x \in Workers :
           work'[x].pc = "store" => work'[x].task.shard \notin stored'[JobOf(x)']
    BY <1>2, <1>3, <1>4, <2>1, <2>4 DEF PlaceInv
  <2>8. \A x \in Workers :
           work'[x].pc = "count" /\ ~ aged'[JobOf(x)']
              => work'[x].task.shard \in stored'[JobOf(x)']
    BY <1>2, <1>3, <2>4 DEF PlaceInv
  <2> QED
    BY <2>2, <2>3, <2>5, <2>6, <2>7, <2>8 DEF PlaceInv
<1>9. CountInv'
  BY <1>1, <1>2, <1>3, SameInCount DEF CountInv
<1>10. OwnCount'
  BY <1>2, <1>3, <1>4 DEF OwnCount, Counted, JobOf
<1>11. FreshInv'
  <2>1. work'[w].next = 1 /\ work'[w].combined = {}
    BY DEF Pop, TypeOK, NoWork
  <2> QED
    BY <1>3, <2>1 DEF FreshInv
<1>12. ReduceInv'
  BY <1>2, <1>3, <1>4 DEF ReduceInv, Reducing, JobOf
<1>13. OneReducer'
  BY <1>3, <1>4 DEF OneReducer, Reducing, JobOf
<1>14. ResultWhole' /\ CompletedHasResult'
  BY <1>2 DEF ResultWhole, CompletedHasResult
<1> QED
  BY <1>7, <1>8, <1>9, <1>10, <1>11, <1>12, <1>13, <1>14

LEMMA StoreInv ==
    ASSUME IInv, TypeOK', TaskInv', NEW w \in Workers, Store(w)
    PROVE  IInv'
<1> USE DEF IInv
<1> DEFINE t == work[w].task
<1>1. Busy(w) /\ Holding(w) /\ ~ Counted(w) /\ ~ Reducing(w) /\ work[w].pc = "store"
  BY DEF Store, Busy, Holding, Counted, Reducing
<1>2. UNCHANGED <<queue, hash, ttl, result, aged>>
  BY DEF Store
<1>3. /\ work'[w].pc = "count" /\ work'[w].task = t
      /\ work'[w].next = work[w].next /\ work'[w].combined = work[w].combined
      /\ \A x \in Workers \ {w} : work'[x] = work[x]
  BY StepType DEF Store, WorkPcs
<1>4. /\ t \in Task /\ t.job \in Jobs /\ t.shard \in ShardsOf(t.job)
      /\ t = [job |-> t.job, shard |-> t.shard] /\ JobOf(w) = t.job
  BY <1>1, BusyType DEF JobOf
<1>5. /\ stored'[t.job] = stored[t.job] \cup {t.shard}
      /\ \A j \in Jobs \ {t.job} : stored'[j] = stored[j]
  BY <1>4 DEF Store, TypeOK
<1>6. t.shard \notin stored[t.job]
  BY <1>1, <1>4 DEF PlaceInv
<1>7. \A u \in Task : u # t => ~ (u.job = t.job /\ u.shard = t.shard)
  BY <1>4, TaskType
<1> HIDE DEF t
<1>8. /\ \A x \in Workers : JobOf(x)' = JobOf(x) /\ work'[x].task = work[x].task
      /\ \A x \in Workers : (Busy(x)' <=> Busy(x)) /\ (Holding(x)' <=> Holding(x))
      /\ \A x \in Workers : (Counted(x)' <=> Counted(x)) /\ (Reducing(x)' <=> Reducing(x))
      /\ \A x \in Workers : Counted(x) => x # w
  BY <1>1, <1>3 DEF JobOf, Busy, Holding, Counted, Reducing, t
<1>9. \A j \in Jobs : Known(j)' => Known(j)
  BY <1>1, <1>2, <1>4, <1>5, <1>8 DEF Known
<1>10. JobInv'
  <2>1. \A j \in Jobs : stored'[j] \subseteq ShardsOf(j)
    BY <1>4, <1>5 DEF JobInv
  <2> QED
    BY <1>2, <1>9, <2>1 DEF JobInv
<1>11. PlaceInv'
  <2>1. \A i \in 1 .. Len(queue) : queue[i] \in Task /\ queue[i].job \in Jobs
    BY TaskType DEF TypeOK
  <2>2. \A i \in 1 .. Len(queue) : queue[i] # t
    BY <1>1 DEF PlaceInv, t
  <2>3. \A i \in 1 .. Len(queue) : queue[i].shard \notin stored'[queue[i].job]
    BY <1>5, <1>7, <2>1, <2>2 DEF PlaceInv
  <2>4. \A x \in Workers : work'[x].pc = "store" =>
           /\ x # w /\ work[x].pc = "store" /\ work[x].task # t
           /\ work[x].task \in Task /\ JobOf(x) \in Jobs /\ JobOf(x) = work[x].task.job
    <3> SUFFICES ASSUME NEW x \in Workers, work'[x].pc = "store"
                 PROVE  /\ x # w /\ work[x].pc = "store" /\ work[x].task # t
                        /\ work[x].task \in Task /\ JobOf(x) \in Jobs
                        /\ JobOf(x) = work[x].task.job
      OBVIOUS
    <3>1. x # w /\ work[x].pc = "store" /\ Holding(x) /\ Busy(x)
      BY <1>3 DEF Holding, Busy
    <3> QED
      BY <1>1, <3>1, BusyType DEF PlaceInv, t, JobOf
  <2>5. \A x \in Workers :
           work'[x].pc = "store" => work[x].task.shard \notin stored'[JobOf(x)]
    BY <1>5, <1>7, <2>4 DEF PlaceInv
  <2>6. \A x \in Workers :
           work'[x].pc = "count" /\ ~ aged[JobOf(x)]
              => work[x].task.shard \in stored'[JobOf(x)]
    <3> SUFFICES ASSUME NEW x \in Workers, work'[x].pc = "count", ~ aged[JobOf(x)]
                 PROVE  work[x].task.shard \in stored'[JobOf(x)]
      OBVIOUS
    <3>1. CASE x = w
      BY <1>4, <1>5, <3>1 DEF t, JobOf
    <3>2. CASE x # w
      <4>1. work[x].pc = "count" /\ JobOf(x) \in Jobs
        BY <1>3, <3>2, BusyType DEF Busy, Holding
      <4> QED
        BY <1>5, <4>1 DEF PlaceInv
    <3> QED
      BY <3>1, <3>2
  <2> QED
    BY <1>2, <1>8, <2>3, <2>5, <2>6 DEF PlaceInv
<1>12. CountInv'
  <2> SUFFICES ASSUME NEW j \in Jobs, ~ aged[j]
               PROVE  hash[j].done <= Cardinality(stored'[j] \ InCount(j)')
    BY <1>2 DEF CountInv
  <2>1. CASE j = t.job
    <3>1. InCount(j)' = InCount(j) \cup {t.shard}
      BY <1>1, <1>3, <1>4, <2>1 DEF InCount, JobOf, t
    <3>2. stored'[j] \ InCount(j)' = stored[j] \ InCount(j)
      BY <1>5, <1>6, <2>1, <3>1
    <3> QED
      BY <3>2 DEF CountInv
  <2>2. CASE j # t.job
    <3>1. InCount(j)' = InCount(j)
      BY <1>1, <1>3, <1>4, <2>2 DEF InCount, JobOf, t
    <3> QED
      BY <1>5, <2>2, <3>1 DEF CountInv
  <2> QED
    BY <2>1, <2>2
<1>13. OwnCount'
  BY <1>2, <1>3, <1>8 DEF OwnCount
<1>14. FreshInv'
  BY <1>1, <1>3 DEF FreshInv
<1>15. ReduceInv'
  <2>1. \A x \in Workers : Reducing(x) => x # w /\ JobOf(x) \in Jobs
    BY <1>1, BusyType DEF Busy, Counted, Reducing
  <2>2. \A x \in Workers : Reducing(x) /\ ~ aged[JobOf(x)] => stored'[JobOf(x)] = ShardsOf(JobOf(x))
    <3> SUFFICES ASSUME NEW x \in Workers, Reducing(x), ~ aged[JobOf(x)]
                 PROVE  stored'[JobOf(x)] = ShardsOf(JobOf(x))
      OBVIOUS
    <3>1. stored[JobOf(x)] = ShardsOf(JobOf(x)) /\ JobOf(x) \in Jobs
      BY <2>1 DEF ReduceInv
    <3>2. CASE JobOf(x) = t.job
      BY <1>4, <1>5, <3>1, <3>2
    <3>3. CASE JobOf(x) # t.job
      BY <1>5, <3>1, <3>3
    <3> QED
      BY <3>2, <3>3
  <2> QED
    BY <1>2, <1>3, <1>8, <2>1, <2>2 DEF ReduceInv, Reducing
<1>16. OneReducer'
  BY <1>8 DEF OneReducer
<1>17. ResultWhole' /\ CompletedHasResult'
  BY <1>2 DEF ResultWhole, CompletedHasResult
<1> QED
  BY <1>10, <1>11, <1>12, <1>13, <1>14, <1>15, <1>16, <1>17

LEMMA CountStepInv ==
    ASSUME IInv, TypeOK', TaskInv', NEW w \in Workers, Count(w)
    PROVE  IInv'
<1> USE DEF IInv
<1> DEFINE t == work[w].task
           d == hash[t.job].done
<1>1. Busy(w) /\ Holding(w) /\ ~ Counted(w) /\ ~ Reducing(w) /\ work[w].pc = "count"
  BY DEF Count, Busy, Holding, Counted, Reducing
<1>2. UNCHANGED <<queue, ttl, stored, result, aged>>
  BY DEF Count
<1>3. /\ t \in Task /\ t.job \in Jobs /\ t.shard \in ShardsOf(t.job)
      /\ t = [job |-> t.job, shard |-> t.shard] /\ JobOf(w) = t.job
  BY <1>1, BusyType DEF JobOf
<1>4. hash[t.job] \in Hash /\ d \in Nat
  BY <1>3 DEF TypeOK, Hash
<1>5. /\ hash'[t.job].done = d + 1 /\ hash'[t.job].total = hash[t.job].total
      /\ hash'[t.job].state = hash[t.job].state
      /\ \A j \in Jobs \ {t.job} : hash'[j] = hash[j]
  <2>1. /\ hash'[t.job] = [hash[t.job] EXCEPT !.done = @ + 1]
        /\ \A j \in Jobs \ {t.job} : hash'[j] = hash[j]
    BY <1>3, CountEffect
  <2> QED
    BY <1>4, <2>1 DEF Hash
<1>6. /\ work'[w].pc = "running" /\ work'[w].task = t /\ work'[w].count = d + 1
      /\ \A x \in Workers \ {w} : work'[x] = work[x]
  BY <1>3, CountEffect
<1> HIDE DEF t, d
<1>7. /\ \A x \in Workers : JobOf(x)' = JobOf(x) /\ work'[x].task = work[x].task
      /\ \A x \in Workers : (Busy(x)' <=> Busy(x)) /\ (Reducing(x)' <=> Reducing(x))
      /\ \A x \in Workers : Holding(x)' <=> Holding(x) /\ x # w
      /\ \A x \in Workers : Counted(x)' <=> Counted(x) \/ x = w
  BY <1>1, <1>6 DEF JobOf, Busy, Holding, Counted, Reducing, t
<1>8. \A j \in Jobs : Known(j)' => Known(j)
  BY <1>2, <1>7 DEF Known
<1>9. JobInv'
  BY <1>2, <1>5, <1>8 DEF JobInv
<1>10. PlaceInv'
  <2>1. \A x \in Workers : /\ work'[x].pc = "store" => work[x].pc = "store"
                           /\ work'[x].pc = "count" => work[x].pc = "count"
    BY <1>6
  <2> QED
    BY <1>2, <1>7, <2>1 DEF PlaceInv
<1>11. CountInv'
  <2> SUFFICES ASSUME NEW j \in Jobs, ~ aged[j]
               PROVE  hash'[j].done <= Cardinality(stored[j] \ InCount(j)')
    BY <1>2 DEF CountInv
  <2>1. CASE j = t.job
    <3> DEFINE S == stored[j] \ InCount(j)
               T == stored[j] \ InCount(j)'
    <3>1. t.shard \in InCount(j) /\ t.shard \in stored[j]
      BY <1>1, <1>3, <2>1 DEF InCount, PlaceInv, t
    <3>2. t.shard \notin InCount(j)'
      <4> SUFFICES ASSUME NEW x \in Workers, work'[x].pc = "count", JobOf(x)' = j,
                          work'[x].task.shard = t.shard
                   PROVE  FALSE
        BY DEF InCount
      <4>1. x # w /\ work[x].pc = "count" /\ JobOf(x) = j /\ work[x].task.shard = t.shard
        BY <1>6, <1>7
      <4>2. Holding(x) /\ Busy(x)
        BY <4>1 DEF Holding, Busy
      <4>3. work[x].task = [job |-> j, shard |-> t.shard]
        BY <4>1, <4>2, BusyType
      <4>4. work[x].task = work[w].task
        BY <1>3, <2>1, <4>3 DEF t
      <4> QED
        BY <1>1, <4>1, <4>2, <4>4 DEF PlaceInv
    <3>3. InCount(j)' \subseteq InCount(j)
      BY <1>6, <1>7 DEF InCount
    <3>4. S \cup {t.shard} \subseteq T /\ t.shard \notin S /\ T \subseteq ShardsOf(j)
      BY <3>1, <3>2, <3>3 DEF JobInv
    <3> HIDE DEF S, T
    <3>5. IsFiniteSet(S) /\ Cardinality(S) \in Nat
      BY <3>4, ShardSubset
    <3>6. Cardinality(S \cup {t.shard}) = Cardinality(S) + 1
      BY <3>4, <3>5, FS_AddElement
    <3>7. Cardinality(S \cup {t.shard}) <= Cardinality(T) /\ Cardinality(T) \in Nat
      BY <3>4, ShardSubset
    <3>8. d <= Cardinality(S)
      BY <2>1 DEF CountInv, S, d
    <3>9. d + 1 <= Cardinality(T)
      BY <1>4, <3>5, <3>6, <3>7, <3>8
    <3> QED
      BY <1>5, <2>1, <3>9 DEF T
  <2>2. CASE j # t.job
    <3>1. InCount(j)' = InCount(j)
      BY <1>3, <1>6, <1>7, <2>2 DEF InCount
    <3> QED
      BY <1>5, <2>2, <3>1 DEF CountInv
  <2> QED
    BY <2>1, <2>2
<1>12. OwnCount'
  <2>1. \A x \in Workers : Counted(x)' => JobOf(x) \in Jobs /\ work[x].count \in Nat
    BY <1>1, <1>7, BusyType DEF Busy
  <2>2. \A x \in Workers : Counted(x) => x # w /\ work'[x].count = work[x].count
    BY <1>1, <1>6
  <2>3. \A j \in Jobs : hash'[j].total = hash[j].total /\ hash'[j].done >= hash[j].done
                        /\ hash[j].done \in Nat
    <3> SUFFICES ASSUME NEW j \in Jobs
                 PROVE  /\ hash'[j].total = hash[j].total
                        /\ hash'[j].done >= hash[j].done /\ hash[j].done \in Nat
      OBVIOUS
    <3>1. hash[j] \in Hash /\ hash[j].done \in Nat
      BY DEF TypeOK, Hash
    <3>2. CASE j = t.job
      BY <1>4, <1>5, <3>1, <3>2 DEF d
    <3>3. CASE j # t.job
      BY <1>5, <3>1, <3>3
    <3> QED
      BY <3>2, <3>3
  <2>4. \A x \in Workers : Counted(x)' => work'[x].count > 0
    BY <1>4, <1>6, <1>7, <2>2 DEF OwnCount
  <2>5. \A x \in Workers :
           Counted(x)' /\ hash'[JobOf(x)].total # 0 => work'[x].count <= hash'[JobOf(x)].done
    <3> SUFFICES ASSUME NEW x \in Workers, Counted(x)', hash'[JobOf(x)].total # 0
                 PROVE  work'[x].count <= hash'[JobOf(x)].done
      OBVIOUS
    <3>1. CASE x = w
      BY <1>3, <1>4, <1>5, <1>6, <3>1
    <3>2. CASE x # w
      <4>1. Counted(x) /\ JobOf(x) \in Jobs /\ work[x].count \in Nat
        BY <1>7, <2>1, <3>2
      <4>2. work[x].count <= hash[JobOf(x)].done
        BY <2>3, <4>1 DEF OwnCount
      <4>3. /\ hash'[JobOf(x)].done >= hash[JobOf(x)].done
            /\ hash[JobOf(x)].done \in Nat /\ hash'[JobOf(x)].done \in Nat
        BY <2>3, <4>1 DEF TypeOK, Hash
      <4> QED
        BY <2>2, <4>1, <4>2, <4>3
    <3> QED
      BY <3>1, <3>2
  <2>6. ASSUME NEW x \in Workers \ {w}, Counted(x), JobOf(x) = t.job,
               hash[t.job].total # 0
        PROVE  work[x].count # d + 1
    <3>1. work[x].count <= d /\ work[x].count \in Nat
      BY <1>7, <2>1, <2>6 DEF OwnCount, d
    <3> QED
      BY <1>4, <3>1
  <2>7. \A v, x \in Workers :
           /\ v # x /\ Counted(v)' /\ Counted(x)'
           /\ JobOf(v) = JobOf(x) /\ hash'[JobOf(v)].total # 0
           => work'[v].count # work'[x].count
    <3> SUFFICES ASSUME NEW v \in Workers, NEW x \in Workers,
                        v # x, Counted(v)', Counted(x)',
                        JobOf(v) = JobOf(x), hash'[JobOf(v)].total # 0
                 PROVE  work'[v].count # work'[x].count
      OBVIOUS
    <3>1. hash[JobOf(v)].total # 0
      BY <2>1, <2>3
    <3>2. CASE v = w
      BY <1>3, <1>6, <1>7, <2>2, <2>6, <3>1, <3>2
    <3>3. CASE x = w
      BY <1>3, <1>6, <1>7, <2>2, <2>6, <3>1, <3>3
    <3>4. CASE v # w /\ x # w
      BY <1>7, <2>2, <3>1, <3>4 DEF OwnCount
    <3> QED
      BY <3>2, <3>3, <3>4
  <2> QED
    BY <1>7, <2>4, <2>5, <2>7 DEF OwnCount
<1>13. FreshInv'
  <2>1. work'[w].next = work[w].next /\ work'[w].combined = work[w].combined
    BY <1>1, BusyType DEF Count, TypeOK, WorkState
  <2> QED
    BY <1>1, <1>6, <2>1 DEF FreshInv
<1>14. ReduceInv'
  <2>1. \A x \in Workers : Reducing(x) => x # w
    BY <1>1
  <2> QED
    BY <1>2, <1>6, <1>7, <2>1 DEF ReduceInv, Reducing
<1>15. OneReducer'
  BY <1>7 DEF OneReducer
<1>16. ResultWhole'
  BY <1>2 DEF ResultWhole
<1>17. CompletedHasResult'
  BY <1>2, <1>5 DEF CompletedHasResult
<1> QED
  BY <1>9, <1>10, <1>11, <1>12, <1>13, <1>14, <1>15, <1>16, <1>17

-----------------------------------------------------------------------------
(* submit, and time *)

LEMMA SubmitInv ==
    ASSUME IInv, TypeOK', TaskInv', NEW j \in Jobs, Submit(j)
    PROVE  IInv'
<1> USE DEF IInv
<1>1. ttl[j] = None /\ hash[j] = Absent /\ ~ aged[j] /\ Total[j] \in Nat \ {0}
  BY JobAssumption DEF Submit
<1>2. ~ Known(j)
  BY <1>1 DEF JobInv, Absent
<1>3. UNCHANGED <<stored, result, aged, work>>
  BY DEF Submit
<1>4. /\ hash'[j].state = "queued" /\ hash'[j].total = Total[j] /\ hash'[j].done = 0
      /\ \A k \in Jobs \ {j} : hash'[k] = hash[k]
      /\ ttl'[j] = "submit" /\ \A k \in Jobs \ {j} : ttl'[k] = ttl[k]
  BY DEF Submit, TypeOK
<1>5. \A w \in Workers : Busy(w) => JobOf(w) \in Jobs \ {j} /\ work[w].task.job # j
  BY <1>2, BusyType DEF Known, JobOf
<1>6. /\ \A w \in Workers : (Busy(w)' <=> Busy(w)) /\ (Holding(w)' <=> Holding(w))
      /\ \A w \in Workers : (Counted(w)' <=> Counted(w)) /\ (Reducing(w)' <=> Reducing(w))
      /\ \A w \in Workers : JobOf(w)' = JobOf(w)
  BY <1>3 DEF Busy, Holding, Counted, Reducing, JobOf
<1> DEFINE m == Len(queue)
<1>7. /\ m \in Nat /\ Len(queue') = m + Total[j]
      /\ \A i \in 1 .. m : queue'[i] = queue[i] /\ queue[i].job # j
      /\ \A i \in m + 1 .. m + Total[j] : queue'[i] = [job |-> j, shard |-> i - m]
  <2>1. queue \in Seq(Task) /\ queue' = queue \o Tasks(j)
    BY DEF Submit, TypeOK
  <2>2. /\ Tasks(j) \in Seq(Task) /\ Len(Tasks(j)) = Total[j]
        /\ \A n \in 1 .. Total[j] : Tasks(j)[n] = [job |-> j, shard |-> n]
    BY TasksType
  <2>3. m \in Nat /\ Len(queue') = m + Total[j]
    BY <2>1, <2>2
  <2>4. \A i \in 1 .. m : queue'[i] = queue[i] /\ queue[i].job # j
    BY <1>2, <2>1, <2>2 DEF Known
  <2>5. \A i \in m + 1 .. m + Total[j] : queue'[i] = [job |-> j, shard |-> i - m]
    <3> SUFFICES ASSUME NEW i \in m + 1 .. m + Total[j]
                 PROVE  queue'[i] = [job |-> j, shard |-> i - m]
      OBVIOUS
    <3>1. i - m \in 1 .. Total[j] /\ queue'[i] = Tasks(j)[i - m]
      BY <1>1, <2>1, <2>2, <2>3
    <3> QED
      BY <2>2, <3>1
  <2> QED
    BY <2>3, <2>4, <2>5
<1> HIDE DEF m
<1>8. \A i \in 1 .. Len(queue') :
         \/ i \in 1 .. m /\ queue'[i] = queue[i] /\ queue[i].job # j
         \/ i \in m + 1 .. m + Total[j] /\ queue'[i] = [job |-> j, shard |-> i - m]
            /\ queue'[i].job = j
  BY <1>1, <1>7
<1>9. \A k \in Jobs \ {j} : Known(k)' => Known(k)
  <2> SUFFICES ASSUME NEW k \in Jobs \ {j}, NEW i \in 1 .. Len(queue'), queue'[i].job = k
               PROVE  \E n \in 1 .. Len(queue) : queue[n].job = k
    BY <1>3, <1>6 DEF Known
  <2>1. i \in 1 .. m /\ queue'[i] = queue[i]
    BY <1>8
  <2> QED
    BY <2>1 DEF m
<1>10. JobInv'
  <2>1. \A k \in Jobs \ {j} : Known(k)' => aged[k] \/ hash[k].total = Total[k]
    BY <1>9 DEF JobInv
  <2> QED
    BY <1>1, <1>3, <1>4, <2>1, NoneAssumption DEF JobInv
<1>11. PlaceInv'
  <2>1. \A i, k \in 1 .. Len(queue') : i # k => queue'[i] # queue'[k]
    <3> SUFFICES ASSUME NEW i \in 1 .. Len(queue'), NEW k \in 1 .. Len(queue'),
                        queue'[i] = queue'[k]
                 PROVE  i = k
      OBVIOUS
    <3>1. CASE i \in 1 .. m /\ k \in 1 .. m
      BY <1>7, <3>1 DEF PlaceInv, m
    <3>2. CASE i \in m + 1 .. m + Total[j] /\ k \in m + 1 .. m + Total[j]
      <4>1. /\ [job |-> j, shard |-> i - m].shard = i - m
            /\ [job |-> j, shard |-> k - m].shard = k - m
        OBVIOUS
      <4>2. /\ queue'[i] = [job |-> j, shard |-> i - m]
            /\ queue'[k] = [job |-> j, shard |-> k - m]
        BY <1>7, <3>2, Zenon
      <4>3. i - m = k - m
        BY <4>1, <4>2, Zenon
      <4> QED
        BY <1>1, <1>7, <3>2, <4>3
    <3> QED
      BY <1>8, <3>1, <3>2
  <2>2. \A i \in 1 .. Len(queue') : queue'[i].shard \notin stored[queue'[i].job]
    <3> SUFFICES ASSUME NEW i \in 1 .. Len(queue')
                 PROVE  queue'[i].shard \notin stored[queue'[i].job]
      OBVIOUS
    <3>1. stored[j] = {}
      BY <1>2 DEF Known
    <3>2. CASE i \in 1 .. m /\ queue'[i] = queue[i]
      BY <3>2 DEF PlaceInv, m
    <3>3. CASE queue'[i].job = j
      BY <3>1, <3>3
    <3> QED
      BY <1>8, <3>2, <3>3
  <2>3. \A i \in 1 .. Len(queue'), w \in Workers : Holding(w) => queue'[i] # work[w].task
    <3>1. \A w \in Workers : Holding(w) => work[w].task.job # j
      BY <1>5 DEF Busy
    <3> SUFFICES ASSUME NEW i \in 1 .. Len(queue'), NEW w \in Workers, Holding(w)
                 PROVE  queue'[i] # work[w].task
      OBVIOUS
    <3>2. CASE i \in 1 .. m /\ queue'[i] = queue[i]
      BY <3>2 DEF PlaceInv, m
    <3>3. CASE queue'[i].job = j
      BY <3>1, <3>3
    <3> QED
      BY <1>8, <3>2, <3>3
  <2> QED
    BY <1>3, <1>6, <2>1, <2>2, <2>3 DEF PlaceInv
<1>12. CountInv'
  <2> SUFFICES ASSUME NEW k \in Jobs, ~ aged[k]
               PROVE  hash'[k].done <= Cardinality(stored[k] \ InCount(k))
    BY <1>3, <1>6 DEF CountInv, InCount
  <2>1. CASE k = j
    <3> DEFINE S == stored[j] \ InCount(j)
    <3>1. S \subseteq ShardsOf(j)
      BY DEF JobInv
    <3> HIDE DEF S
    <3>2. Cardinality(S) \in Nat
      BY <3>1, ShardSubset
    <3>3. 0 <= Cardinality(S)
      BY <3>2
    <3> QED
      BY <1>4, <2>1, <3>3 DEF S
  <2>2. CASE k # j
    BY <1>4, <2>2 DEF CountInv
  <2> QED
    BY <2>1, <2>2
<1>13. OwnCount'
  BY <1>3, <1>4, <1>5, <1>6 DEF OwnCount, Busy
<1>14. FreshInv'
  BY <1>3 DEF FreshInv
<1>15. ReduceInv'
  BY <1>3, <1>6 DEF ReduceInv
<1>16. OneReducer'
  BY <1>6 DEF OneReducer
<1>17. ResultWhole' /\ CompletedHasResult'
  BY <1>3, <1>4 DEF ResultWhole, CompletedHasResult
<1> QED
  BY <1>10, <1>11, <1>12, <1>13, <1>14, <1>15, <1>16, <1>17

\* When a TTL passes keys of one job disappear; the counts that workers have
\* can only lose the hash they were taken from.
LEMMA ExpiryInv ==
    ASSUME IInv, TypeOK', TaskInv', NEW j \in Jobs, Age(j) \/ ExpireKey(j)
    PROVE  IInv'
<1> USE DEF IInv
<1>1. UNCHANGED <<queue, work>>
  BY DEF Age, ExpireKey
<1>2. /\ aged'[j] /\ \A k \in Jobs \ {j} : aged'[k] = aged[k]
      /\ \A k \in Jobs \ {j} : hash'[k] = hash[k] /\ ttl'[k] = ttl[k]
      /\ \A k \in Jobs \ {j} : stored'[k] = stored[k] /\ result'[k] = result[k]
      /\ hash'[j] = hash[j] \/ hash'[j] = Absent
      /\ stored'[j] \subseteq stored[j]
  BY DEF Age, ExpireKey, TypeOK
<1>3. ttl'[j] # "submit"
  <2>1. None # "submit"
    BY NoneAssumption
  <2>2. CASE Age(j)
    BY <2>1, <2>2 DEF Age, TypeOK
  <2>3. CASE ExpireKey(j)
    <3>1. ttl[j] # "submit"
      BY <2>3 DEF ExpireKey, JobInv
    <3> QED
      BY <2>1, <2>3, <3>1 DEF ExpireKey, TypeOK
  <2> QED
    BY <2>2, <2>3
<1>4. /\ \A w \in Workers : (Busy(w)' <=> Busy(w)) /\ (Holding(w)' <=> Holding(w))
      /\ \A w \in Workers : (Counted(w)' <=> Counted(w)) /\ (Reducing(w)' <=> Reducing(w))
      /\ \A w \in Workers : JobOf(w)' = JobOf(w)
  BY <1>1 DEF Busy, Holding, Counted, Reducing, JobOf
<1>5. \A w \in Workers : Busy(w) => JobOf(w) \in Jobs
  BY BusyType
<1>6. hash'[j].total \in {0, hash[j].total}
      /\ (hash'[j].total # 0 => hash'[j] = hash[j])
  BY <1>2 DEF Absent
<1>7. \A k \in Jobs \ {j} : Known(k)' => Known(k)
  BY <1>1, <1>2, <1>4 DEF Known
<1>8. \A k \in Jobs : stored'[k] \subseteq stored[k]
  BY <1>2
<1>9. JobInv'
  <2>1. \A k \in Jobs \ {j} : Known(k)' => aged[k] \/ hash[k].total = Total[k]
    BY <1>7 DEF JobInv
  <2>2. stored'[j] \subseteq ShardsOf(j) /\ hash'[j].total \in {0, Total[j]}
    BY <1>2, <1>6 DEF JobInv
  <2> QED
    BY <1>2, <1>3, <2>1, <2>2 DEF JobInv
<1>10. PlaceInv'
  <2>1. \A i \in 1 .. Len(queue) : queue[i].job \in Jobs
    BY TaskType DEF TypeOK
  <2>2. \A i \in 1 .. Len(queue) : queue[i].shard \notin stored'[queue[i].job]
    BY <1>8, <2>1 DEF PlaceInv
  <2>3. \A w \in Workers :
           work[w].pc = "store" => work[w].task.shard \notin stored'[JobOf(w)]
    BY <1>5, <1>8 DEF PlaceInv, Busy, Holding
  <2>4. \A w \in Workers :
           work[w].pc = "count" /\ ~ aged'[JobOf(w)]
              => work[w].task.shard \in stored'[JobOf(w)]
    <3>1. \A w \in Workers :
             work[w].pc = "count" /\ ~ aged'[JobOf(w)] => JobOf(w) \in Jobs \ {j}
      BY <1>2, <1>5 DEF Busy, Holding
    <3> QED
      BY <1>2, <3>1 DEF PlaceInv
  <2> QED
    BY <1>1, <1>4, <2>2, <2>3, <2>4 DEF PlaceInv
<1>11. CountInv'
  <2>1. \A k \in Jobs : InCount(k)' = InCount(k)
    BY <1>1, <1>4 DEF InCount
  <2> QED
    BY <1>2, <2>1 DEF CountInv
<1>12. OwnCount'
  <2>1. \A k \in Jobs : hash'[k].total # 0 => hash'[k] = hash[k]
    BY <1>2, <1>6
  <2>2. \A w \in Workers : Counted(w) => JobOf(w) \in Jobs
    BY <1>5 DEF Busy
  <2> QED
    BY <1>1, <1>4, <2>1, <2>2 DEF OwnCount
<1>13. FreshInv'
  BY <1>1 DEF FreshInv
<1>14. \A w \in Workers : Reducing(w) => JobOf(w) \in Jobs
  BY <1>5 DEF Busy, Counted, Reducing
<1>15. ReduceInv'
  <2>1. \A w \in Workers : Reducing(w) /\ ~ aged'[JobOf(w)] =>
           /\ ~ aged[JobOf(w)] /\ stored'[JobOf(w)] = stored[JobOf(w)]
           /\ result'[JobOf(w)] = result[JobOf(w)]
    BY <1>2, <1>14
  <2>2. \A w \in Workers : work[w].pc \in {"complete", "refresh"} => Reducing(w)
    BY DEF Reducing
  <2> QED
    BY <1>1, <1>4, <2>1, <2>2 DEF ReduceInv
<1>16. OneReducer'
  BY <1>4 DEF OneReducer
<1>17. ResultWhole' /\ CompletedHasResult'
  BY <1>2 DEF ResultWhole, CompletedHasResult
<1> QED
  BY <1>9, <1>10, <1>11, <1>12, <1>13, <1>15, <1>16, <1>17

LEMMA StutterInv == IInv /\ UNCHANGED vars => IInv'
BY DEF vars, IInv, TypeOK, TaskInv, JobInv, PlaceInv, CountInv, OwnCount, FreshInv,
       ReduceInv, ResultWhole, OneReducer, CompletedHasResult, Known, InCount, Busy,
       Holding, Counted, Reducing, JobOf

-----------------------------------------------------------------------------
(* The theorems *)

\* Every step keeps the invariant.
LEMMA InvStep == IInv /\ [Next]_vars => IInv'
<1> SUFFICES ASSUME IInv, [Next]_vars PROVE IInv'
  OBVIOUS
<1>1. TypeOK' /\ TaskInv'
  BY TypeStep DEF IInv
<1>2. ASSUME NEW w \in Workers, Work(w) PROVE IInv'
  BY <1>1, <1>2, PopInv, StoreInv, CountStepInv, SetRunningInv, ReadMetaInv,
     CombineInv, ReduceStepInv, SetCompletedInv, RefreshInv DEF Work
<1>3. ASSUME NEW w \in Workers, Crash(w) PROVE IInv'
  BY <1>1, <1>3, CrashInv
<1>4. ASSUME NEW j \in Jobs, Submit(j) PROVE IInv'
  BY <1>1, <1>4, SubmitInv
<1>5. ASSUME NEW j \in Jobs, Age(j) \/ ExpireKey(j) PROVE IInv'
  BY <1>1, <1>5, ExpiryInv
<1>6. CASE UNCHANGED vars
  BY <1>6, StutterInv
<1> QED
  BY <1>2, <1>3, <1>4, <1>5, <1>6 DEF Next

\* The invariant holds of every behaviour of the queue and its workers.
THEOREM Invariant == Spec => []IInv
BY InitInv, InvStep, PTL DEF Spec

\* The keys in Redis and the workers' locals have their types.
THEOREM TypeCorrect == Spec => []TypeOK
<1>1. IInv => TypeOK
  BY DEF IInv
<1> QED
  BY <1>1, Invariant, PTL

\* A result stored before the TTL of its job has passed reduces every shard,
\* however the workers are interleaved and whichever of them die.
THEOREM WholeResult == Spec => []ResultWhole
<1>1. IInv => ResultWhole
  BY DEF IInv
<1> QED
  BY <1>1, Invariant, PTL

\* Of the workers that count the shards of a job one at most reduces it.
THEOREM SingleReducer == Spec => []OneReducer
<1>1. IInv => OneReducer
  BY DEF IInv
<1> QED
  BY <1>1, Invariant, PTL

\* A job that is "completed" has its result, until its TTL has passed.
THEOREM CompletedJobHasResult == Spec => []CompletedHasResult
<1>1. IInv => CompletedHasResult
  BY DEF IInv
<1> QED
  BY <1>1, Invariant, PTL

===============================================================================
