------------------------------- MODULE FastPath -------------------------------
(***************************************************************************)
(* The realtime fast path: app/fastpath.py, app/profile_registry.py,       *)
(* app/realtime.py and the realtime routes of app/main.py.                 *)
(*                                                                         *)
(* Administrators store profiles in a Redis hash; every server process     *)
(* keeps compiled copies and drops one when a Pub/Sub event of another     *)
(* process names it.  A request takes a copy, loading it when it has to,   *)
(* and passes a bounded scheduler: a count of pending requests, a          *)
(* semaphore of slots, and a limit on the wait for a slot.                 *)
(*                                                                         *)
(* A profile is its version: the number of the write that made it, which   *)
(* orders profiles as created_at does.  Sections under _lock and           *)
(* _state_lock contain no await, so that each is one step.                 *)
(***************************************************************************)
EXTENDS Naturals, Sequences, FiniteSets, SequencesExt

CONSTANTS
    Procs,        \* server processes
    Ids,          \* profile ids
    Writers,      \* administrators' calls
    Requests,     \* calls of /v1/realtime/fast and events of the stream
    Stream,       \* the requests that are events of /v1/realtime/stream
    Concurrency,  \* of the stream
    Limit,        \* RTDC_FAST_PROFILE_LIMIT
    Slots,        \* RTDC_FAST_WORKERS
    Capacity,     \* RTDC_FAST_QUEUE_CAPACITY
    Scopes,       \* the deployments explored: processes, ids, calls, faults
                  \* (of "redis", "listener", "cancel", "crash"), and whether
                  \* the wait for a slot is limited (max_queue_wait_ms > 0)
    None

ASSUME FastAssumption ==
    /\ {Limit, Slots, Capacity, Concurrency} \subseteq Nat \ {0}
    /\ Capacity >= Slots
    /\ Stream \subseteq Requests
    /\ \A c \in Scopes :
         /\ c.procs \subseteq Procs /\ c.ids \subseteq Ids
         /\ c.writers \subseteq Writers /\ c.requests \subseteq Requests
         /\ c.waits \in BOOLEAN
    /\ IsFiniteSet(Ids) /\ IsFiniteSet(Requests)
    /\ None \notin Procs \cup Ids

VARIABLES
    scope,      \* the deployment, chosen at the start
    redis,      \* the stored version of each profile, 0 when there is none
    clock,      \* the versions made so far
    chan,       \* the events delivered to each process and not handled
    listening,  \* the process is subscribed
    cache,      \* _profiles of each process: 0 when there is no copy
    excused,    \* the copies that an install, a lost event or an error left
                \* behind: set where that happens
    admin,      \* the administrators' calls
    req,        \* the requests
    pending,    \* _pending
    inflight,   \* _inflight
    slots,      \* the value of the semaphore _slots
    waiters,    \* its queue
    results,    \* the queue of the stream
    yielded     \* what the stream's client has got

registry == <<redis, clock, chan, listening, cache, excused, admin>>
scheduler == <<pending, inflight, slots, waiters>>
stream == <<results, yielded>>
vars == <<scope, registry, req, scheduler, stream>>

Idle == [pc |-> "idle", proc |-> None, id |-> None, ver |-> 0]

\* The processes start with an empty registry, or find profiles in it.
Init ==
    /\ scope \in Scopes
    /\ redis \in {f \in [Ids -> 0 .. Cardinality(Ids)] :
                   /\ \A i \in Ids : f[i] # 0 <=> i \in scope.ids
                   /\ IsInjective(Restrict(f, scope.ids))}
                 \cup {[i \in Ids |-> 0]}
    /\ clock = Cardinality(Ids)
    /\ chan = [p \in Procs |-> << >>]
    /\ listening = [p \in Procs |-> FALSE]
    /\ cache = [p \in Procs |-> [i \in Ids |-> 0]]
    /\ excused = {}
    /\ admin = [w \in Writers |-> Idle]
    /\ req = [r \in Requests |-> Idle]
    /\ pending = [p \in Procs |-> 0]
    /\ inflight = [p \in Procs |-> 0]
    /\ slots = [p \in Procs |-> Slots]
    /\ waiters = [p \in Procs |-> << >>]
    /\ results = << >>
    /\ yielded = << >>

-----------------------------------------------------------------------------
(* Copies *)

Cached(p) == {i \in Ids : cache[p][i] # 0}

\* The copy made first: min(created_at).
Oldest(p) == CHOOSE i \in Cached(p) : \A j \in Cached(p) : cache[p][i] <= cache[p][j]

\* The locked part of _install_profile.
Install(p, i, v) ==
    LET victim == IF cache[p][i] = 0 /\ Cardinality(Cached(p)) >= Limit
                  THEN {Oldest(p)} ELSE {}
    IN  /\ cache' = [cache EXCEPT ![p] = [j \in Ids |-> IF j = i THEN v
                                            ELSE IF j \in victim THEN 0 ELSE @[j]]]
        /\ excused' = (excused \ {<<p, j>> : j \in victim \cup {i}})
                         \cup (IF v = redis[i] THEN {} ELSE {<<p, i>>})

Pop(p, i) ==
    /\ cache' = [cache EXCEPT ![p][i] = 0]
    /\ excused' = excused \ {<<p, i>>}

\* PUBLISH: to the processes that are subscribed; the others miss it.
Publish(i, from) ==
    /\ chan' = [p \in Procs |-> IF listening[p] THEN Append(chan[p], [id |-> i, from |-> from])
                                ELSE chan[p]]
    /\ excused' = excused \cup {<<p, i>> : p \in {p \in Procs \ {from} :
                                             ~ listening[p] /\ cache[p][i] # 0}}

-----------------------------------------------------------------------------
(* create_profile and delete_profile *)

\* _compile and the prewarm: what is refused leaves no trace.
CreateStart(w, p, i) ==
    /\ admin[w].pc = "idle"
    /\ clock' = clock + 1
    /\ admin' = [admin EXCEPT ![w] = [pc |-> "saving", proc |-> p, id |-> i, ver |-> clock + 1]]
    /\ UNCHANGED <<redis, chan, listening, cache, excused, req, scheduler, stream>>

\* HSET and PUBLISH in one MULTI; its answer may be lost.
Save(w) ==
    LET a == admin[w]
    IN  /\ a.pc = "saving"
        /\ redis' = [redis EXCEPT ![a.id] = a.ver]
        /\ \/ Publish(a.id, a.proc) /\ admin' = [admin EXCEPT ![w].pc = "saved"]
           \/ /\ "redis" \in scope.faults
              /\ Publish(a.id, a.proc)
              /\ admin' = [admin EXCEPT ![w].pc = "unanswered"]
        /\ UNCHANGED <<clock, listening, cache, req, scheduler, stream>>

\* The call fails before its command, or after it without an answer.
AdminFails(w) ==
    LET a == admin[w]
    IN  /\ a.pc \in {"saving", "unanswered", "deleting", "deleted"}
        /\ a.pc = "unanswered" \/ "redis" \in scope.faults
        /\ admin' = [admin EXCEPT ![w].pc = "done"]
        /\ excused' = CASE a.pc = "unanswered" /\ cache[a.proc][a.id] # 0 ->
                             excused \cup {<<a.proc, a.id>>}
                        [] a.pc = "deleted" ->
                             excused \cup {<<p, a.id>> : p \in {p \in Procs : cache[p][a.id] # 0}}
                        [] OTHER -> excused
        /\ UNCHANGED <<redis, clock, chan, listening, cache, req, scheduler, stream>>

CreateEnd(w) ==
    LET a == admin[w]
    IN  /\ a.pc = "saved"
        /\ Install(a.proc, a.id, a.ver)
        /\ admin' = [admin EXCEPT ![w].pc = "done"]
        /\ UNCHANGED <<redis, clock, chan, listening, req, scheduler, stream>>

DeleteStart(w, p, i) ==
    /\ admin[w].pc = "idle"
    /\ admin' = [admin EXCEPT ![w] = [pc |-> "deleting", proc |-> p, id |-> i, ver |-> 0]]
    /\ UNCHANGED <<redis, clock, chan, listening, cache, excused, req, scheduler, stream>>

\* HDEL, and a PUBLISH when there was a profile.
Hdel(w) ==
    LET a == admin[w]
    IN  /\ a.pc = "deleting"
        /\ redis' = [redis EXCEPT ![a.id] = 0]
        /\ admin' = [admin EXCEPT ![w].pc = IF redis[a.id] # 0 THEN "deleted" ELSE "published"]
        /\ UNCHANGED <<clock, chan, listening, cache, excused, req, scheduler, stream>>

PublishDelete(w) ==
    /\ admin[w].pc = "deleted"
    /\ Publish(admin[w].id, admin[w].proc)
    /\ admin' = [admin EXCEPT ![w].pc = "published"]
    /\ UNCHANGED <<redis, clock, listening, cache, req, scheduler, stream>>

DeleteEnd(w) ==
    /\ admin[w].pc = "published"
    /\ Pop(admin[w].proc, admin[w].id)
    /\ admin' = [admin EXCEPT ![w].pc = "done"]
    /\ UNCHANGED <<redis, clock, chan, listening, req, scheduler, stream>>

-----------------------------------------------------------------------------
(* The listener: SharedFastProfileRegistry.listen, _on_shared_profile_event *)

\* start() does not wait until the subscription is made.
Subscribe(p) ==
    /\ ~ listening[p]
    /\ listening' = [listening EXCEPT ![p] = TRUE]
    /\ UNCHANGED <<redis, clock, chan, cache, excused, admin, req, scheduler, stream>>

\* Mutant: the events of other processes are ignored, not the process's own.
ListenSkips(p) ==
    /\ chan[p] # << >>
    /\ chan' = [chan EXCEPT ![p] = Tail(@)]
    /\ UNCHANGED <<redis, clock, listening, cache, excused, admin, req, scheduler, stream>>

Listen(p) ==
    /\ chan[p] # << >>
    /\ chan' = [chan EXCEPT ![p] = Tail(@)]
    /\ IF Head(chan[p]).from = p THEN UNCHANGED <<cache, excused>>
                                 ELSE Pop(p, Head(chan[p]).id)
    /\ UNCHANGED <<redis, clock, listening, admin, req, scheduler, stream>>

\* An error of the connection ends the task and what was under way to it.
ListenerEnds(p) ==
    /\ "listener" \in scope.faults
    /\ listening[p]
    /\ listening' = [listening EXCEPT ![p] = FALSE]
    /\ chan' = [chan EXCEPT ![p] = << >>]
    /\ excused' = excused \cup
         {<<p, i>> : i \in {i \in Cached(p) : \E k \in DOMAIN chan[p] : chan[p][k].id = i}}
    /\ UNCHANGED <<redis, clock, cache, admin, req, scheduler, stream>>

-----------------------------------------------------------------------------
(* execute: the copy *)

Goto(r, pc) == req' = [req EXCEPT ![r].pc = pc]

Dispatched == {"load", "get", "install", "admit", "waiting", "running"}

\* A result of the stream's task goes to its queue and frees its semaphore.
Leave(r, pc) ==
    /\ Goto(r, pc)
    /\ results' = IF r \in Stream THEN Append(results, r) ELSE results
    /\ UNCHANGED yielded

Arrive(r, p, i) ==
    /\ req[r].pc = "idle"
    /\ r \in Stream => Cardinality({s \in Stream : req[s].pc \in Dispatched}) < Concurrency
    /\ req' = [req EXCEPT ![r] = [pc |-> IF cache[p][i] # 0 THEN "admit" ELSE "load",
                                  proc |-> p, id |-> i, ver |-> cache[p][i]]]
    /\ UNCHANGED <<registry, scheduler, stream>>

Loading(p, i) == {r \in Requests : req[r].pc \in {"get", "install"}
                                      /\ req[r].proc = p /\ req[r].id = i}

\* _load_shared_profile: the look under _lock, and again under the load lock.
LoadLock(r) ==
    LET q == req[r]
    IN  /\ q.pc = "load"
        /\ IF cache[q.proc][q.id] # 0
           THEN req' = [req EXCEPT ![r].pc = "admit", ![r].ver = cache[q.proc][q.id]]
           ELSE Loading(q.proc, q.id) = {} /\ Goto(r, "get")
        /\ UNCHANGED <<registry, scheduler, stream>>

RegistryGet(r) ==
    /\ req[r].pc = "get"
    /\ IF redis[req[r].id] = 0
       THEN Leave(r, "not_found")
       ELSE /\ req' = [req EXCEPT ![r].pc = "install", ![r].ver = redis[req[r].id]]
            /\ UNCHANGED stream
    /\ UNCHANGED <<registry, scheduler>>

InstallLoaded(r) ==
    LET q == req[r]
    IN  /\ q.pc = "install"
        /\ Install(q.proc, q.id, q.ver)
        /\ Goto(r, "admit")
        /\ UNCHANGED <<redis, clock, chan, listening, admin, scheduler, stream>>

-----------------------------------------------------------------------------
(* execute: the scheduler *)

\* The check of _pending, and the semaphore when it is free.
Admit(r) ==
    LET p == req[r].proc
    IN  /\ req[r].pc = "admit"
        /\ IF pending[p] >= Capacity
           THEN Leave(r, "rejected") /\ UNCHANGED scheduler
           ELSE /\ pending' = [pending EXCEPT ![p] = @ + 1]
                /\ IF slots[p] > 0 /\ waiters[p] = << >>
                   THEN /\ slots' = [slots EXCEPT ![p] = @ - 1]
                        /\ inflight' = [inflight EXCEPT ![p] = @ + 1]
                        /\ Goto(r, "running")
                        /\ UNCHANGED waiters
                   ELSE /\ waiters' = [waiters EXCEPT ![p] = Append(@, r)]
                        /\ Goto(r, "waiting")
                        /\ UNCHANGED <<slots, inflight>>
                /\ UNCHANGED stream
        /\ UNCHANGED registry

\* The first waiter gets a slot that was released.
Acquire(r) ==
    LET p == req[r].proc
    IN  /\ req[r].pc = "waiting"
        /\ slots[p] > 0 /\ Head(waiters[p]) = r
        /\ slots' = [slots EXCEPT ![p] = @ - 1]
        /\ waiters' = [waiters EXCEPT ![p] = Tail(@)]
        /\ inflight' = [inflight EXCEPT ![p] = @ + 1]
        /\ Goto(r, "running")
        /\ UNCHANGED <<registry, pending, stream>>

\* The finally of execute for a request that has no slot.
LeaveQueue(r, pc) ==
    LET p == req[r].proc
    IN  /\ req[r].pc = "waiting"
        /\ \E k \in DOMAIN waiters[p] :
             waiters[p][k] = r /\ waiters' = [waiters EXCEPT ![p] = RemoveAt(@, k)]
        /\ pending' = [pending EXCEPT ![p] = @ - 1]
        /\ Leave(r, pc)
        /\ UNCHANGED <<registry, slots, inflight>>

QueueTimeout(r) == scope.waits /\ LeaveQueue(r, "timeout")

\* Mutant: the slot is released after an answer, not after a cancellation.
ReleaseOnAnswer(r, pc) ==
    LET p == req[r].proc
    IN  /\ req[r].pc = "running"
        /\ slots' = [slots EXCEPT ![p] = IF pc = "answered" THEN @ + 1 ELSE @]
        /\ inflight' = [inflight EXCEPT ![p] = @ - 1]
        /\ pending' = [pending EXCEPT ![p] = @ - 1]
        /\ Leave(r, pc)
        /\ UNCHANGED <<registry, waiters>>

\* The finally of execute for one that has: an error of an engine is an answer.
Release(r, pc) ==
    LET p == req[r].proc
    IN  /\ req[r].pc = "running"
        /\ slots' = [slots EXCEPT ![p] = @ + 1]
        /\ inflight' = [inflight EXCEPT ![p] = @ - 1]
        /\ pending' = [pending EXCEPT ![p] = @ - 1]
        /\ Leave(r, pc)
        /\ UNCHANGED <<registry, waiters>>

ExecuteDirect(r) == Release(r, "answered")

\* A call that is not part of a stream is cancelled at one of its awaits.
Cancel(r) ==
    /\ "cancel" \in scope.faults /\ r \notin Stream
    /\ \/ Release(r, "cancelled")
       \/ LeaveQueue(r, "cancelled")
       \/ /\ req[r].pc \in {"load", "get", "install"}
          /\ Goto(r, "cancelled")
          /\ UNCHANGED <<registry, scheduler, stream>>

\* stream_batch yields a result for each of its events, in the order they end.
Yield ==
    /\ results # << >>
    /\ yielded' = Append(yielded, Head(results))
    /\ results' = Tail(results)
    /\ UNCHANGED <<registry, req, scheduler>>

\* A process ends with its tasks, and starts again.
Crash(p) ==
    /\ "crash" \in scope.faults
    /\ \A r \in Stream : req[r].proc # p
    /\ cache' = [cache EXCEPT ![p] = [i \in Ids |-> 0]]
    /\ excused' = {e \in excused : e[1] # p} \cup
         {e \in (Procs \ {p}) \X Ids :
             /\ cache[e[1]][e[2]] # 0
             /\ \E w \in Writers : admin[w] = [pc |-> "deleted", proc |-> p,
                                              id |-> e[2], ver |-> 0]}
    /\ chan' = [chan EXCEPT ![p] = << >>]
    /\ listening' = [listening EXCEPT ![p] = FALSE]
    /\ admin' = [w \in Writers |-> IF admin[w].proc = p THEN [admin[w] EXCEPT !.pc = "done"]
                                   ELSE admin[w]]
    /\ req' = [r \in Requests |-> IF req[r].proc = p THEN [req[r] EXCEPT !.pc = "cancelled"]
                                  ELSE req[r]]
    /\ pending' = [pending EXCEPT ![p] = 0]
    /\ inflight' = [inflight EXCEPT ![p] = 0]
    /\ slots' = [slots EXCEPT ![p] = Slots]
    /\ waiters' = [waiters EXCEPT ![p] = << >>]
    /\ UNCHANGED <<redis, clock, stream>>

-----------------------------------------------------------------------------
AdminStep(w) ==
    Save(w) \/ AdminFails(w) \/ CreateEnd(w) \/ Hdel(w) \/ PublishDelete(w) \/ DeleteEnd(w)

RequestStep(r) ==
    \/ LoadLock(r) \/ RegistryGet(r) \/ InstallLoaded(r) \/ Admit(r) \/ Acquire(r)
    \/ QueueTimeout(r) \/ ExecuteDirect(r)

Call ==
    \/ \E w \in scope.writers, p \in scope.procs, i \in scope.ids :
         CreateStart(w, p, i) \/ DeleteStart(w, p, i)
    \/ \E r \in scope.requests, p \in scope.procs, i \in scope.ids : Arrive(r, p, i)

Step ==
    \/ \E w \in Writers : AdminStep(w)
    \/ \E r \in Requests : RequestStep(r) \/ Cancel(r)
    \/ \E p \in scope.procs : Subscribe(p) \/ Listen(p) \/ ListenerEnds(p) \/ Crash(p)
    \/ Yield

Next == (Call \/ Step) /\ UNCHANGED scope

Spec == Init /\ [][Next]_vars

\* The event loop runs every task that is ready; engines and Redis answer.
Fairness == \A r \in Requests : WF_vars(RequestStep(r) /\ UNCHANGED scope)

FairSpec == Spec /\ Fairness

-----------------------------------------------------------------------------
(* Properties *)

AdminPcs == {"idle", "saving", "saved", "unanswered", "deleting", "deleted", "published", "done"}

Gone == {"not_found", "rejected", "timeout", "answered", "cancelled"}

\* Every variable has its type, and no process has more copies than it may.
TypeOK ==
    /\ scope \in Scopes
    /\ redis \in [Ids -> Nat]
    /\ clock \in Nat
    /\ chan \in [Procs -> Seq([id : Ids, from : Procs])]
    /\ listening \in [Procs -> BOOLEAN]
    /\ cache \in [Procs -> [Ids -> Nat]]
    /\ excused \subseteq Procs \X Ids
    /\ admin \in [Writers -> [pc : AdminPcs, proc : Procs \cup {None},
                              id : Ids \cup {None}, ver : Nat]]
    /\ req \in [Requests -> [pc : Dispatched \cup Gone \cup {"idle"},
                             proc : Procs \cup {None}, id : Ids \cup {None}, ver : Nat]]
    /\ {pending, inflight, slots} \subseteq [Procs -> Nat]
    /\ waiters \in [Procs -> Seq(Requests)]
    /\ results \in Seq(Stream) /\ yielded \in Seq(Stream)

At(p, pcs) == {r \in Requests : req[r].proc = p /\ req[r].pc \in pcs}

\* The stream has a result for each event that ended, and one (stream_batch).
StreamOnce ==
    /\ \A j, k \in DOMAIN (yielded \o results) :
         (yielded \o results)[j] = (yielded \o results)[k] => j = k
    /\ ToSet(yielded \o results) = {r \in Stream : req[r].pc \in Gone}

CountsExact(p) ==
    /\ pending[p] = Cardinality(At(p, {"waiting", "running"}))
    /\ inflight[p] = Cardinality(At(p, {"running"}))
    /\ slots[p] + inflight[p] = Slots
    /\ pending[p] <= Capacity
    /\ ToSet(waiters[p]) = At(p, {"waiting"})

\* The counters that admission is decided by are the numbers of requests they
\* stand for after timeouts, cancellations and errors, and no more requests
\* are admitted than the capacity, or run than there are slots (execute); a
\* stream accounts for its events.
SchedulerExact == (\A p \in Procs : CountsExact(p)) /\ StreamOnce

\* A copy is the stored profile, or its event is on the way, or a call that
\* will replace or publish it is not over, or an install overtaken by a write,
\* an event nobody heard or an error left it behind (_on_shared_profile_event).
CopiesExplained ==
    \A p \in Procs : \A i \in Cached(p) :
        \/ cache[p][i] = redis[i]
        \/ <<p, i>> \in excused
        \/ \E k \in DOMAIN chan[p] : chan[p][k].id = i /\ chan[p][k].from # p
        \/ \E w \in Writers :
             /\ admin[w].id = i
             /\ \/ admin[w].pc = "deleted"
                \/ admin[w].proc = p /\ admin[w].pc \in {"saved", "unanswered", "published"}

\* Every request is answered, refused or cancelled: slots are never used up
\* by requests that are gone, also when the wait for one is not limited.
RequestsLeave == \A r \in Requests : (req[r].pc \in Dispatched) ~> (req[r].pc \in Gone)

\* README.md: Pub/Sub invalidates stale process-local copies when a shared
\* profile changes or is deleted.  Violated: see FastStale.cfg.
CopiesFollow ==
    \A p \in Procs : \A i \in Cached(p) :
        \/ cache[p][i] = redis[i]
        \/ chan[p] # << >>
        \/ \E w \in Writers : admin[w].pc \notin {"idle", "done"}

=============================================================================
