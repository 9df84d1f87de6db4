----------------------------- MODULE DecisionGraph -----------------------------
(***************************************************************************)
(* Decision graphs: app/decision_graph.py, app/decision_graph_api.py and   *)
(* ReviewStore.create of app/review_store.py.                              *)
(*                                                                         *)
(* A client stores versions of an acyclic graph of small decisions.  A run *)
(* executes one version in waves: a node is ready when all its parents     *)
(* have a trace, runs when one of them completed over an edge whose        *)
(* condition holds, and is skipped otherwise.  The nodes of a wave run in  *)
(* batches of max_parallel, each with retries and a timeout; a webhook is  *)
(* a message to a receiver that performs each Idempotency-Key once.        *)
(* The graph database is one SQLite file; each server process has one      *)
(* connection to it, and an INSERT that fails leaves its transaction open. *)
(*                                                                         *)
(* Outputs of nodes are abstracted to what conditions and verdicts tell    *)
(* apart; one graph of one project stands for all.                         *)
(***************************************************************************)
EXTENDS Naturals, Sequences, FiniteSets

CONSTANTS
    Procs,        \* server processes
    Runs,         \* runs that may be started
    Nodes,        \* node ids
    Initial,      \* the definitions of which one is stored at the start
    Updates,      \* the definitions a client may put
    Scope,        \* for the graph stored first: the processes, runs, faults and
                  \* requests (dry_run, idempotency_key, retain_input)
                  \* that are explored, and the bound on its versions
    MaxCrashes,   \* bound on process crashes
    None

\* What a definition may hold: nodes is a list, with a kind and an on_error each,
\* and edges a list with a condition or None each (GraphDefinition).
ASSUME DefinitionAssumption ==
    \A d \in Initial \cup Updates :
        /\ d.nodes \in Seq(Nodes)
        /\ \A n \in {d.nodes[i] : i \in DOMAIN d.nodes} :
             /\ d.kind[n] \in {"semantic", "gate", "review", "emit", "webhook"}
             /\ d.onError[n] \in {"fail", "skip", "review"}
        /\ d.edges \in Seq({d.edges[i] : i \in DOMAIN d.edges})
        /\ d.retries \in Nat
        /\ d.maxParallel \in Nat \ {0}

\* The two kinds of Idempotency-Key, and the absence of a value, are told apart.
ASSUME ValueAssumption ==
    /\ "client" \notin Runs
    /\ None \notin Procs
    /\ None \notin [def : Updates, max : Nat]

ASSUME GraphAssumption ==
    /\ \A d \in Initial : /\ Scope[d].procs \subseteq Procs
                           /\ Scope[d].runs \subseteq Runs
                           /\ Scope[d].versions \in Nat
                           /\ \A q \in Scope[d].requests :
                                {q.dry, q.retain} \subseteq BOOLEAN
                           /\ Scope[d].faults \subseteq {"node", "deadline", "project"}
    /\ MaxCrashes \in Nat

VARIABLES
    graphs,     \* the committed versions, in order
    saved,      \* the runs whose record is committed
    txn,        \* the lock the open transaction of each connection holds
    dirty,      \* versions inserted and not committed, per connection
    dirtyRuns,  \* run records inserted and not committed, per connection
    putting,    \* a put between its SELECT and its INSERT, per process
    acked,      \* the <<version, definition>> pairs clients were told of
    run,        \* the state of each run
    reviews,    \* the items of the review queue
    enabled,    \* the project is enabled: its resources can be registered
    posts,      \* requests sent to the receiver
    handled,    \* requests that reached it
    performed,  \* requests it acted on
    crashes

store == <<graphs, saved, txn, dirty, dirtyRuns, putting, acked>>
world == <<reviews, enabled, posts, handled, performed>>
vars == <<store, run, world, crashes>>

-----------------------------------------------------------------------------
(* Definitions: GraphDefinition *)

\* What a node may put out: "unsure" asks for a review.
Answers == {"yes", "no", "unsure"}
Outputs == Answers \cup {"queued", "simulated", "emitted", "sent"}

Ids(d) == {d.nodes[i] : i \in DOMAIN d.nodes}

Edges(d) == {d.edges[i] : i \in DOMAIN d.edges}

Incoming(d, n) == {e \in Edges(d) : e.target = n}

Parents(d, n) == {e.source : e \in Incoming(d, n)}

\* The elements of seq that are in S, in the order of seq.
Picked(seq, S) ==
    LET P == {i \in DOMAIN seq : seq[i] \in S}
    IN  [k \in 1 .. Cardinality(P) |->
           seq[CHOOSE i \in P : Cardinality({j \in P : j <= i}) = k]]

\* The targets of cur's edges of which order holds all the parents.
Freed(d, cur, order) ==
    LET out == Picked(d.edges,
            {e \in Edges(d) : /\ e.source = cur
                              /\ Parents(d, e.target) \subseteq
                                   {order[i] : i \in DOMAIN order}})
    IN  [i \in DOMAIN out |-> out[i].target]

\* Kahn's algorithm: step k has taken k nodes from the queue.
Kahn(d) ==
    LET step[k \in 0 .. Len(d.nodes)] ==
            IF k = 0
            THEN [ready |-> Picked(d.nodes, {n \in Ids(d) : Incoming(d, n) = {}}),
                  order |-> << >>]
            ELSE LET s == step[k - 1]
                     order == Append(s.order, Head(s.ready))
                 IN  IF s.ready = << >> THEN s
                     ELSE [ready |-> Tail(s.ready) \o Freed(d, Head(s.ready), order),
                           order |-> order]
    IN  step[Len(d.nodes)].order

\* A function of the definitions, computed once.
Orders == [d \in Initial \cup Updates |-> Kahn(d)]

TopologicalOrder(d) == Orders[d]

\* validate_graph; a node's own configuration is checked by its type here.
WellFormed(d) ==
    /\ Cardinality(Ids(d)) = Len(d.nodes)
    /\ \A e \in Edges(d) : {e.source, e.target} \subseteq Ids(d) /\ e.source # e.target
    /\ \A i, j \in DOMAIN d.edges :
         d.edges[i].source = d.edges[j].source /\ d.edges[i].target = d.edges[j].target
            => i = j

\* Mutant: a definition with a cycle is accepted.
ValidUnordered(d) == WellFormed(d)

Valid(d) == WellFormed(d) /\ Len(Kahn(d)) = Len(d.nodes)

\* resolve_path of a path that leads nowhere is not found, and
\* GraphCondition.evaluate then makes every condition on it false.
Resolves(path, out) == path \in DOMAIN out

Holds(cond, out) == Resolves(cond.path, out) /\ out[cond.path] \in cond.holds

EdgeHolds(e, out) == e.cond = None \/ Holds(e.cond, out)

GatePasses(g, out) ==
    IF g.mode = "all" THEN \A c \in g.conds : Holds(c, out)
                      ELSE \E c \in g.conds : Holds(c, out)

\* A gate without conditions, or with another mode, raises whenever it runs.
Misconfigured(g) == g.conds = {} \/ g.mode \notin {"all", "any"}

-----------------------------------------------------------------------------
(* Runs *)

Traces == {"completed", "skipped", "failed", "expired", "aborted"}

Phases == {"idle", "wave", "batch", "ended", "answered", "lost", "crashed"}

\* queue: the nodes of the wave not started; batch: those of the current
\* gather, att, got and post their attempts, results and pending requests.
NoRun == [phase |-> "idle", proc |-> None, def |-> None, version |-> 0,
          dry |-> TRUE, key |-> None, retain |-> FALSE,
          trace |-> << >>, out |-> << >>, queue |-> << >>, batch |-> {},
          att |-> << >>, got |-> << >>, post |-> {},
          failed |-> FALSE, review |-> FALSE, ids |-> {}]

Traced(r) == DOMAIN run[r].trace

Pending(r) == Ids(run[r].def) \ Traced(r)

Status(r) == IF run[r].failed THEN "failed"
             ELSE IF run[r].review THEN "review" ELSE "completed"

Init ==
    /\ graphs \in {<<d>> : d \in {d \in Initial : Valid(d)}}
    /\ saved = {}
    /\ txn = [p \in Procs |-> "none"]
    /\ dirty = [p \in Procs |-> << >>]
    /\ dirtyRuns = [p \in Procs |-> {}]
    /\ putting = [p \in Procs |-> None]
    /\ acked = {<<1, graphs[1]>>}
    /\ run = [r \in Runs |-> NoRun]
    /\ reviews = {}
    /\ enabled = TRUE
    /\ posts = {} /\ handled = {} /\ performed = {}
    /\ crashes = 0

-----------------------------------------------------------------------------
(* SQLite with a rollback journal.  "begun": BEGIN DEFERRED without a lock; *)
(* "shared": it has read; "reserved": it has written, or failed to;         *)
(* "pending": its COMMIT failed, and new readers are kept out.              *)

Others(p) == Procs \ {p}

CanRead(p) == \/ txn[p] \in {"shared", "reserved", "pending"}
              \/ \A q \in Others(p) : txn[q] # "pending"

CanWrite(p) == \A q \in Others(p) : txn[q] \notin {"reserved", "pending"}

CanCommit(p) == \A q \in Others(p) : txn[q] # "shared"

\* A SELECT inside an open transaction keeps its lock.
AfterRead(p) == IF txn[p] = "begun" THEN [txn EXCEPT ![p] = "shared"] ELSE txn

AfterBusyWrite(p) == IF txn[p] = "none" THEN [txn EXCEPT ![p] = "begun"] ELSE txn

AfterFailedInsert(p) == IF txn[p] = "pending" THEN txn
                        ELSE [txn EXCEPT ![p] = "reserved"]

Visible(p) == graphs \o dirty[p]

\* INSERT and COMMIT of versions vs and run records rs.
Commit(p, vs, rs) ==
    IF CanCommit(p)
    THEN /\ graphs' = Visible(p) \o vs
         /\ saved' = saved \cup dirtyRuns[p] \cup rs
         /\ dirty' = [dirty EXCEPT ![p] = << >>]
         /\ dirtyRuns' = [dirtyRuns EXCEPT ![p] = {}]
         /\ txn' = [txn EXCEPT ![p] = "none"]
    ELSE /\ dirty' = [dirty EXCEPT ![p] = @ \o vs]
         /\ dirtyRuns' = [dirtyRuns EXCEPT ![p] = @ \cup rs]
         /\ txn' = [txn EXCEPT ![p] = "pending"]
         /\ UNCHANGED <<graphs, saved>>

-----------------------------------------------------------------------------
(* put_graph, in one process at a time under the connection's lock *)

PutRead(p, d) ==
    /\ putting[p] = None
    /\ Valid(d)
    /\ CanRead(p)
    /\ Len(Visible(p)) < Scope[graphs[1]].versions
    /\ putting' = [putting EXCEPT ![p] = [def |-> d, max |-> Len(Visible(p))]]
    /\ txn' = AfterRead(p)
    /\ UNCHANGED <<graphs, saved, dirty, dirtyRuns, acked, run, world, crashes>>

\* Mutant: the row of the same version is replaced.
PutReplace(p) ==
    /\ putting[p] # None
    /\ CanWrite(p) /\ CanCommit(p)
    /\ LET put == putting[p]
           v == put.max + 1
       IN  /\ graphs' = SubSeq(Visible(p), 1, v - 1) \o <<put.def>>
           /\ acked' = acked \cup {<<v, put.def>>}
    /\ txn' = [txn EXCEPT ![p] = "none"]
    /\ putting' = [putting EXCEPT ![p] = None]
    /\ UNCHANGED <<saved, dirty, dirtyRuns, run, world, crashes>>

\* INSERT of the version after the one read; the primary key keeps it unique.
PutInsert(p) ==
    /\ putting[p] # None
    /\ putting' = [putting EXCEPT ![p] = None]
    /\ LET put == putting[p]
           v == put.max + 1
       IN  \/ /\ CanWrite(p) /\ v > Len(Visible(p))
              /\ Commit(p, <<put.def>>, {})
              /\ acked' = IF CanCommit(p) THEN acked \cup {<<v, put.def>>} ELSE acked
           \/ /\ CanWrite(p) /\ v <= Len(Visible(p))
              /\ txn' = AfterFailedInsert(p)
              /\ UNCHANGED <<graphs, saved, dirty, dirtyRuns, acked>>
           \/ /\ ~ CanWrite(p)
              /\ txn' = AfterBusyWrite(p)
              /\ UNCHANGED <<graphs, saved, dirty, dirtyRuns, acked>>
    /\ UNCHANGED <<run, world, crashes>>

-----------------------------------------------------------------------------
(* run_graph and replay_run: the definition is read once *)

Launch(r, p, v, q) ==
    /\ r \in Scope[graphs[1]].runs
    /\ run[r].phase = "idle"
    /\ putting[p] = None
    /\ CanRead(p)
    /\ v \in 1 .. Len(Visible(p))
    /\ run' = [run EXCEPT ![r] = [NoRun EXCEPT !.phase = "wave", !.proc = p,
                !.def = Visible(p)[v], !.version = v,
                !.dry = q.dry, !.key = q.key, !.retain = q.retain]]
    /\ txn' = AfterRead(p)
    /\ UNCHANGED <<graphs, saved, dirty, dirtyRuns, putting, acked, world, crashes>>

\* The version asked for, or the latest.
Start(r, p) ==
    \E v \in 1 .. Len(Visible(p)), q \in Scope[graphs[1]].requests : Launch(r, p, v, q)

\* A replay has no idempotency_key and retains nothing.
Replay(r, p, q) ==
    /\ q \in saved \cup dirtyRuns[p]
    /\ run[q].retain
    /\ \E dry \in BOOLEAN :
         Launch(r, p, run[q].version, [dry |-> dry, key |-> None, retain |-> FALSE])

OnlyRun(r, new) ==
    /\ run' = [run EXCEPT ![r] = new]
    /\ UNCHANGED <<store, crashes>>

-----------------------------------------------------------------------------
(* The loop of DecisionGraphRuntime.run *)

Extend(f, S, v) == [m \in DOMAIN f \cup S |-> IF m \in S THEN v ELSE f[m]]

\* The next max_parallel nodes of the queue start their first attempt.
NextBatch(R, queue) ==
    LET k == IF R.def.maxParallel < Len(queue) THEN R.def.maxParallel ELSE Len(queue)
        batch == {queue[i] : i \in 1 .. k}
    IN  [R EXCEPT !.phase = "batch", !.batch = batch,
                  !.queue = SubSeq(queue, k + 1, Len(queue)),
                  !.att = [n \in batch |-> 1], !.got = << >>, !.post = {}]

\* Mutant: a failed parent activates its children.
ActiveAnyParent(R, n) ==
    \/ Incoming(R.def, n) = {}
    \/ \E e \in Incoming(R.def, n) :
         R.trace[e.source] # "skipped" /\ EdgeHolds(e, R.out)

Active(R, n) ==
    \/ Incoming(R.def, n) = {}
    \/ \E e \in Incoming(R.def, n) :
         R.trace[e.source] = "completed" /\ EdgeHolds(e, R.out)

NextWave(r) ==
    LET R == run[r]
        open == {n \in Pending(r) : Parents(R.def, n) \subseteq Traced(r)}
        ready == Picked(TopologicalOrder(R.def), open)
        runnable == Picked(ready, {n \in open : Active(R, n)})
        skipped == {ready[i] : i \in DOMAIN ready}
                      \ {runnable[i] : i \in DOMAIN runnable}
        S == [R EXCEPT !.trace = Extend(@, skipped, "skipped")]
    IN  /\ R.phase = "wave" /\ Pending(r) # {}
        /\ OnlyRun(r, IF ready = << >>
                      THEN [R EXCEPT !.failed = TRUE, !.phase = "ended"]
                      ELSE IF runnable = << >> THEN S ELSE NextBatch(S, runnable))
        /\ UNCHANGED world

\* The deadline is looked at before a wave, not inside one.
Expire(r) ==
    /\ "deadline" \in Scope[graphs[1]].faults
    /\ run[r].phase = "wave" /\ Pending(r) # {}
    /\ OnlyRun(r, [run[r] EXCEPT !.trace = Extend(@, Pending(r), "expired"),
                                 !.failed = TRUE, !.phase = "ended"])
    /\ UNCHANGED world

WavesDone(r) ==
    /\ run[r].phase = "wave" /\ Pending(r) = {}
    /\ OnlyRun(r, [run[r] EXCEPT !.phase = "ended"])
    /\ UNCHANGED world

\* gather() returned: the traces of the batch in its order.
BatchEnd(r) ==
    LET R == run[r]
        bad == {n \in R.batch : R.got[n] = "failed"}
        good == R.batch \ bad
        queued == {n \in good : R.def.kind[n] = "review"}
        failed == \E n \in bad : R.def.onError[n] = "fail"
        S == [R EXCEPT
                !.trace = Extend(Extend(@, good, "completed"), bad, "failed"),
                !.out = [n \in DOMAIN @ \cup good |-> IF n \in good THEN R.got[n] ELSE @[n]],
                !.ids = @ \cup {<<n, R.att[n]>> : n \in queued},
                !.review = \/ @
                           \/ queued # {}
                           \/ \E n \in good : R.got[n] = "unsure"
                           \/ \E n \in bad : R.def.onError[n] = "review",
                !.failed = failed,
                !.batch = {}, !.att = << >>, !.got = << >>, !.post = {}]
    IN  /\ R.phase = "batch" /\ DOMAIN R.got = R.batch
        /\ OnlyRun(r,
             IF failed
             THEN [S EXCEPT !.trace = Extend(@, Ids(R.def) \ DOMAIN @, "aborted"),
                            !.queue = << >>, !.phase = "ended"]
             ELSE IF R.queue # << >> THEN NextBatch(S, R.queue)
                  ELSE [S EXCEPT !.phase = "wave"])
        /\ UNCHANGED world

-----------------------------------------------------------------------------
(* _execute_node: attempts of the nodes of the batch, in any order *)

Running(r, n) ==
    run[r].phase = "batch" /\ n \in run[r].batch \ DOMAIN run[r].got

Got(R, n, v) == [R EXCEPT !.got = Extend(@, {n}, v)]

\* Mutant: the last attempt that fails leaves no result.
RetryUnbounded(R, n) ==
    LET S == [R EXCEPT !.post = @ \ {n}]
    IN  IF R.att[n] <= R.def.retries THEN [S EXCEPT !.att[n] = @ + 1] ELSE S

\* An exception or a timeout: another attempt, or the node has failed.
Retry(R, n) ==
    LET S == [R EXCEPT !.post = @ \ {n}]
    IN  IF R.att[n] <= R.def.retries THEN [S EXCEPT !.att[n] = @ + 1]
        ELSE Got(S, n, "failed")

AttemptFails(r, n) ==
    /\ Running(r, n)
    /\ IF run[r].def.kind[n] = "gate" THEN Misconfigured(run[r].def.gate)
       ELSE "node" \in Scope[graphs[1]].faults \/ n \in run[r].post
    /\ OnlyRun(r, Retry(run[r], n))
    /\ UNCHANGED world

SemanticNode(r, n) ==
    /\ Running(r, n)
    /\ run[r].def.kind[n] = "semantic"
    /\ \E v \in Answers : OnlyRun(r, Got(run[r], n, v))
    /\ UNCHANGED world

\* Against the snapshot, which is the state before the batch.
GateNode(r, n) ==
    /\ Running(r, n)
    /\ run[r].def.kind[n] = "gate"
    /\ ~ Misconfigured(run[r].def.gate)
    /\ OnlyRun(r, Got(run[r], n, IF GatePasses(run[r].def.gate, run[r].out)
                                 THEN "yes" ELSE "no"))
    /\ UNCHANGED world

\* Mutant: the item is reported although the project refused it.
ReviewRefused(r, n) ==
    /\ Running(r, n)
    /\ run[r].def.kind[n] = "review"
    /\ reviews' = reviews \cup {[run |-> r, node |-> n, att |-> run[r].att[n],
                                 owned |-> enabled]}
    /\ OnlyRun(r, Got(run[r], n, "queued"))
    /\ UNCHANGED <<enabled, posts, handled, performed>>

\* create() commits the item before register_resource refuses it.
ReviewNode(r, n) ==
    /\ Running(r, n)
    /\ run[r].def.kind[n] = "review"
    /\ reviews' = reviews \cup {[run |-> r, node |-> n, att |-> run[r].att[n],
                                 owned |-> enabled]}
    /\ OnlyRun(r, IF enabled THEN Got(run[r], n, "queued") ELSE Retry(run[r], n))
    /\ UNCHANGED <<enabled, posts, handled, performed>>

\* emit, and a webhook in a dry run.
Simulate(r, n) ==
    /\ Running(r, n)
    /\ \/ run[r].def.kind[n] = "emit"
       \/ run[r].def.kind[n] = "webhook" /\ run[r].dry
    /\ OnlyRun(r, Got(run[r], n, IF run[r].dry THEN "simulated" ELSE "emitted"))
    /\ UNCHANGED world

\* Mutant: each attempt has an Idempotency-Key of its own.
KeyPerAttempt(r, n) == <<r, n, run[r].att[n]>>

Key(r, n) == IF run[r].key # None THEN <<"client", run[r].key>> ELSE <<r, n>>

Request(r, n) == [run |-> r, node |-> n, att |-> run[r].att[n], key |-> Key(r, n)]

PostWebhook(r, n) ==
    /\ Running(r, n)
    /\ run[r].def.kind[n] = "webhook" /\ ~ run[r].dry
    /\ n \notin run[r].post
    /\ posts' = posts \cup {Request(r, n)}
    /\ OnlyRun(r, [run[r] EXCEPT !.post = @ \cup {n}])
    /\ UNCHANGED <<reviews, enabled, handled, performed>>

WebhookAnswers(r, n) ==
    /\ Running(r, n)
    /\ n \in run[r].post
    /\ Request(r, n) \in handled
    /\ OnlyRun(r, Got(run[r], n, "sent"))
    /\ UNCHANGED world

\* The receiver, outside the repository: it acts once on each key, and it may
\* get a request after the caller gave up.
Receive(m) ==
    /\ m \in posts \ handled
    /\ handled' = handled \cup {m}
    /\ performed' = IF \E e \in performed : e.key = m.key THEN performed
                    ELSE performed \cup {m}
    /\ UNCHANGED <<store, run, reviews, enabled, posts, crashes>>

-----------------------------------------------------------------------------
(* The end of the request, the project and the process *)

\* save_run; the caller gets an error when it cannot be committed.
SaveRun(r) ==
    LET p == run[r].proc
    IN  /\ run[r].phase = "ended"
        /\ putting[p] = None
        /\ \/ /\ CanWrite(p)
              /\ Commit(p, << >>, {r})
           \/ /\ ~ CanWrite(p)
              /\ txn' = AfterBusyWrite(p)
              /\ UNCHANGED <<graphs, saved, dirty, dirtyRuns>>
        /\ run' = [run EXCEPT ![r].phase = IF CanWrite(p) /\ CanCommit(p)
                                           THEN "answered" ELSE "lost"]
        /\ UNCHANGED <<putting, acked, world, crashes>>

\* update_project of the enterprise store.
ToggleProject ==
    /\ "project" \in Scope[graphs[1]].faults
    /\ enabled' = ~ enabled
    /\ UNCHANGED <<store, run, reviews, posts, handled, performed, crashes>>

\* The process ends; SQLite rolls its open transaction back.
Crash(p) ==
    /\ crashes < MaxCrashes
    /\ crashes' = crashes + 1
    /\ run' = [r \in Runs |->
                 IF run[r].proc = p /\ run[r].phase \in {"wave", "batch", "ended"}
                 THEN [run[r] EXCEPT !.phase = "crashed"] ELSE run[r]]
    /\ txn' = [txn EXCEPT ![p] = "none"]
    /\ dirty' = [dirty EXCEPT ![p] = << >>]
    /\ dirtyRuns' = [dirtyRuns EXCEPT ![p] = {}]
    /\ putting' = [putting EXCEPT ![p] = None]
    /\ UNCHANGED <<graphs, saved, acked, world>>

-----------------------------------------------------------------------------
NodeStep(r, n) ==
    \/ AttemptFails(r, n) \/ SemanticNode(r, n) \/ GateNode(r, n) \/ ReviewNode(r, n)
    \/ Simulate(r, n) \/ PostWebhook(r, n) \/ WebhookAnswers(r, n)

RunStep(r) ==
    \/ NextWave(r) \/ Expire(r) \/ WavesDone(r) \/ BatchEnd(r) \/ SaveRun(r)
    \/ \E n \in Nodes : NodeStep(r, n)

Next ==
    \/ \E p \in Scope[graphs[1]].procs :
         \/ \E d \in Updates : PutRead(p, d)
         \/ PutInsert(p)
         \/ Crash(p)
         \/ \E r \in Runs : Start(r, p)
         \/ \E r, q \in Runs : Replay(r, p, q)
    \/ \E r \in Runs : RunStep(r)
    \/ \E m \in posts : Receive(m)
    \/ ToggleProject

Spec == Init /\ [][Next]_vars

\* Timeouts and bounded retries end every attempt, and the event loop runs
\* every task that is ready, also one that finds the store busy with the
\* versions that other requests keep sending.
Fairness ==
    /\ \A r \in Runs : WF_vars(RunStep(r)) /\ SF_vars(SaveRun(r))
    /\ \A p \in Procs : WF_vars(PutInsert(p))

FairSpec == Spec /\ Fairness

-----------------------------------------------------------------------------
(* Properties *)

PartialMap(f, S, T) == DOMAIN f \subseteq S /\ f \in [DOMAIN f -> T]

RunOK(R) ==
    /\ R.phase \in Phases
    /\ R.proc \in Procs \cup {None}
    /\ R.def \in Initial \cup Updates \cup {None}
    /\ R.version \in Nat
    /\ {R.dry, R.retain, R.failed, R.review} \subseteq BOOLEAN
    /\ R.key \in (UNION {{q.key : q \in Scope[d].requests} : d \in Initial}) \cup {None}
    /\ PartialMap(R.trace, Nodes, Traces)
    /\ PartialMap(R.out, Nodes, Outputs)
    /\ R.queue \in Seq(Nodes)
    /\ R.batch \subseteq Nodes
    /\ PartialMap(R.att, Nodes, Nat)
    /\ PartialMap(R.got, R.batch, Outputs \cup {"failed"})
    /\ R.post \subseteq R.batch
    /\ R.ids \subseteq Nodes \X Nat

\* Every variable has its type, and every stored version is a valid graph.
TypeOK ==
    /\ graphs \in Seq(Initial \cup Updates)
    /\ saved \subseteq Runs
    /\ txn \in [Procs -> {"none", "begun", "shared", "reserved", "pending"}]
    /\ dirty \in [Procs -> Seq(Updates)]
    /\ dirtyRuns \in [Procs -> SUBSET Runs]
    /\ putting \in [Procs -> [def : Updates, max : Nat] \cup {None}]
    /\ acked \subseteq Nat \X (Initial \cup Updates)
    /\ DOMAIN run = Runs /\ \A r \in Runs : RunOK(run[r])
    /\ \A e \in reviews : e.run \in Runs /\ e.node \in Nodes
    /\ performed \subseteq handled /\ handled \subseteq posts
    /\ enabled \in BOOLEAN
    /\ crashes \in 0 .. MaxCrashes

Over == {"ended", "answered", "lost"}

\* The longest path to n: the wave it is ready in.
Level(d) ==
    LET level[n \in Ids(d)] ==
          IF Parents(d, n) = {} THEN 1
          ELSE 1 + (CHOOSE k \in {level[m] : m \in Parents(d, n)} :
                      \A m \in Parents(d, n) : level[m] <= k)
    IN  level

\* The traces of a run that did not fail are those the graph prescribes,
\* whatever the batches and the order in which nodes ended: a node was skipped
\* exactly when no parent completed over an edge that holds on the outputs of
\* the earlier waves (DecisionGraphRuntime.run).
TraceMeaning ==
    \A r \in Runs : run[r].phase \in Over /\ ~ run[r].failed =>
        LET R == run[r]
            level == Level(R.def)
            Before(n) == [m \in {m \in DOMAIN R.out : level[m] < level[n]} |-> R.out[m]]
        IN  /\ Traced(r) = Ids(R.def)
            /\ \A n \in Ids(R.def) :
                 (R.trace[n] = "skipped") <=>
                    /\ Parents(R.def, n) # {}
                    /\ ~ \E e \in Incoming(R.def, n) :
                           /\ R.trace[e.source] = "completed"
                           /\ EdgeHolds(e, Before(n))

\* The status a caller sees: every node of a finished run has a trace, a failed
\* run names the node or the deadline that failed it, and a completed one left
\* nothing to a human (the status of GraphRunResponse).
VerdictExplained ==
    \A r \in Runs : run[r].phase \in Over =>
        LET R == run[r]
            failures == {n \in Traced(r) : R.trace[n] = "failed"}
        IN  /\ Traced(r) = Ids(R.def)
            /\ Status(r) = "failed" <=>
                 \/ \E n \in failures : R.def.onError[n] = "fail"
                 \/ \E n \in Traced(r) : R.trace[n] = "expired"
            /\ Status(r) = "completed" =>
                 /\ \A n \in failures : R.def.onError[n] = "skip"
                 /\ ~ \E e \in reviews : e.run = r /\ e.owned

\* A finished run reports the review items its project owns, one a node,
\* although an attempt may leave an item nobody owns (_review_node).
ReviewsReported ==
    \A r \in Runs : run[r].phase \in Over =>
        /\ run[r].ids = {<<e.node, e.att>> : e \in {e \in reviews : e.run = r /\ e.owned}}
        /\ \A x, y \in run[r].ids : x[1] = y[1] => x = y

\* Under the default key a webhook is acted on at most once by a node of a
\* run, however often it is sent, and exactly once when the run says so; a dry
\* run sends nothing (_action_node).
WebhookOnce ==
    \A r \in Runs :
        /\ run[r].dry => \A e \in performed : e.run # r
        /\ \A e, f \in performed :
             e.run = r /\ f.run = r /\ e.node = f.node => e = f
        /\ run[r].key = None =>
             \A n \in DOMAIN run[r].out : run[r].out[n] = "sent" =>
                \E e \in performed : e.run = r /\ e.node = n

\* What a client was told of a version stays true, and the version a run's
\* record names is the definition it ran, although connections leave
\* transactions open (put_graph, save_run).
VersionsStable ==
    /\ \A a \in acked : a[1] <= Len(graphs) /\ graphs[a[1]] = a[2]
    /\ \A r \in saved : graphs[run[r].version] = run[r].def

\* Every run ends, unless its process does (timeouts, retries, max_runtime_ms).
RunEnds ==
    \A r \in Runs : (run[r].phase \in {"wave", "batch", "ended"})
                        ~> (run[r].phase \in {"answered", "lost", "crashed"})

\* An action reported as executed was executed, also when the caller chose the
\* Idempotency-Key of the run (_action_node: "executed": True).  Violated: a
\* receiver drops the second action of two runs with one key.
ExecutedWasPerformed ==
    \A r \in Runs : \A n \in DOMAIN run[r].out : run[r].out[n] = "sent" =>
        \E e \in performed : e.run = r /\ e.node = n

\* No two processes hold locks each needs the other to give up: with them no
\* version and no run can be stored again.  Violated: an INSERT that fails, as a
\* duplicate or for a busy database, leaves its transaction open (put_graph).
NoWedge ==
    \A p, q \in Procs : p # q => ~ (txn[p] \in {"reserved", "pending"} /\ txn[q] = "shared")

=============================================================================
