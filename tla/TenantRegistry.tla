---------------------------- MODULE TenantRegistry ----------------------------
(***************************************************************************)
(* Projects and the resources they own: app/tenant_resources.py and the    *)
(* project table of app/enterprise_store.py, with the calls in progress    *)
(* that the control plane and the project API make of them.                *)
(*                                                                         *)
(* Every server process has one connection to each SQLite file, behind a   *)
(* lock.  A SELECT is a step of its own and a transaction is another: the  *)
(* sqlite3 module opens a transaction only at the first write.  The body   *)
(* of an async handler runs on the event loop of its process up to its     *)
(* next await; dependencies written as plain functions run in threads.     *)
(***************************************************************************)
EXTENDS Naturals, FiniteSets

CONSTANTS
    Procs,      \* server processes
    Projects,
    Datasets, Reviews, Models,   \* resource ids
    Decision,   \* the decision_id of each dataset, review and model
    Calls,      \* requests of clients and operators
    Scopes,     \* what is explored: the processes, the kinds of call that
                \* each request may be, and the bounds of the modules
    None

Resources == Datasets \cup Reviews \cup Models

\* What clients and operators ask for.
Kinds == {"infer", "predict", "model_predict", "ws", "update", "promote", "rollback",
          "create_dataset", "delete_dataset", "import", "train", "add",
          "create_review", "resolve_review"}

\* A row of the project table.
ProjectRows == [enabled : BOOLEAN, quota : Nat]

ASSUME TenantAssumption ==
    /\ IsFiniteSet(Procs) /\ IsFiniteSet(Calls)
    /\ Datasets \cap Reviews = {} /\ Datasets \cap Models = {} /\ Reviews \cap Models = {}
    /\ None \notin Projects \cup Resources \cup Procs \cup Kinds /\ None \notin ProjectRows
    /\ \A s \in Scopes :
         /\ s.procs \subseteq Procs /\ s.models \subseteq Models
         /\ \A i \in DOMAIN s.projects : s.projects[i] \in ProjectRows
         /\ \A r \in DOMAIN s.owner : s.owner[r] \in Projects

VARIABLES
    scope,      \* chosen at the start
    projects,   \* the row of each project: enabled and quota
    owner,      \* project_resources
    models,     \* the local models that exist (external: the model directory)
    call,       \* the calls
    crashes     \* process crashes so far

registryVars == <<scope, projects, owner, models, call, crashes>>

-----------------------------------------------------------------------------
(* Calls *)

\* pc: the statement to run next; proj, res: the project and the resource;
\* key: its credential; quota: the one authenticate read; from: a row or id it
\* read; rows, print: the examples it read, and the fingerprint.
NoCall == [kind |-> None, proc |-> None, pc |-> "idle", proj |-> None, res |-> None,
           key |-> None, quota |-> 0, from |-> None, rows |-> {}, print |-> {},
           answer |-> None]

\* The awaits: where a call is when it does not hold the event loop.
Awaiting == {"idle", "done", "crashed", "open", "serving", "training", "benchmark"}

\* Dependencies of the project API authenticate in a thread.
InThread(c) ==
    /\ call[c].pc \in {"row", "count", "countWrite"}
    /\ call[c].kind \notin {"infer", "ws"}

\* The statement an authenticated call goes on with.
Entry(c) == CASE call[c].kind = "infer" -> IF call[c].res = None THEN "serving" ELSE "owned"
              [] call[c].kind = "predict" -> "deployment"
              [] call[c].kind = "ws" -> "serving"
              [] call[c].kind \in {"create_dataset", "create_review"} -> "create"
              [] OTHER -> "owned"

\* Its thread has ended and it waits for the event loop.
Waits(c) == call[c].kind \notin {"infer", "ws"} /\ call[c].pc = Entry(c)

OnLoop(c) == call[c].pc \notin Awaiting /\ ~ InThread(c) /\ ~ Waits(c)

LoopFree(p, S) == \A d \in S : call[d].proc = p => ~ OnLoop(d)

\* c may go on: it is in a thread, or no other call holds the loop of its process.
CanRun(c) == InThread(c) \/ LoopFree(call[c].proc, Calls \ {c})

Running(c, pc) == call[c].pc = pc /\ CanRun(c)

Goto(c, pc) == call' = [call EXCEPT ![c].pc = pc]

Answer(c, status) == call' = [call EXCEPT ![c].pc = "done", ![c].answer = status]

\* A request arrives at a process.
Arrives(c, p, kind) ==
    /\ call[c].pc = "idle"
    /\ p \in scope.procs
    /\ LoopFree(p, Calls)
    /\ c \in DOMAIN scope.kinds
    /\ kind \in scope.kinds[c]

-----------------------------------------------------------------------------
(* register_resource, assert_owner, unregister_resource *)

Known(i) == projects[i] # None

Enabled(i) == Known(i) /\ projects[i].enabled

Owns(i, r) == owner[r] = i

\* How a call ends whose resource was registered, or was not.
RegisterFails(c) ==
    IF call[c].kind = "create_dataset" THEN Goto(c, "undo") ELSE Answer(c, "failed")

Registered(c) ==
    IF call[c].kind = "promote" THEN Goto(c, "get") ELSE Answer(c, "ok")

\* _require_project
RequireProject(c) ==
    /\ Running(c, "require")
    /\ IF Enabled(call[c].proj) THEN Goto(c, "select") ELSE RegisterFails(c)
    /\ UNCHANGED <<scope, projects, owner, models, crashes>>

SelectOwner(c) ==
    LET saw == owner[call[c].res]
    IN  /\ Running(c, "select")
        /\ IF saw = None THEN Goto(c, "insert")
           ELSE IF saw = call[c].proj
                THEN Registered(c)
                ELSE RegisterFails(c)
        /\ UNCHANGED <<scope, projects, owner, models, crashes>>

\* The primary key refuses a second row of the resource.
InsertOwner(c) ==
    LET r == call[c].res
    IN  /\ Running(c, "insert")
        /\ IF owner[r] = None
           THEN /\ owner' = [owner EXCEPT ![r] = call[c].proj]
                /\ Registered(c)
           ELSE /\ RegisterFails(c)
                /\ UNCHANGED owner
        /\ UNCHANGED <<scope, projects, models, crashes>>

=============================================================================
