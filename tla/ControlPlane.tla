----------------------------- MODULE ControlPlane -----------------------------
(***************************************************************************)
(* The enterprise control plane: app/enterprise_store.py, the middleware   *)
(* and routes of app/enterprise_api.py, the model prediction route of      *)
(* app/tenant_api.py and the realtime WebSocket of app/main.py.            *)
(*                                                                         *)
(* A call authenticates with a project key, is counted against the daily   *)
(* quota, is served, and leaves a row in the audit table.  Operators       *)
(* change projects and keys, and promote and roll back the model of a      *)
(* project; one decision and environment of each project stands for all.   *)
(***************************************************************************)
EXTENDS TenantRegistry, Sequences

CONSTANTS
    Keys,         \* project keys
    Days,         \* consecutive days, 1 .. n
    Slot          \* the decision_id models are promoted for

\* A row of the key table; the scopes a key may have.
KeyRows == [proj : Projects,
            scopes : SUBSET {"inference", "realtime", "models", "datasets", "reviews"},
            valid : BOOLEAN]

\* What an operator may send to update_project.
IsChange(x) == /\ "enabled" \in DOMAIN x => x.enabled \in BOOLEAN
               /\ "quota" \in DOMAIN x => x.quota \in Nat

ASSUME ControlAssumption ==
    /\ Days \subseteq Nat /\ 1 \in Days
    /\ \A s \in Scopes :
         /\ \A k \in DOMAIN s.keys : s.keys[k] \in KeyRows
         /\ s.created \subseteq ProjectRows
         /\ s.issued \subseteq SUBSET {"inference", "realtime", "models", "datasets", "reviews"}
         /\ \A x \in s.changes : IsChange(x)

VARIABLES
    keys,       \* the project, scopes and validity of each key
    day,        \* today
    usage,      \* usage_daily
    top,        \* the largest quota a project had
    counted,    \* the requests and messages that were counted: of which call,
                \* for which project and day, as which of them
    audit,      \* the status codes audited for each call
    deployed,   \* model_deployments
    history     \* model_deployment_history

controlVars == <<keys, day, usage, top, counted, audit, deployed, history>>

-----------------------------------------------------------------------------
(* The store's lock is held from the first statement of a block to its     *)
(* commit.                                                                 *)

HoldsStore(c) == call[c].pc \in {"countWrite", "write"}

At(c, pc) ==
    /\ Running(c, pc)
    /\ \A d \in Calls \ {c} : call[d].proc = call[c].proc => ~ HoldsStore(d)

OnlyCall == UNCHANGED <<scope, projects, owner, models, crashes, controlVars>>

-----------------------------------------------------------------------------
(* authenticate *)

\* The scope a call needs, and whether it is counted.
Needs(kind) == CASE kind \in {"infer", "predict"} -> "inference"
                 [] kind = "ws" -> "realtime"
                 [] kind = "model_predict" -> "models"
                 [] kind \in {"create_review", "resolve_review"} -> "reviews"
                 [] OTHER -> "datasets"

Counted == {"infer", "predict", "model_predict", "ws"}

KeyOK(c) ==
    LET k == keys[call[c].key]
    IN  /\ k # None
        /\ Enabled(k.proj)
        /\ k.valid
        /\ Needs(call[c].kind) \in k.scopes

\* The key and its project, in one SELECT.
ReadKey(c) ==
    LET k == keys[call[c].key]
        a == call[c]
    IN  /\ At(c, "row")
        /\ IF KeyOK(c)
           THEN call' = [call EXCEPT ![c] = [a EXCEPT
                    !.proj = k.proj, !.quota = projects[k.proj].quota,
                    !.pc = IF a.kind \in Counted THEN "count" ELSE Entry(c)]]
           ELSE Answer(c, "401")
        /\ OnlyCall

\* Mutant: the quota is compared with the count the SELECT of the key saw.
CountUnchecked(c) ==
    /\ At(c, "count")
    /\ Goto(c, "countWrite")
    /\ OnlyCall

\* SELECT of today's count, before the transaction has begun.
ReadUsage(c) ==
    LET a == call[c]
    IN  /\ At(c, "count")
        /\ IF usage[a.proj][day] < a.quota THEN Goto(c, "countWrite")
           ELSE IF a.kind = "ws" THEN Goto(c, "refusal") ELSE Answer(c, "429")
        /\ OnlyCall

CountUsage(c) ==
    LET i == call[c].proj
    IN  /\ At(c, "countWrite")
        /\ usage' = [usage EXCEPT ![i][day] = @ + 1]
        /\ counted' = counted \cup {[call |-> c, proj |-> i, day |-> day, nth |-> usage[i][day] + 1]}
        /\ Goto(c, Entry(c))
        /\ UNCHANGED <<scope, projects, owner, models, crashes, keys, day, top, audit,
                       deployed, history>>

\* The requests of a call, and those of a project on a day, that were counted.
CountedOf(c) == {e \in counted : e.call = c}

Charged(i, d) == {e \in counted : e.proj = i /\ e.day = d}

-----------------------------------------------------------------------------
(* Inference: the middleware, project_deployed_predict, predict_project_model *)

\* A key, and for the prediction routes a model.
Infer(c, p, kind, k, m) ==
    /\ Arrives(c, p, kind)
    /\ kind \in {"infer", "predict", "model_predict"}
    /\ kind = "predict" => m = None
    /\ kind = "model_predict" => m # None
    /\ call' = [call EXCEPT ![c] = [NoCall EXCEPT !.kind = kind, !.proc = p, !.pc = "row",
                                                  !.key = k, !.res = m]]
    /\ OnlyCall

\* What is not owned is refused before the audited part of the two routes that
\* name a model, and inside it when the model is the deployed one.
AssertModel(c) ==
    LET a == call[c]
    IN  /\ At(c, "owned") /\ a.kind \in Counted
        /\ IF Owns(a.proj, a.res) THEN Goto(c, "serving")
           ELSE IF a.kind = "predict"
                THEN call' = [call EXCEPT ![c].pc = "audit", ![c].answer = "404"]
                ELSE Answer(c, "404")
        /\ OnlyCall

\* The body of a prediction is validated after the dependency has counted it and
\* before the first statement of its route, which is not entered.
RefuseBody(c) ==
    /\ call[c].kind \in {"predict", "model_predict"}
    /\ Running(c, Entry(c))
    /\ Answer(c, "422")
    /\ OnlyCall

GetDeployment(c) ==
    LET d == deployed[call[c].proj]
    IN  /\ At(c, "deployment")
        /\ IF d = None
           THEN call' = [call EXCEPT ![c].pc = "audit", ![c].answer = "404"]
           ELSE call' = [call EXCEPT ![c].pc = "owned", ![c].res = d.model]
        /\ OnlyCall

\* The handler, or the dispatch of a message, ends with a status.
Serve(c) ==
    /\ At(c, "serving")
    /\ \E status \in IF call[c].kind = "ws" THEN {"200", "400"} ELSE {"200", "500"} :
         call' = [call EXCEPT ![c].pc = "audit", ![c].answer = status]
    /\ OnlyCall

\* Mutant: only calls that were served are audited.
AuditServed(c) ==
    LET a == call[c]
    IN  /\ At(c, "audit")
        /\ audit' = IF a.answer = "200" THEN [audit EXCEPT ![c] = Append(@, a.answer)] ELSE audit
        /\ Goto(c, IF a.kind = "ws" THEN "open" ELSE "done")
        /\ UNCHANGED <<scope, projects, owner, models, crashes, keys, day, usage, top, counted,
                       deployed, history>>

\* The finally of each of them.
Audit(c) ==
    LET a == call[c]
    IN  /\ At(c, "audit")
        /\ audit' = [audit EXCEPT ![c] = Append(@, a.answer)]
        /\ Goto(c, IF a.kind = "ws" THEN "open" ELSE "done")
        /\ UNCHANGED <<scope, projects, owner, models, crashes, keys, day, usage, top, counted,
                       deployed, history>>

-----------------------------------------------------------------------------
(* realtime_ws *)

\* The connection is authenticated and not counted.
Connect(c, p, k) ==
    /\ Arrives(c, p, "ws")
    /\ call' = [call EXCEPT ![c] = [NoCall EXCEPT !.kind = "ws", !.proc = p,
                                                  !.pc = "connect", !.key = k]]
    /\ OnlyCall

Accept(c) ==
    /\ At(c, "connect")
    /\ IF KeyOK(c) THEN call' = [call EXCEPT ![c].pc = "open",
                                             ![c].proj = keys[call[c].key].proj]
                   ELSE Answer(c, "401")
    /\ OnlyCall

\* Each message is authenticated again; the client may also leave.
Message(c) ==
    /\ At(c, "open")
    /\ Cardinality(CountedOf(c)) < scope.messages
    /\ Goto(c, "row")
    /\ OnlyCall

Disconnect(c) ==
    /\ At(c, "open")
    /\ Goto(c, "done")
    /\ OnlyCall

\* The quota is used up: a row for the refusal, and the connection is closed.
RefuseMessage(c) ==
    /\ At(c, "refusal")
    /\ audit' = [audit EXCEPT ![c] = Append(@, "429")]
    /\ Answer(c, "429")
    /\ UNCHANGED <<scope, projects, owner, models, crashes, keys, day, usage, top, counted,
                   deployed, history>>

-----------------------------------------------------------------------------
(* Operators *)

Larger(a, b) == IF a > b THEN a ELSE b

CreateProject(i) ==
    /\ projects[i] = None
    /\ \E row \in scope.created :
         /\ projects' = [projects EXCEPT ![i] = row]
         /\ top' = [top EXCEPT ![i] = row.quota]
    /\ UNCHANGED <<scope, owner, models, call, crashes, keys, day, usage, counted, audit,
                   deployed, history>>

IssueKey(k, i) ==
    /\ keys[k] = None
    /\ Known(i)
    /\ \E S \in scope.issued : keys' = [keys EXCEPT ![k] = [proj |-> i, scopes |-> S, valid |-> TRUE]]
    /\ UNCHANGED <<registryVars, day, usage, top, counted, audit, deployed, history>>

\* revoke_key, or the end of expires_at.
EndKey(k) ==
    /\ keys[k] # None
    /\ "keys" \in scope.faults
    /\ keys' = [keys EXCEPT ![k].valid = FALSE]
    /\ UNCHANGED <<registryVars, day, usage, top, counted, audit, deployed, history>>

NextDay ==
    /\ day + 1 \in Days
    /\ day' = day + 1
    /\ UNCHANGED <<registryVars, keys, usage, top, counted, audit, deployed, history>>

\* update_project: the row is read, and all of it written.
UpdateStart(c, p, i, change) ==
    /\ Arrives(c, p, "update")
    /\ Known(i)
    /\ call' = [call EXCEPT ![c] = [NoCall EXCEPT !.kind = "update", !.proc = p, !.pc = "load",
                                                  !.proj = i, !.res = change]]
    /\ OnlyCall

LoadProject(c) ==
    /\ At(c, "load")
    /\ call' = [call EXCEPT ![c].pc = "store", ![c].from = projects[call[c].proj]]
    /\ OnlyCall

StoreProject(c) ==
    LET a == call[c]
        new == DOMAIN a.res
        row == [enabled |-> IF "enabled" \in new THEN a.res.enabled ELSE a.from.enabled,
                quota |-> IF "quota" \in new THEN a.res.quota ELSE a.from.quota]
    IN  /\ At(c, "store")
        /\ projects' = [projects EXCEPT ![a.proj] = row]
        /\ top' = [top EXCEPT ![a.proj] = Larger(@, row.quota)]
        /\ Answer(c, "ok")
        /\ UNCHANGED <<scope, owner, models, crashes, keys, day, usage, counted, audit,
                       deployed, history>>

-----------------------------------------------------------------------------
(* promote_model and rollback_model *)

\* Mutant: the model is promoted before it is registered, as rollback_model does.
PromoteUnowned(c, p, i, m) ==
    /\ Arrives(c, p, "promote")
    /\ Known(i)
    /\ m \in models /\ Decision[m] = Slot
    /\ call' = [call EXCEPT ![c] = [NoCall EXCEPT !.kind = "promote", !.proc = p,
                                                  !.pc = "get", !.proj = i, !.res = m]]
    /\ OnlyCall

\* validate_model_for_decision; the registration follows.
Promote(c, p, i, m) ==
    /\ Arrives(c, p, "promote")
    /\ Known(i)
    /\ m \in models /\ Decision[m] = Slot
    /\ call' = [call EXCEPT ![c] = [NoCall EXCEPT !.kind = "promote", !.proc = p,
                                                  !.pc = "require", !.proj = i, !.res = m]]
    /\ OnlyCall

\* SELECT of the current deployment, before the transaction has begun.
ReadDeployed(c) ==
    /\ At(c, "get")
    /\ call' = [call EXCEPT ![c].pc = "write", ![c].from = deployed[call[c].proj]]
    /\ OnlyCall

\* Its copy goes to the history; the next version replaces it.
WriteDeployed(c) ==
    LET a == call[c]
        ver == IF a.from = None THEN 1 ELSE a.from.ver + 1
    IN  /\ At(c, "write")
        /\ history' = IF a.from = None THEN history
                      ELSE [history EXCEPT ![a.proj] = Append(@, a.from)]
        /\ deployed' = [deployed EXCEPT ![a.proj] = [ver |-> ver, model |-> a.res]]
        /\ IF a.kind = "promote" THEN Answer(c, "ok") ELSE Goto(c, "require")
        /\ UNCHANGED <<scope, projects, owner, models, crashes, keys, day, usage, top,
                       counted, audit>>

Rollback(c, p, i) ==
    /\ Arrives(c, p, "rollback")
    /\ Known(i)
    /\ call' = [call EXCEPT ![c] = [NoCall EXCEPT !.kind = "rollback", !.proc = p,
                                                  !.pc = "current", !.proj = i]]
    /\ OnlyCall

\* get_deployment, and then the latest row of the history.
RollbackFrom(c) ==
    /\ At(c, "current")
    /\ IF deployed[call[c].proj] = None THEN Answer(c, "failed") ELSE Goto(c, "previous")
    /\ OnlyCall

RollbackTo(c) ==
    LET h == history[call[c].proj]
    IN  /\ At(c, "previous")
        /\ \/ h = << >> /\ Answer(c, "failed")
           \/ \E k \in DOMAIN h :
                /\ \A j \in DOMAIN h : h[j].ver <= h[k].ver
                /\ call' = [call EXCEPT ![c].pc = "get", ![c].res = h[k].model]
        /\ OnlyCall

\* A process ends with its calls.
Crash(p) ==
    /\ crashes < scope.crashes
    /\ crashes' = crashes + 1
    /\ call' = [c \in Calls |-> IF call[c].proc = p /\ call[c].pc # "done"
                                THEN [call[c] EXCEPT !.pc = "crashed"] ELSE call[c]]
    /\ UNCHANGED <<scope, projects, owner, models, controlVars>>

-----------------------------------------------------------------------------
ControlInit ==
    /\ scope \in Scopes
    /\ projects = [i \in Projects |-> IF i \in DOMAIN scope.projects THEN scope.projects[i]
                                      ELSE None]
    /\ owner = [r \in Resources |-> IF r \in DOMAIN scope.owner THEN scope.owner[r] ELSE None]
    /\ models = scope.models
    /\ call = [c \in Calls |-> NoCall]
    /\ crashes = 0
    /\ keys = [k \in Keys |-> IF k \in DOMAIN scope.keys THEN scope.keys[k] ELSE None]
    /\ day = 1
    /\ usage = [i \in Projects |-> [d \in Days |-> 0]]
    /\ top = [i \in Projects |-> IF Known(i) THEN projects[i].quota ELSE 0]
    /\ counted = {}
    /\ audit = [c \in Calls |-> << >>]
    /\ deployed = [i \in Projects |-> None]
    /\ history = [i \in Projects |-> << >>]

CallStep(c) ==
    \/ ReadKey(c) \/ ReadUsage(c) \/ CountUsage(c)
    \/ RefuseBody(c) \/ AssertModel(c) \/ GetDeployment(c) \/ Serve(c) \/ Audit(c)
    \/ Accept(c) \/ Message(c) \/ Disconnect(c) \/ RefuseMessage(c)
    \/ LoadProject(c) \/ StoreProject(c)
    \/ ReadDeployed(c) \/ WriteDeployed(c) \/ RollbackFrom(c) \/ RollbackTo(c)
    \/ RequireProject(c) /\ UNCHANGED controlVars
    \/ SelectOwner(c) /\ UNCHANGED controlVars
    \/ InsertOwner(c) /\ UNCHANGED controlVars

NewCall(c, p) ==
    \/ \E k \in Keys, m \in models \cup {None}, kind \in {"infer", "predict", "model_predict"} :
         Infer(c, p, kind, k, m)
    \/ \E k \in Keys : Connect(c, p, k)
    \/ \E i \in Projects, change \in scope.changes : UpdateStart(c, p, i, change)
    \/ \E i \in Projects, m \in models : Promote(c, p, i, m)
    \/ \E i \in Projects : Rollback(c, p, i)

ControlNext ==
    \/ \E c \in Calls : CallStep(c)
    \/ \E c \in Calls, p \in Procs : NewCall(c, p)
    \/ \E p \in Procs : Crash(p)
    \/ \E i \in Projects : CreateProject(i)
    \/ \E i \in Projects, k \in Keys : IssueKey(k, i)
    \/ \E k \in Keys : EndKey(k)
    \/ NextDay

-----------------------------------------------------------------------------
(* Properties *)

Pcs == Awaiting \cup {"row", "count", "countWrite", "owned", "deployment", "audit", "connect",
    "refusal", "load", "store", "require", "select", "insert", "get", "write", "current",
    "previous", "create", "undo", "delete", "unregister", "exists", "list", "add", "rows",
    "evaluate", "record", "resolve"}

Deployments == [ver : Nat, model : Models]

\* Every variable of the registry and the control plane has its type.
ControlTypeOK ==
    /\ scope \in Scopes
    /\ projects \in [Projects -> ProjectRows \cup {None}]
    /\ owner \in [Resources -> Projects \cup {None}]
    /\ models \subseteq Models
    /\ \A c \in Calls : call[c].pc \in Pcs /\ call[c].proj \in Projects \cup {None}
    /\ keys \in [Keys -> KeyRows \cup {None}]
    /\ day \in Days
    /\ usage \in [Projects -> [Days -> Nat]]
    /\ top \in [Projects -> Nat]
    /\ counted \subseteq [call : Calls, proj : Projects, day : Days, nth : Nat]
    /\ audit \in [Calls -> Seq({"200", "400", "404", "429", "500"})]
    /\ deployed \in [Projects -> Deployments \cup {None}]
    /\ history \in [Projects -> Seq(Deployments)]

\* The count of a day exceeds the largest quota of the project by less than the
\* number of processes, which read it before they add to it; no request and no
\* message is lost from the counts (authenticate).
QuotaHolds ==
    \A i \in Projects, d \in Days :
        /\ usage[i][d] > 0 => usage[i][d] < top[i] + Cardinality(scope.procs)
        /\ usage[i][d] = Cardinality(Charged(i, d))

Served(c) == {k \in DOMAIN audit[c] : audit[c][k] # "429"}

\* Counted, and refused before the part of the route that is audited.
Refused(c) ==
    \/ call[c].answer = "404" /\ call[c].kind \in {"infer", "model_predict"}
    \/ call[c].answer = "422" /\ call[c].kind \in {"predict", "model_predict"}

\* A call of the middleware, a prediction route or the WebSocket that is over left
\* one audit row for each request or message that was counted, with the status its
\* client got.  The counted calls without a row are those for a model of another
\* project and the predictions whose body is refused with 422 (the finally blocks,
\* realtime_ws, project_inference_auth, model_predict_auth).
AuditExact ==
    \A c \in Calls : call[c].pc \in {"done", "open"} =>
        /\ Cardinality(Served(c)) = IF Refused(c) THEN 0 ELSE Cardinality(CountedOf(c))
        /\ call[c].kind # "ws" => \A k \in Served(c) : audit[c][k] = call[c].answer

\* The model a project has deployed is its own, for ever, so that no deployment
\* is refused by assert_owner, and its rollbacks lead to models it deployed
\* (promote_model registers before it deploys, rollback_model after).
DeployedOwned ==
    \A i \in Projects :
        /\ deployed[i] # None => /\ owner[deployed[i].model] = i
                                 /\ Decision[deployed[i].model] = Slot
        /\ \A k \in DOMAIN history[i] : owner[history[i][k].model] = i

\* Version numbers of a project's deployments are those of its promotions in
\* one process (promote_model).  Violated by two: see TenancyRaces.cfg.
VersionsLinear ==
    \A i \in Projects : \A k \in DOMAIN history[i] : history[i][k].ver = k

=============================================================================
