----------------------------- MODULE TenancyProofs -----------------------------
(***************************************************************************)
(* Theorems about TenantData, and with it about ControlPlane and           *)
(* TenantRegistry: for any number of processes, projects, keys, resources, *)
(* calls and days, and any deployment of Scopes.                           *)
(*                                                                         *)
(* None of the invariants is inductive: each depends on what a call has    *)
(* read at its earlier statements.  IInv says, layer by layer, what a call *)
(* at each statement may rely on.                                          *)
(***************************************************************************)
EXTENDS TenantData, FiniteSetTheorems, TLAPS

-----------------------------------------------------------------------------
(* The types of a call, and the statements of each kind of call *)

Creates == {"create_dataset", "create_review"}

\* The kinds that name a dataset from beginning to end.
OnDataset == {"create_dataset", "delete_dataset", "import", "add"}

DataKinds == OnDataset \cup {"train", "create_review", "resolve_review"}

Things == Resources \cup {None} \cup UNION {s.changes : s \in Scopes}

Reads == Deployments \cup ProjectRows \cup Datasets \cup {None}

AnyRows == SUBSET (ExampleRows \cup SentRows)

AnyCall == [kind : Kinds \cup {None}, proc : Procs \cup {None}, pc : Pcs,
            proj : Projects \cup {None}, res : Things, key : Keys \cup {None}, quota : Nat,
            from : Reads, rows : AnyRows, print : AnyRows,
            answer : {None, "ok", "failed", "200", "400", "401", "404", "422", "429", "500"}]

\* Which kinds of call have a statement.
Routes(kind, pc) ==
    /\ pc = "idle" <=> kind = None
    /\ pc = "row" => kind \in Counted \cup DataKinds
    /\ pc \in {"count", "countWrite", "serving", "audit"} => kind \in Counted
    /\ pc \in {"connect", "open", "refusal"} => kind = "ws"
    /\ pc = "deployment" => kind = "predict"
    /\ pc = "owned" => kind \notin Creates \cup {"ws", "update", "promote", "rollback"}
    /\ pc \in {"load", "store"} => kind = "update"
    /\ pc \in {"require", "select", "insert"} => kind \in Creates \cup {"promote", "rollback", "train"}
    /\ pc \in {"get", "write"} => kind \in {"promote", "rollback"}
    /\ pc \in {"current", "previous"} => kind = "rollback"
    /\ pc = "create" => kind \in Creates
    /\ pc = "undo" => kind = "create_dataset"
    /\ pc \in {"delete", "unregister"} => kind = "delete_dataset"
    /\ pc = "exists" => kind \in {"add", "import", "train"}
    /\ pc = "list" => kind = "import"
    /\ pc = "add" => kind \in {"add", "import"}
    /\ pc \in {"rows", "training", "evaluate", "benchmark", "record"} => kind = "train"
    /\ pc = "resolve" => kind = "resolve_review"

\* What a call holds at its statements.
Holds(a) ==
    /\ IF a.pc = "idle" THEN a.proc = None ELSE a.proc \in scope.procs
    /\ a.kind \in Counted \cup DataKinds => a.key \in Keys
    /\ a.pc \notin {"idle", "row", "connect", "done", "crashed"} => a.proj \in Projects
    /\ a.kind \in OnDataset => a.res \in Datasets
    /\ a.kind \in {"create_review", "resolve_review"} => a.res \in Reviews
    /\ a.kind = "train" /\ a.pc \in {"row", "owned", "exists", "rows", "training"} => a.res \in Datasets
    /\ a.kind = "train" /\ a.pc \in {"evaluate", "benchmark", "record", "require", "select", "insert"} =>
         a.res \in Models
    /\ a.pc \in {"evaluate", "benchmark", "record"} => a.from \in Datasets /\ a.res \in models
    /\ a.kind = "promote" /\ a.pc \notin {"done", "crashed"} => a.res \in Models
    /\ a.kind = "rollback" /\ a.pc \in {"get", "write", "require", "select", "insert"} => a.res \in Models
    /\ a.pc = "write" => a.from \in Deployments \cup {None}
    /\ a.pc = "store" => a.from \in ProjectRows
    /\ a.kind = "update" /\ a.pc \in {"load", "store"} => a.res \in scope.changes /\ Known(a.proj)
    /\ a.kind = "add" \/ a.pc = "add" => a.rows \subseteq ExampleRows
    /\ a.pc = "audit" => a.answer \in {"200", "400", "404", "500"}

Typed ==
    /\ ControlTypeOK /\ DataTypeOK
    /\ call \in [Calls -> AnyCall]
    /\ \A c \in Calls : Routes(call[c].kind, call[c].pc) /\ Holds(call[c])

-----------------------------------------------------------------------------
(* Steps of one call *)

Others(c) == \A d \in Calls \ {c} : call'[d] = call[d]

LEMMA Literals ==
  /\ Awaiting \subseteq Pcs
  /\ {"row", "count", "countWrite", "owned", "deployment", "audit", "connect", "refusal", "load",
      "store", "require", "select", "insert", "get", "write", "current", "previous", "create",
      "undo", "delete", "unregister", "exists", "list", "add", "rows", "evaluate",
      "record", "resolve"} \subseteq Pcs
  /\ {"idle", "done", "crashed", "open", "serving", "training", "benchmark"} \subseteq Pcs
BY DEF Pcs, Awaiting

\* A call that only goes on, and one that ends.
Keeps(c) ==
    /\ call'[c].kind = call[c].kind /\ call'[c].proc = call[c].proc /\ call'[c].key = call[c].key
    /\ call'[c].proj = call[c].proj /\ call'[c].res = call[c].res
    /\ call'[c].quota = call[c].quota /\ call'[c].from = call[c].from
    /\ call'[c].rows = call[c].rows /\ call'[c].print = call[c].print

LEMMA GotoMoves ==
  ASSUME call \in [Calls -> AnyCall], NEW c \in Calls, NEW pc \in Pcs, Goto(c, pc)
  PROVE  /\ call' \in [Calls -> AnyCall] /\ Others(c) /\ Keeps(c)
         /\ call'[c].pc = pc /\ call'[c].answer = call[c].answer
<1>1. call[c] \in AnyCall
  OBVIOUS
<1>2. call' = [call EXCEPT ![c].pc = pc]
  BY DEF Goto
<1>3. [call[c] EXCEPT !.pc = pc] \in AnyCall
  BY <1>1 DEF AnyCall
<1>4. call'[c] = [call[c] EXCEPT !.pc = pc] /\ Others(c)
  BY <1>2 DEF Others
<1>5. call' \in [Calls -> AnyCall]
  BY <1>2, <1>3
<1>6. Keeps(c) /\ call'[c].pc = pc /\ call'[c].answer = call[c].answer
  BY <1>1, <1>4 DEF AnyCall, Keeps
<1> QED BY <1>4, <1>5, <1>6

LEMMA AnswerMoves ==
  ASSUME call \in [Calls -> AnyCall], NEW c \in Calls,
         NEW status \in {"ok", "failed", "401", "404", "422", "429"}, Answer(c, status)
  PROVE  /\ call' \in [Calls -> AnyCall] /\ Others(c) /\ Keeps(c)
         /\ call'[c].pc = "done" /\ call'[c].answer = status
<1>1. call[c] \in AnyCall /\ "done" \in Pcs
  BY Literals
<1>2. call' = [call EXCEPT ![c].pc = "done", ![c].answer = status]
  BY DEF Answer
<1>3. [call[c] EXCEPT !.pc = "done", !.answer = status] \in AnyCall
  BY <1>1 DEF AnyCall
<1>4. call'[c] = [call[c] EXCEPT !.pc = "done", !.answer = status] /\ Others(c)
  BY <1>2 DEF Others
<1>5. call' \in [Calls -> AnyCall]
  BY <1>2, <1>3
<1>6. Keeps(c) /\ call'[c].pc = "done" /\ call'[c].answer = status
  BY <1>1, <1>4 DEF AnyCall, Keeps
<1> QED BY <1>4, <1>5, <1>6

-----------------------------------------------------------------------------
(* What a step of a call changes, by the statement it is at *)

Follows(p, q) ==
    /\ p \notin {"idle", "done", "crashed"} /\ q \notin {"idle", "connect", "load", "current", "crashed"}
    /\ q = "row" => p = "open"
    /\ q = "count" => p = "row"
    /\ q \in {"countWrite", "refusal"} => p = "count"
    /\ q = "serving" => p \in {"countWrite", "owned"}
    /\ q = "audit" => p \in {"owned", "deployment", "serving"}
    /\ q = "open" => p \in {"connect", "audit"}
    /\ q = "deployment" => p = "countWrite"
    /\ q = "owned" => p \in {"row", "countWrite", "deployment"}
    /\ q = "store" => p = "load"
    /\ q = "previous" => p = "current"
    /\ q = "require" => p \in {"create", "record", "write"}
    /\ q = "select" => p = "require"
    /\ q = "insert" => p = "select"
    /\ q = "get" => p \in {"select", "insert", "previous"}
    /\ q = "write" => p = "get"
    /\ q = "create" => p = "row"
    /\ q = "undo" => p \in {"require", "select", "insert"}
    /\ q \in {"delete", "exists", "resolve"} => p = "owned"
    /\ q = "unregister" => p = "delete"
    /\ q \in {"list", "rows"} => p = "exists"
    /\ q = "add" => p \in {"exists", "list"}
    /\ q = "training" => p = "rows"
    /\ q = "evaluate" => p = "training"
    /\ q = "benchmark" => p = "evaluate"
    /\ q = "record" => p \in {"training", "evaluate", "benchmark"}

Fields(c) ==
    LET p == call[c].pc
    IN  /\ Others(c)
        /\ call'[c].kind = call[c].kind /\ call'[c].proc = call[c].proc /\ call'[c].key = call[c].key
        /\ p \notin {"row", "connect"} => call'[c].proj = call[c].proj
        /\ p # "row" => call'[c].quota = call[c].quota
        /\ p \notin {"deployment", "previous", "training"} => call'[c].res = call[c].res
        /\ p \notin {"load", "get", "training"} => call'[c].from = call[c].from
        /\ p \notin {"list", "rows"} => call'[c].rows = call[c].rows
        /\ p # "exists" => call'[c].print = call[c].print

Writes(p) ==
    /\ UNCHANGED <<scope, crashes, keys, day>>
    /\ p # "training" => UNCHANGED models
    /\ p \notin {"insert", "unregister"} => UNCHANGED owner
    /\ p # "store" => UNCHANGED <<projects, top>>
    /\ p # "countWrite" => UNCHANGED <<usage, counted>>
    /\ p \notin {"audit", "refusal"} => UNCHANGED audit
    /\ p # "write" => UNCHANGED <<deployed, history>>
    /\ p \notin {"create", "undo", "delete", "add"} => UNCHANGED datasets
    /\ p # "create" => UNCHANGED used
    /\ p \notin {"create", "resolve"} => UNCHANGED reviews
    /\ p \notin {"undo", "delete", "record"} => UNCHANGED lineage

\* The step is one of the call's program.
Moves(c) ==
    /\ call' \in [Calls -> AnyCall]
    /\ Fields(c) /\ Follows(call[c].pc, call'[c].pc) /\ Writes(call[c].pc)
    /\ Routes(call'[c].kind, call'[c].pc)

LEMMA GotoProgram ==
  ASSUME Typed, NEW c \in Calls, NEW pc \in Pcs, Goto(c, pc),
         Follows(call[c].pc, pc), Writes(call[c].pc),
         Routes(call[c].kind, pc)
  PROVE  Moves(c) /\ Keeps(c) /\ call'[c].pc = pc /\ call'[c].answer = call[c].answer
<1>1. /\ call' \in [Calls -> AnyCall] /\ Others(c) /\ Keeps(c)
      /\ call'[c].pc = pc /\ call'[c].answer = call[c].answer
  BY GotoMoves DEF Typed
<1>2. Fields(c)
  BY <1>1 DEF Fields, Keeps
<1> QED BY <1>1, <1>2 DEF Moves, Keeps

LEMMA AnswerProgram ==
  ASSUME Typed, NEW c \in Calls, NEW status \in {"ok", "failed", "401", "404", "422", "429"},
         Answer(c, status), call[c].pc \notin {"idle", "done", "crashed"}, Writes(call[c].pc)
  PROVE  Moves(c) /\ Keeps(c) /\ call'[c].pc = "done" /\ call'[c].answer = status
<1>1. /\ call' \in [Calls -> AnyCall] /\ Others(c) /\ Keeps(c)
      /\ call'[c].pc = "done" /\ call'[c].answer = status
  BY AnswerMoves DEF Typed
<1>2. Fields(c)
  BY <1>1 DEF Fields, Keeps
<1>3. Follows(call[c].pc, "done")
  BY DEF Follows
<1>4. Routes(call'[c].kind, "done")
  BY <1>1 DEF Routes, Keeps, Typed
<1> QED BY <1>1, <1>2, <1>3, <1>4 DEF Moves

-----------------------------------------------------------------------------
(* The statements of the control plane *)

LEMMA OnlyCallWrites ==
  ASSUME OnlyCall, UNCHANGED dataVars
  PROVE  /\ \A p : Writes(p)
         /\ UNCHANGED <<scope, projects, owner, models, crashes>> /\ UNCHANGED controlVars
BY DEF OnlyCall, controlVars, dataVars, Writes

\* A row a call may become, whatever fields it changes.
LEMMA RowMoves ==
  ASSUME call \in [Calls -> AnyCall], NEW c \in Calls, NEW row \in AnyCall,
         call' = [call EXCEPT ![c] = row]
  PROVE  call' \in [Calls -> AnyCall] /\ Others(c) /\ call'[c] = row
BY DEF Others

LEMMA NoneIsNoKind == None \notin Kinds
BY TenantAssumption

\* What follows the authentication of each kind.
LEMMA EntryRoutes ==
  ASSUME Typed, NEW c \in Calls, call[c].kind \in Counted \cup DataKinds
  PROVE  /\ Entry(c) \in Pcs
         /\ Routes(call[c].kind, Entry(c))
         /\ Entry(c) \in {"serving", "owned", "deployment", "create"}
         /\ call[c].kind \notin Counted => Entry(c) \in {"owned", "create"}
         /\ call[c].kind \in Counted => Entry(c) # "create"
<1>1. Entry(c) \in {"serving", "owned", "deployment", "create"}
  BY DEF Entry
<1>2. Routes(call[c].kind, Entry(c))
  BY NoneIsNoKind DEF Entry, Routes, Counted, DataKinds, OnDataset, Creates, Kinds
<1>3. /\ call[c].kind \notin Counted => Entry(c) \in {"owned", "create"}
      /\ call[c].kind \in Counted => Entry(c) # "create"
  BY DEF Entry, Counted, DataKinds, OnDataset
<1> QED BY <1>1, <1>2, <1>3, Literals

LEMMA ReadKeyMoves ==
  ASSUME Typed, UNCHANGED dataVars, NEW c \in Calls, ReadKey(c)
  PROVE  /\ Moves(c) /\ Holds(call[c])' /\ call[c].pc = "row" /\ OnlyCall
         /\ \/ call'[c].pc = "done" /\ Keeps(c) /\ call'[c].answer = "401"
            \/ /\ call'[c].proj \in Projects /\ Known(call'[c].proj)
               /\ call'[c].quota = projects[call'[c].proj].quota
               /\ call'[c].res = call[c].res /\ call'[c].answer = call[c].answer
               /\ call'[c].rows = call[c].rows
               /\ call'[c].pc = IF call[c].kind \in Counted THEN "count" ELSE Entry(c)
<1> DEFINE k == keys[call[c].key]
           pc == IF call[c].kind \in Counted THEN "count" ELSE Entry(c)
<1>0. /\ call[c] \in AnyCall /\ Routes(call[c].kind, call[c].pc) /\ Holds(call[c])
      /\ call \in [Calls -> AnyCall]
      /\ call[c].pc = "row" /\ OnlyCall
  BY DEF Typed, ReadKey, At, Running
<1>1. (\A p : Writes(p)) /\ UNCHANGED <<scope, projects>>
  BY <1>0, OnlyCallWrites
<1>2. call[c].kind \in Counted \cup DataKinds /\ call[c].key \in Keys
  BY <1>0 DEF Routes, Holds
<1>3. CASE KeyOK(c)
  <2>1. k \in KeyRows /\ k.proj \in Projects /\ Known(k.proj) /\ projects[k.proj].quota \in Nat
    <3>1. k \in KeyRows
      BY <1>2, <1>3 DEF KeyOK, Typed, ControlTypeOK
    <3>2. k.proj \in Projects /\ Known(k.proj)
      BY <1>3, <3>1 DEF KeyOK, Enabled, KeyRows
    <3>3. projects[k.proj] \in ProjectRows
      BY <3>2 DEF Known, Typed, ControlTypeOK
    <3> QED BY <3>1, <3>2, <3>3 DEF ProjectRows
  <2> DEFINE row == [call[c] EXCEPT !.proj = k.proj, !.quota = projects[k.proj].quota, !.pc = pc]
  <2>2. call' = [call EXCEPT ![c] = row]
    BY <1>3 DEF ReadKey
  <2>3. pc \in Pcs /\ Routes(call[c].kind, pc) /\ pc \in {"count", "owned", "create"}
    BY <1>2, EntryRoutes, Literals DEF Routes, Counted
  <2> HIDE DEF pc, k
  <2>4. row \in AnyCall
    BY <1>0, <2>1, <2>3 DEF AnyCall
  <2>5. /\ row.proj = k.proj /\ row.quota = projects[k.proj].quota /\ row.pc = pc
        /\ row.kind = call[c].kind /\ row.proc = call[c].proc /\ row.key = call[c].key
        /\ row.res = call[c].res /\ row.from = call[c].from /\ row.rows = call[c].rows
        /\ row.print = call[c].print /\ row.answer = call[c].answer
    BY <1>0 DEF AnyCall
  <2> HIDE DEF row
  <2>6. call' \in [Calls -> AnyCall] /\ Others(c) /\ call'[c] = row
    BY <1>0, <2>2, <2>4, RowMoves
  <2>7. Moves(c)
    BY <1>0, <1>1, <2>3, <2>5, <2>6 DEF Moves, Fields, Follows
  <2>8. Holds(call[c])'
    BY <1>0, <1>1, <2>1, <2>3, <2>5, <2>6, <1>2 DEF Holds, Routes, Known
  <2> QED BY <1>0, <2>1, <2>5, <2>6, <2>7, <2>8 DEF pc
<1>4. CASE ~ KeyOK(c)
  <2>1. Answer(c, "401")
    BY <1>4 DEF ReadKey
  <2>2. Moves(c) /\ Keeps(c) /\ call'[c].pc = "done" /\ call'[c].answer = "401"
    BY <1>0, <1>1, <2>1, AnswerProgram
  <2>3. Holds(call[c])'
    BY <1>0, <1>1, <2>2 DEF Holds, Keeps
  <2> QED BY <1>0, <2>2, <2>3
<1> QED BY <1>3, <1>4

LEMMA UsageMoves ==
  ASSUME Typed, UNCHANGED dataVars, NEW c \in Calls, ReadUsage(c) \/ CountUsage(c)
  PROVE  /\ Moves(c) /\ Holds(call[c])' /\ Keeps(c) /\ call[c].pc \in {"count", "countWrite"}
<1>0. /\ Routes(call[c].kind, call[c].pc) /\ Holds(call[c])
      /\ call[c].pc \in {"count", "countWrite"} /\ call[c].kind \in Counted
  BY DEF Typed, ReadUsage, CountUsage, At, Running, Routes
<1>1. CASE ReadUsage(c)
  <2>1. (\A p : Writes(p)) /\ UNCHANGED <<scope, projects>> /\ call[c].pc = "count"
    BY <1>1, OnlyCallWrites DEF ReadUsage, At, Running
  <2>2. \/ Goto(c, "countWrite") \/ Answer(c, "429")
        \/ Goto(c, "refusal") /\ call[c].kind = "ws"
    BY <1>1 DEF ReadUsage
  <2>3. Moves(c) /\ Keeps(c) /\ call'[c].pc \in {"countWrite", "refusal", "done"}
    <3>1. CASE Goto(c, "countWrite")
      <4>1. Routes(call[c].kind, "countWrite") /\ Follows("count", "countWrite")
        BY <1>0, NoneIsNoKind DEF Routes, Follows, Counted, Kinds
      <4> QED BY <2>1, <3>1, <4>1, GotoProgram, Literals
    <3>2. CASE Goto(c, "refusal") /\ call[c].kind = "ws"
      <4>1. Routes(call[c].kind, "refusal") /\ Follows("count", "refusal")
        BY <3>2, NoneIsNoKind DEF Routes, Follows, Kinds
      <4> QED BY <2>1, <3>2, <4>1, GotoProgram, Literals
    <3>3. CASE Answer(c, "429")
      BY <2>1, <3>3, AnswerProgram
    <3> QED BY <2>2, <3>1, <3>2, <3>3
  <2>4. Holds(call[c])'
    BY <1>0, <2>1, <2>3 DEF Holds, Keeps, Counted
  <2> QED BY <1>0, <2>3, <2>4
<1>2. CASE CountUsage(c)
  <2>1. /\ Writes("countWrite") /\ UNCHANGED <<scope, projects>> /\ call[c].pc = "countWrite"
        /\ Goto(c, Entry(c))
    BY <1>2 DEF CountUsage, Writes, At, Running, dataVars
  <2>2. /\ Entry(c) \in Pcs /\ Routes(call[c].kind, Entry(c))
        /\ Entry(c) \in {"serving", "owned", "deployment"}
    BY <1>0, EntryRoutes
  <2>3. Follows("countWrite", Entry(c))
    BY <2>2 DEF Follows
  <2>4. Moves(c) /\ Keeps(c) /\ call'[c].pc = Entry(c)
    BY <2>1, <2>2, <2>3, GotoProgram
  <2>5. Holds(call[c])'
    BY <1>0, <2>1, <2>2, <2>4 DEF Holds, Keeps, Counted
  <2> QED BY <1>0, <2>4, <2>5
<1> QED BY <1>1, <1>2

LEMMA ServeMoves ==
  ASSUME Typed, UNCHANGED dataVars, NEW c \in Calls, AssertModel(c) \/ Serve(c)
  PROVE  /\ Moves(c) /\ Holds(call[c])' /\ Keeps(c)
<1>0. /\ Routes(call[c].kind, call[c].pc) /\ Holds(call[c]) /\ call[c] \in AnyCall
      /\ call \in [Calls -> AnyCall] /\ call[c].kind \in Counted
      /\ call[c].pc \in {"owned", "serving"} /\ OnlyCall
  BY DEF Typed, AssertModel, Serve, At, Running, Routes
<1>1. (\A p : Writes(p)) /\ UNCHANGED <<scope, projects>>
  BY <1>0, OnlyCallWrites
<1>2. ASSUME NEW status \in {"200", "400", "404", "500"},
             call' = [call EXCEPT ![c].pc = "audit", ![c].answer = status]
      PROVE  Moves(c) /\ Keeps(c) /\ call'[c].pc = "audit" /\ call'[c].answer = status
  <2> DEFINE row == [call[c] EXCEPT !.pc = "audit", !.answer = status]
  <2>1. row \in AnyCall
    BY <1>0, Literals DEF AnyCall
  <2>2. call' = [call EXCEPT ![c] = row]
    BY <1>2
  <2>3. call' \in [Calls -> AnyCall] /\ Others(c) /\ call'[c] = row
    BY <1>0, <2>1, <2>2, RowMoves
  <2>4. Keeps(c) /\ call'[c].pc = "audit" /\ call'[c].answer = status
    BY <1>0, <2>3 DEF AnyCall, Keeps
  <2>5. Routes(call'[c].kind, "audit") /\ Follows(call[c].pc, "audit")
    BY <1>0, <2>4, NoneIsNoKind DEF Routes, Keeps, Follows, Counted, Kinds
  <2> QED BY <1>1, <2>3, <2>4, <2>5 DEF Moves, Fields, Keeps
<1>3. ASSUME Goto(c, "serving"), call[c].pc = "owned"
      PROVE  Moves(c) /\ Keeps(c) /\ call'[c].pc = "serving"
  <2>1. Routes(call[c].kind, "serving") /\ Follows(call[c].pc, "serving")
    BY <1>0, <1>3, NoneIsNoKind DEF Routes, Follows, Counted, Kinds
  <2> QED BY <1>1, <1>3, <2>1, GotoProgram, Literals
<1>4. ASSUME Answer(c, "404")
      PROVE  Moves(c) /\ Keeps(c) /\ call'[c].pc = "done"
  BY <1>0, <1>1, <1>4, AnswerProgram
<1>5. /\ Moves(c) /\ Keeps(c) /\ call'[c].pc \in {"serving", "audit", "done"}
      /\ call'[c].pc = "audit" => call'[c].answer \in {"200", "400", "404", "500"}
  <2>1. CASE AssertModel(c)
    BY <1>2, <1>3, <1>4, <2>1 DEF AssertModel, At, Running
  <2>2. CASE Serve(c)
    <3>1. PICK status \in {"200", "400", "500"} :
            call' = [call EXCEPT ![c].pc = "audit", ![c].answer = status]
      BY <2>2 DEF Serve
    <3> QED BY <1>2, <3>1
  <2> QED BY <2>1, <2>2
<1>6. Holds(call[c])'
  BY <1>0, <1>1, <1>5 DEF Holds, Keeps, Counted
<1> QED BY <1>5, <1>6

LEMMA RefuseMoves ==
  ASSUME Typed, UNCHANGED dataVars, NEW c \in Calls, RefuseBody(c)
  PROVE  /\ Moves(c) /\ Holds(call[c])' /\ Keeps(c) /\ OnlyCall
         /\ call'[c].pc = "done" /\ call'[c].answer = "422"
<1>0. /\ Holds(call[c]) /\ call[c].pc \in {"owned", "deployment"} /\ call[c].kind \in Counted
      /\ Answer(c, "422") /\ OnlyCall
  BY DEF Typed, RefuseBody, Running, Entry, Counted
<1>1. (\A p : Writes(p)) /\ UNCHANGED <<scope, projects>>
  BY <1>0, OnlyCallWrites
<1>2. Moves(c) /\ Keeps(c) /\ call'[c].pc = "done" /\ call'[c].answer = "422"
  BY <1>0, <1>1, AnswerProgram
<1>3. Holds(call[c])'
  BY <1>0, <1>1, <1>2 DEF Holds, Keeps, Counted
<1> QED BY <1>0, <1>2, <1>3

LEMMA DeploymentMoves ==
  ASSUME Typed, UNCHANGED dataVars, NEW c \in Calls, GetDeployment(c)
  PROVE  /\ Moves(c) /\ Holds(call[c])' /\ call[c].pc = "deployment" /\ OnlyCall
         /\ call'[c].pc \in {"audit", "owned"}
         /\ call'[c].pc = "audit" => call'[c].answer = "404"
<1> DEFINE d == deployed[call[c].proj]
<1>0. /\ Routes(call[c].kind, call[c].pc) /\ Holds(call[c]) /\ call[c] \in AnyCall
      /\ call \in [Calls -> AnyCall] /\ call[c].kind = "predict"
      /\ call[c].pc = "deployment" /\ OnlyCall
  BY DEF Typed, GetDeployment, At, Running, Routes
<1>1. (\A p : Writes(p)) /\ UNCHANGED <<scope, projects>>
  BY <1>0, OnlyCallWrites
<1>2. d \in Deployments \cup {None}
  BY <1>0 DEF Typed, ControlTypeOK, Holds
<1>3. PICK row \in AnyCall :
        /\ call' = [call EXCEPT ![c] = row]
        /\ row.kind = "predict" /\ row.proc = call[c].proc /\ row.key = call[c].key
        /\ row.proj = call[c].proj /\ row.quota = call[c].quota /\ row.from = call[c].from
        /\ row.rows = call[c].rows /\ row.print = call[c].print
        /\ row.pc = "owned" \/ (row.pc = "audit" /\ row.answer = "404")
  <2>1. CASE d = None
    <3> DEFINE row == [call[c] EXCEPT !.pc = "audit", !.answer = "404"]
    <3>1. call' = [call EXCEPT ![c] = row]
      BY <2>1 DEF GetDeployment
    <3>2. row \in AnyCall
      BY <1>0, Literals DEF AnyCall
    <3> QED BY <1>0, <3>1, <3>2 DEF AnyCall
  <2>2. CASE d # None
    <3>1. d.model \in Things
      BY <1>2, <2>2 DEF Deployments, Things, Resources
    <3> DEFINE m == d.model
    <3> HIDE DEF m
    <3> DEFINE row == [call[c] EXCEPT !.pc = "owned", !.res = m]
    <3>2. call' = [call EXCEPT ![c] = row]
      BY <2>2 DEF GetDeployment, m
    <3>3. row \in AnyCall
      BY <1>0, <3>1, Literals DEF AnyCall, m
    <3> QED BY <1>0, <3>2, <3>3 DEF AnyCall
  <2> QED BY <2>1, <2>2
<1>4. call' \in [Calls -> AnyCall] /\ Others(c) /\ call'[c] = row
  BY <1>0, <1>3, RowMoves
<1>5. Routes("predict", row.pc) /\ Follows("deployment", row.pc)
  BY <1>3, NoneIsNoKind DEF Routes, Follows, Counted, Kinds, Creates
<1>6. Moves(c)
  BY <1>0, <1>1, <1>3, <1>4, <1>5 DEF Moves, Fields
<1>7. Holds(call[c])'
  BY <1>0, <1>1, <1>3, <1>4 DEF Holds, Counted, OnDataset, DataKinds
<1> QED BY <1>0, <1>3, <1>4, <1>6, <1>7

LEMMA AuditMoves ==
  ASSUME Typed, UNCHANGED dataVars, NEW c \in Calls,
         Audit(c) \/ Message(c) \/ Disconnect(c) \/ RefuseMessage(c)
  PROVE  Moves(c) /\ Holds(call[c])' /\ Keeps(c)
<1>0. /\ Routes(call[c].kind, call[c].pc) /\ Holds(call[c])
      /\ call[c].pc \in {"audit", "open", "refusal"} /\ call[c].kind \in Counted
      /\ call[c].pc \in {"open", "refusal"} => call[c].kind = "ws"
  BY DEF Typed, Audit, Message, Disconnect, RefuseMessage, At, Running, Routes, Counted
<1>1. Writes(call[c].pc) /\ UNCHANGED <<scope, projects>>
  <2>1. CASE Message(c) \/ Disconnect(c)
    BY <2>1, OnlyCallWrites DEF Message, Disconnect
  <2>2. CASE Audit(c) \/ RefuseMessage(c)
    BY <2>2 DEF Audit, RefuseMessage, Writes, dataVars, At, Running
  <2> QED BY <2>1, <2>2
<1>2. \/ Goto(c, "open") /\ call[c].kind = "ws" /\ call[c].pc = "audit"
      \/ Goto(c, "done") \/ Answer(c, "429")
      \/ Goto(c, "row") /\ call[c].pc = "open"
  BY DEF Audit, Message, Disconnect, RefuseMessage, At, Running
<1>3. Moves(c) /\ Keeps(c) /\ call'[c].pc \in {"open", "done", "row"}
  <2>1. ASSUME NEW pc \in {"open", "done", "row"}, Goto(c, pc),
               pc = "open" => call[c].kind = "ws" /\ call[c].pc = "audit",
               pc = "row" => call[c].pc = "open"
        PROVE  Moves(c) /\ Keeps(c) /\ call'[c].pc \in {"open", "done", "row"}
    <3>1. Routes(call[c].kind, pc) /\ Follows(call[c].pc, pc)
      BY <1>0, <2>1, NoneIsNoKind DEF Routes, Follows, Counted, Kinds
    <3> QED BY <1>1, <2>1, <3>1, GotoProgram, Literals
  <2>2. CASE Answer(c, "429")
    BY <1>0, <1>1, <2>2, AnswerProgram
  <2> QED BY <1>2, <2>1, <2>2
<1>4. Holds(call[c])'
  BY <1>0, <1>1, <1>3 DEF Holds, Keeps, Counted
<1> QED BY <1>3, <1>4

LEMMA AcceptMoves ==
  ASSUME Typed, UNCHANGED dataVars, NEW c \in Calls, Accept(c)
  PROVE  /\ Moves(c) /\ Holds(call[c])' /\ call[c].pc = "connect" /\ OnlyCall
         /\ call'[c].pc \in {"open", "done"}
<1> DEFINE k == keys[call[c].key]
           i == k.proj
<1>0. /\ Routes(call[c].kind, call[c].pc) /\ Holds(call[c]) /\ call[c] \in AnyCall
      /\ call \in [Calls -> AnyCall] /\ call[c].kind = "ws"
      /\ call[c].pc = "connect" /\ OnlyCall
  BY DEF Typed, Accept, At, Running, Routes
<1>1. (\A p : Writes(p)) /\ UNCHANGED <<scope, projects>>
  BY <1>0, OnlyCallWrites
<1>2. call[c].key \in Keys
  BY <1>0 DEF Holds, Counted
<1>3. CASE KeyOK(c)
  <2>1. k \in KeyRows
    BY <1>2, <1>3 DEF KeyOK, Typed, ControlTypeOK
  <2>2. i \in Projects
    BY <2>1 DEF KeyRows
  <2> HIDE DEF i
  <2> DEFINE row == [call[c] EXCEPT !.pc = "open", !.proj = i]
  <2>3. call' = [call EXCEPT ![c] = row]
    BY <1>3 DEF Accept, i
  <2>4. row \in AnyCall
    BY <1>0, <2>2, Literals DEF AnyCall
  <2>5. /\ row.proj = i /\ row.quota = call[c].quota /\ row.pc = "open"
        /\ row.kind = "ws" /\ row.proc = call[c].proc /\ row.key = call[c].key
        /\ row.res = call[c].res /\ row.from = call[c].from /\ row.rows = call[c].rows
        /\ row.print = call[c].print
    BY <1>0 DEF AnyCall
  <2> HIDE DEF row
  <2>6. call' \in [Calls -> AnyCall] /\ Others(c) /\ call'[c] = row
    BY <1>0, <2>3, <2>4, RowMoves
  <2>7. Routes("ws", "open") /\ Follows("connect", "open")
    BY NoneIsNoKind DEF Routes, Follows, Counted, Kinds
  <2>8. Moves(c)
    BY <1>0, <1>1, <2>5, <2>6, <2>7 DEF Moves, Fields
  <2>9. Holds(call[c])'
    BY <1>0, <1>1, <1>2, <2>2, <2>5, <2>6 DEF Holds, OnDataset, DataKinds
  <2> QED BY <1>0, <2>5, <2>6, <2>8, <2>9
<1>4. CASE ~ KeyOK(c)
  <2>1. Answer(c, "401")
    BY <1>4 DEF Accept
  <2>2. Moves(c) /\ Keeps(c) /\ call'[c].pc = "done"
    BY <1>0, <1>1, <2>1, AnswerProgram
  <2>3. Holds(call[c])'
    BY <1>0, <1>1, <2>2 DEF Holds, Keeps
  <2> QED BY <1>0, <2>2, <2>3
<1> QED BY <1>3, <1>4

\* What is read by a call goes to its field "from".
LEMMA ReadProgram ==
  ASSUME Typed, NEW c \in Calls, NEW pc \in Pcs, NEW x \in Reads,
         call[c].pc \in {"load", "get"},
         call' = [call EXCEPT ![c].pc = pc, ![c].from = x],
         Follows(call[c].pc, pc), Writes(call[c].pc), Routes(call[c].kind, pc)
  PROVE  /\ Moves(c) /\ call'[c].pc = pc /\ call'[c].from = x
         /\ call'[c].proj = call[c].proj /\ call'[c].res = call[c].res
         /\ call'[c].kind = call[c].kind /\ call'[c].proc = call[c].proc
         /\ call'[c].key = call[c].key
<1> DEFINE row == [call[c] EXCEPT !.pc = pc, !.from = x]
<1>1. call[c] \in AnyCall /\ call \in [Calls -> AnyCall]
  BY DEF Typed
<1>2. row \in AnyCall
  BY <1>1 DEF AnyCall
<1>3. call' = [call EXCEPT ![c] = row]
  OBVIOUS
<1>4. /\ row.pc = pc /\ row.from = x /\ row.kind = call[c].kind /\ row.proc = call[c].proc
      /\ row.key = call[c].key /\ row.proj = call[c].proj /\ row.res = call[c].res
      /\ row.quota = call[c].quota /\ row.rows = call[c].rows /\ row.print = call[c].print
  BY <1>1 DEF AnyCall
<1> HIDE DEF row
<1>5. call' \in [Calls -> AnyCall] /\ Others(c) /\ call'[c] = row
  BY <1>1, <1>2, <1>3, RowMoves
<1> QED BY <1>4, <1>5 DEF Moves, Fields

LEMMA UpdateMoves ==
  ASSUME Typed, UNCHANGED dataVars, NEW c \in Calls, LoadProject(c) \/ StoreProject(c)
  PROVE  Moves(c) /\ Holds(call[c])' /\ (\A i \in Projects : Known(i) => Known(i)')
<1>0. /\ Routes(call[c].kind, call[c].pc) /\ Holds(call[c]) /\ call[c] \in AnyCall
      /\ call \in [Calls -> AnyCall] /\ call[c].kind = "update" /\ call[c].proj \in Projects
      /\ call[c].pc \in {"load", "store"}
  BY DEF Typed, LoadProject, StoreProject, At, Running, Routes, Holds
<1>1. CASE LoadProject(c)
  <2>1. (\A p : Writes(p)) /\ UNCHANGED <<scope, projects>> /\ call[c].pc = "load"
    BY <1>1, OnlyCallWrites DEF LoadProject, At, Running
  <2>3. PICK x \in ProjectRows : x = projects[call[c].proj]
    BY <1>0, <2>1 DEF Holds, Known, Typed, ControlTypeOK
  <2>2. call' = [call EXCEPT ![c].pc = "store", ![c].from = x]
    BY <1>1, <2>3 DEF LoadProject
  <2>4. Follows(call[c].pc, "store") /\ Routes(call[c].kind, "store") /\ "store" \in Pcs
    BY <1>0, <2>1, Literals, NoneIsNoKind DEF Follows, Routes, Kinds
  <2>5. x \in Reads
    BY <2>3 DEF Reads
  <2>6. /\ Moves(c) /\ call'[c].pc = "store" /\ call'[c].from = x
        /\ call'[c].proj = call[c].proj /\ call'[c].res = call[c].res
        /\ call'[c].kind = call[c].kind /\ call'[c].proc = call[c].proc
        /\ call'[c].key = call[c].key
    BY <2>1, <2>2, <2>4, <2>5, ReadProgram
  <2>7. Known(call[c].proj) /\ projects' = projects
    BY <1>0, <2>1 DEF Holds
  <2>8. Holds(call[c])'
    BY <1>0, <2>1, <2>3, <2>6, <2>7 DEF Holds, Known, Counted, OnDataset, DataKinds
  <2> QED BY <2>1, <2>6, <2>8 DEF Known
<1>2. CASE StoreProject(c)
  <2>1. Answer(c, "ok") /\ call[c].pc = "store" /\ UNCHANGED scope
    BY <1>2 DEF StoreProject, At, Running
  <2>2. Writes("store")
    BY <1>2 DEF StoreProject, Writes, dataVars
  <2>3. Moves(c) /\ Keeps(c) /\ call'[c].pc = "done"
    BY <2>1, <2>2, AnswerProgram
  <2>4. Holds(call[c])'
    BY <1>0, <2>1, <2>3 DEF Holds, Keeps, Counted, DataKinds, OnDataset
  <2>5. PICK row : projects' = [projects EXCEPT ![call[c].proj] = row] /\ row \in ProjectRows
    <3> DEFINE a == call[c]
               new == DOMAIN a.res
               row == [enabled |-> IF "enabled" \in new THEN a.res.enabled ELSE a.from.enabled,
                       quota |-> IF "quota" \in new THEN a.res.quota ELSE a.from.quota]
    <3>1. a.from \in ProjectRows /\ a.res \in scope.changes /\ scope \in Scopes
      BY <1>0, <2>1 DEF Holds, Typed, ControlTypeOK
    <3>2. IsChange(a.res)
      BY <3>1, ControlAssumption
    <3>3. projects' = [projects EXCEPT ![call[c].proj] = row]
      BY <1>2 DEF StoreProject
    <3>4. row \in ProjectRows
      BY <3>1, <3>2 DEF ProjectRows, IsChange
    <3> QED BY <3>3, <3>4
  <2>6. \A i \in Projects : Known(i) => Known(i)'
    <3>1. row # None
      BY <2>5, TenantAssumption DEF ProjectRows
    <3> QED BY <2>5, <3>1 DEF Known, Typed, ControlTypeOK
  <2> QED BY <2>3, <2>4, <2>6
<1> QED BY <1>1, <1>2

LEMMA DeployMoves ==
  ASSUME Typed, UNCHANGED dataVars, NEW c \in Calls, ReadDeployed(c) \/ WriteDeployed(c)
  PROVE  /\ Moves(c) /\ Holds(call[c])'
         /\ call'[c].proj = call[c].proj /\ call'[c].res = call[c].res
         /\ call'[c].kind = call[c].kind
         /\ ReadDeployed(c) => call'[c].pc = "write" /\ call'[c].from = deployed[call[c].proj]
         /\ WriteDeployed(c) => call'[c].pc \in {"done", "require"}
<1>0. /\ Routes(call[c].kind, call[c].pc) /\ Holds(call[c]) /\ call[c] \in AnyCall
      /\ call \in [Calls -> AnyCall] /\ call[c].kind \in {"promote", "rollback"}
      /\ call[c].proj \in Projects /\ call[c].pc \in {"get", "write"} /\ call[c].res \in Models
  BY DEF Typed, ReadDeployed, WriteDeployed, At, Running, Routes, Holds
<1>1. CASE ReadDeployed(c)
  <2>1. (\A p : Writes(p)) /\ UNCHANGED <<scope, projects>> /\ call[c].pc = "get"
    BY <1>1, OnlyCallWrites DEF ReadDeployed, At, Running
  <2>2. PICK x \in Deployments \cup {None} : x = deployed[call[c].proj]
    BY <1>0 DEF Typed, ControlTypeOK
  <2>3. call' = [call EXCEPT ![c].pc = "write", ![c].from = x]
    BY <1>1, <2>2 DEF ReadDeployed
  <2>4. Follows("get", "write") /\ Routes(call[c].kind, "write") /\ "write" \in Pcs /\ x \in Reads
    BY <1>0, Literals, NoneIsNoKind DEF Follows, Routes, Kinds, Reads
  <2>5. /\ Moves(c) /\ call'[c].pc = "write" /\ call'[c].from = x
        /\ call'[c].proj = call[c].proj /\ call'[c].res = call[c].res
        /\ call'[c].kind = call[c].kind /\ call'[c].proc = call[c].proc
        /\ call'[c].key = call[c].key
    BY <1>0, <2>1, <2>3, <2>4, ReadProgram
  <2>6. Holds(call[c])'
    BY <1>0, <2>1, <2>5 DEF Holds, Counted, OnDataset, DataKinds
  <2>7. ~ WriteDeployed(c)
    BY <2>1 DEF WriteDeployed, At, Running
  <2> QED BY <2>2, <2>5, <2>6, <2>7
<1>2. CASE WriteDeployed(c)
  <2>1. Writes("write") /\ UNCHANGED <<scope, projects>> /\ call[c].pc = "write"
    BY <1>2 DEF WriteDeployed, Writes, dataVars, At, Running
  <2>2. Answer(c, "ok") \/ (call[c].kind = "rollback" /\ Goto(c, "require"))
    BY <1>0, <1>2 DEF WriteDeployed
  <2>3. Routes("rollback", "require") /\ Follows("write", "require")
    BY NoneIsNoKind DEF Routes, Follows, Kinds
  <2>4. Moves(c) /\ Keeps(c) /\ call'[c].pc \in {"done", "require"}
    BY <2>1, <2>2, <2>3, GotoProgram, AnswerProgram, Literals
  <2>5. Holds(call[c])'
    BY <1>0, <2>1, <2>4 DEF Holds, Keeps, Counted, OnDataset, DataKinds
  <2>6. ~ ReadDeployed(c)
    BY <2>1 DEF ReadDeployed, At, Running
  <2> QED BY <2>4, <2>5, <2>6 DEF Keeps
<1> QED BY <1>1, <1>2

LEMMA RollbackMoves ==
  ASSUME Typed, UNCHANGED dataVars, NEW c \in Calls, RollbackFrom(c) \/ RollbackTo(c)
  PROVE  /\ Moves(c) /\ Holds(call[c])' /\ OnlyCall
         /\ call[c].pc \in {"current", "previous"} /\ call'[c].pc \in {"done", "previous", "get"}
         /\ call'[c].kind = "rollback" /\ call'[c].proj = call[c].proj /\ call[c].proj \in Projects
         /\ call'[c].pc = "get" =>
              \E k \in DOMAIN history[call[c].proj] : call'[c].res = history[call[c].proj][k].model
<1> DEFINE h == history[call[c].proj]
<1>0. /\ Routes(call[c].kind, call[c].pc) /\ Holds(call[c]) /\ call[c] \in AnyCall
      /\ call \in [Calls -> AnyCall] /\ call[c].kind = "rollback"
      /\ call[c].proj \in Projects /\ call[c].pc \in {"current", "previous"} /\ OnlyCall
  BY DEF Typed, RollbackFrom, RollbackTo, At, Running, Routes, Holds
<1>1. (\A p : Writes(p)) /\ UNCHANGED <<scope, projects>>
  BY <1>0, OnlyCallWrites
<1>2. CASE \E status \in {"failed"} : Answer(c, status)
  <2>1. Moves(c) /\ Keeps(c) /\ call'[c].pc = "done"
    BY <1>0, <1>1, <1>2, AnswerProgram
  <2>2. Holds(call[c])'
    BY <1>0, <1>1, <2>1 DEF Holds, Keeps, Counted, OnDataset, DataKinds
  <2> QED BY <1>0, <2>1, <2>2 DEF Keeps
<1>3. CASE Goto(c, "previous") /\ call[c].pc = "current"
  <2>1. Routes("rollback", "previous") /\ Follows("current", "previous")
    BY NoneIsNoKind DEF Routes, Follows, Kinds
  <2>2. Moves(c) /\ Keeps(c) /\ call'[c].pc = "previous"
    BY <1>0, <1>1, <1>3, <2>1, GotoProgram, Literals
  <2>3. Holds(call[c])'
    BY <1>0, <1>1, <2>2 DEF Holds, Keeps, Counted, OnDataset, DataKinds
  <2> QED BY <1>0, <2>2, <2>3 DEF Keeps
<1>4. ASSUME call[c].pc = "previous", NEW k \in DOMAIN h,
             call' = [call EXCEPT ![c].pc = "get", ![c].res = h[k].model]
      PROVE  /\ Moves(c) /\ Holds(call[c])' /\ call'[c].pc = "get" /\ call'[c].kind = "rollback"
             /\ call'[c].proj = call[c].proj /\ call'[c].res = h[k].model
  <2>1. h \in Seq(Deployments)
    BY <1>0 DEF Typed, ControlTypeOK
  <2>2. h[k] \in Deployments
    BY <1>4, <2>1
  <2>3. PICK m \in Models : m = h[k].model
    BY <2>2 DEF Deployments
  <2>4. m \in Things
    BY DEF Things, Resources
  <2> DEFINE row == [call[c] EXCEPT !.pc = "get", !.res = m]
  <2>5. row \in AnyCall /\ call' = [call EXCEPT ![c] = row]
    BY <1>0, <1>4, <2>3, <2>4, Literals DEF AnyCall
  <2>6. /\ row.pc = "get" /\ row.res = m /\ row.from = call[c].from /\ row.kind = "rollback"
        /\ row.proc = call[c].proc
        /\ row.key = call[c].key /\ row.proj = call[c].proj
        /\ row.quota = call[c].quota /\ row.rows = call[c].rows /\ row.print = call[c].print
    BY <1>0 DEF AnyCall
  <2> HIDE DEF row
  <2>7. call' \in [Calls -> AnyCall] /\ Others(c) /\ call'[c] = row
    BY <1>0, <2>5, RowMoves
  <2>8. Routes("rollback", "get") /\ Follows("previous", "get")
    BY NoneIsNoKind DEF Routes, Follows, Kinds
  <2>9. Moves(c)
    BY <1>0, <1>1, <1>4, <2>6, <2>7, <2>8 DEF Moves, Fields
  <2>10. Holds(call[c])'
    BY <1>0, <1>1, <2>6, <2>7 DEF Holds, Counted, OnDataset, DataKinds
  <2> QED BY <2>3, <2>6, <2>7, <2>9, <2>10
<1>5. CASE RollbackFrom(c)
  BY <1>2, <1>3, <1>5 DEF RollbackFrom, At, Running
<1>6. CASE RollbackTo(c)
  <2>1. call[c].pc = "previous"
    BY <1>6 DEF RollbackTo, At, Running
  <2>2. CASE Answer(c, "failed")
    BY <1>2, <2>2
  <2>3. CASE \E k \in DOMAIN h : call' = [call EXCEPT ![c].pc = "get", ![c].res = h[k].model]
    BY <1>0, <1>4, <2>1, <2>3
  <2> QED BY <1>6, <2>2, <2>3 DEF RollbackTo
<1> QED BY <1>5, <1>6

LEMMA RegisterMoves ==
  ASSUME Typed, UNCHANGED <<controlVars, dataVars>>, NEW c \in Calls,
         RequireProject(c) \/ SelectOwner(c) \/ InsertOwner(c)
  PROVE  /\ Moves(c) /\ Holds(call[c])' /\ Keeps(c)
         /\ call[c].pc \in {"require", "select", "insert"} /\ UNCHANGED projects
         /\ call[c].pc = "require" => RequireProject(c)
         /\ call[c].pc = "select" => SelectOwner(c)
         /\ call[c].pc = "insert" => InsertOwner(c)
<1>0. /\ Routes(call[c].kind, call[c].pc) /\ Holds(call[c])
      /\ call[c].pc \in {"require", "select", "insert"}
      /\ call[c].kind \in Creates \cup {"promote", "rollback", "train"}
      /\ call[c].proj \in Projects
  BY DEF Typed, RequireProject, SelectOwner, InsertOwner, Running, Routes, Holds
<1>1. /\ call[c].pc = "require" => RequireProject(c)
      /\ call[c].pc = "select" => SelectOwner(c)
      /\ call[c].pc = "insert" => InsertOwner(c)
  BY <1>0 DEF RequireProject, SelectOwner, InsertOwner, Running
<1>2. Writes(call[c].pc) /\ UNCHANGED <<scope, projects>>
  BY <1>0, <1>1 DEF RequireProject, SelectOwner, InsertOwner, Writes, controlVars, dataVars
<1>3. ASSUME NEW pc \in {"select", "insert", "undo", "get"}, Goto(c, pc),
             pc = "select" => call[c].pc = "require", pc = "insert" => call[c].pc = "select",
             pc = "undo" => call[c].kind = "create_dataset",
             pc = "get" => call[c].kind = "promote" /\ call[c].pc \in {"select", "insert"}
      PROVE  Moves(c) /\ Keeps(c) /\ Holds(call[c])'
  <2>1. Routes(call[c].kind, pc) /\ Follows(call[c].pc, pc)
    BY <1>0, <1>3, NoneIsNoKind DEF Routes, Follows, Kinds, Creates
  <2>2. Moves(c) /\ Keeps(c) /\ call'[c].pc = pc
    BY <1>2, <1>3, <2>1, GotoProgram, Literals
  <2>3. Holds(call[c])'
    BY <1>0, <1>2, <1>3, <2>2 DEF Holds, Keeps, Creates, Counted, OnDataset, DataKinds
  <2> QED BY <2>2, <2>3
<1>4. ASSUME NEW status \in {"ok", "failed"}, Answer(c, status)
      PROVE  Moves(c) /\ Keeps(c) /\ Holds(call[c])'
  <2>1. Moves(c) /\ Keeps(c) /\ call'[c].pc = "done"
    BY <1>0, <1>2, <1>4, AnswerProgram
  <2>2. Holds(call[c])'
    BY <1>0, <1>2, <2>1 DEF Holds, Keeps, Creates, Counted, OnDataset, DataKinds
  <2> QED BY <2>1, <2>2
<1>5. RegisterFails(c) => Moves(c) /\ Keeps(c) /\ Holds(call[c])'
  BY <1>3, <1>4 DEF RegisterFails
<1>6. Registered(c) /\ call[c].pc \in {"select", "insert"} => Moves(c) /\ Keeps(c) /\ Holds(call[c])'
  BY <1>3, <1>4 DEF Registered
<1>7. Moves(c) /\ Keeps(c) /\ Holds(call[c])'
  BY <1>0, <1>1, <1>3, <1>5, <1>6 DEF RequireProject, SelectOwner, InsertOwner
<1> QED BY <1>0, <1>1, <1>2, <1>7


-----------------------------------------------------------------------------
(* The statements of the stores *)

LEMMA OnlyControlWrites ==
  ASSUME OnlyControl
  PROVE  /\ UNCHANGED dataVars => \A p : Writes(p)
         /\ UNCHANGED <<scope, projects, owner, models, crashes>> /\ UNCHANGED controlVars
BY DEF OnlyControl, controlVars, dataVars, Writes

LEMMA RowProgram ==
  ASSUME Typed, NEW c \in Calls, NEW row \in AnyCall, call' = [call EXCEPT ![c] = row],
         row.kind = call[c].kind, row.proc = call[c].proc, row.key = call[c].key,
         row.proj = call[c].proj, row.quota = call[c].quota,
         call[c].pc \notin {"deployment", "previous", "training"} => row.res = call[c].res,
         call[c].pc \notin {"load", "get", "training"} => row.from = call[c].from,
         call[c].pc \notin {"list", "rows"} => row.rows = call[c].rows,
         call[c].pc # "exists" => row.print = call[c].print,
         Follows(call[c].pc, row.pc), Writes(call[c].pc), Routes(row.kind, row.pc)
  PROVE  Moves(c) /\ call'[c] = row
<1>1. call' \in [Calls -> AnyCall] /\ Others(c) /\ call'[c] = row
  BY RowMoves DEF Typed
<1> QED BY <1>1 DEF Moves, Fields

LEMMA OwnerMoves ==
  ASSUME Typed, NEW c \in Calls, AssertOwner(c)
  PROVE  /\ Moves(c) /\ Holds(call[c])' /\ Keeps(c) /\ call[c].pc = "owned"
         /\ UNCHANGED <<projects, dataVars>> /\ call[c].kind \in DataKinds \ Creates
         /\ call'[c].pc # "done" => owner[call[c].res] = call[c].proj
<1> DEFINE next == CASE call[c].kind = "delete_dataset" -> "delete"
                     [] call[c].kind = "resolve_review" -> "resolve"
                     [] OTHER -> "exists"
<1>0. /\ Routes(call[c].kind, call[c].pc) /\ Holds(call[c]) /\ call[c] \in AnyCall
      /\ call[c].pc = "owned" /\ call[c].kind \notin Counted /\ call[c].kind \in Kinds
  BY DEF Typed, AssertOwner, At, Running, Routes, AnyCall
<1>1. call[c].kind \in {"delete_dataset", "import", "train", "add", "resolve_review"}
  BY <1>0 DEF Routes, Counted, Kinds, Creates
<1>2. (\A p : Writes(p)) /\ UNCHANGED <<scope, projects>> /\ UNCHANGED dataVars
  BY OnlyControlWrites DEF AssertOwner, OnlyGoto, Ends
<1>3. \/ Owns(call[c].proj, call[c].res) /\ Goto(c, next)
      \/ Answer(c, "failed")
  BY DEF AssertOwner, OnlyGoto, Ends
<1>4. /\ next \in {"delete", "resolve", "exists"}
      /\ Follows(call[c].pc, next) /\ Routes(call[c].kind, next) /\ next \in Pcs
  <2>1. next \in {"delete", "resolve", "exists"}
    OBVIOUS
  <2>2. Follows(call[c].pc, next)
    BY <1>0, <2>1 DEF Follows
  <2>3. Routes(call[c].kind, next)
    BY <1>1, NoneIsNoKind DEF Routes, Kinds
  <2> QED BY <2>1, <2>2, <2>3, Literals
<1> HIDE DEF next
<1>5. /\ Moves(c) /\ Keeps(c)
      /\ \/ call'[c].pc = next /\ Owns(call[c].proj, call[c].res)
         \/ call'[c].pc = "done"
  <2>1. CASE Goto(c, next) /\ Owns(call[c].proj, call[c].res)
    BY <1>2, <1>4, <2>1, GotoProgram
  <2>2. CASE Answer(c, "failed")
    BY <1>0, <1>2, <2>2, AnswerProgram
  <2> QED BY <1>3, <2>1, <2>2
<1>6. Holds(call[c])'
  BY <1>0, <1>1, <1>2, <1>4, <1>5 DEF Holds, Keeps, Counted, DataKinds, OnDataset
<1> QED BY <1>0, <1>1, <1>2, <1>5, <1>6 DEF Owns, DataKinds, OnDataset, Creates

LEMMA CreateMoves ==
  ASSUME Typed, NEW c \in Calls, CreateDataset(c) \/ CreateReview(c)
  PROVE  /\ Moves(c) /\ Holds(call[c])' /\ Keeps(c) /\ UNCHANGED projects
         /\ call[c].pc = "create" /\ call'[c].pc = "require" /\ call[c].kind \in Creates
<1>0. /\ Routes(call[c].kind, call[c].pc) /\ Holds(call[c]) /\ call[c] \in AnyCall
      /\ call[c].pc = "create" /\ call[c].kind \in Creates
  BY DEF Typed, CreateDataset, CreateReview, At, Running, Routes, Creates
<1>1. UNCHANGED <<scope, projects, owner, models, crashes>> /\ UNCHANGED controlVars
  BY OnlyControlWrites DEF CreateDataset, CreateReview
<1>2. Writes("create") /\ Goto(c, "require")
  BY <1>1 DEF CreateDataset, CreateReview, Writes, controlVars
<1>3. Follows("create", "require") /\ Routes(call[c].kind, "require")
  BY <1>0, NoneIsNoKind DEF Follows, Routes, Creates, Kinds
<1>4. Moves(c) /\ Keeps(c) /\ call'[c].pc = "require"
  BY <1>0, <1>2, <1>3, GotoProgram, Literals
<1>5. Holds(call[c])'
  BY <1>0, <1>1, <1>4 DEF Holds, Keeps, Creates, Counted, DataKinds, OnDataset
<1> QED BY <1>0, <1>1, <1>4, <1>5

LEMMA EndMoves ==
  ASSUME Typed, NEW c \in Calls,
         \/ UndoDataset(c) \/ UnregisterDataset(c) \/ AddExamples(c) \/ ResolveReview(c)
  PROVE  /\ Moves(c) /\ Holds(call[c])' /\ Keeps(c) /\ UNCHANGED projects
         /\ call[c].pc \in {"undo", "unregister", "add", "resolve"} /\ call'[c].pc = "done"
<1>0. /\ Holds(call[c]) /\ call[c].pc \in {"undo", "unregister", "add", "resolve"}
  BY DEF Typed, UndoDataset, UnregisterDataset, AddExamples, ResolveReview, At, Running
<1>1. UNCHANGED <<scope, projects, models, crashes>> /\ UNCHANGED controlVars
  BY OnlyControlWrites DEF UndoDataset, UnregisterDataset, AddExamples, ResolveReview
<1>2. Writes(call[c].pc)
  <2>1. CASE UndoDataset(c)
    BY <1>1, <2>1, OnlyControlWrites DEF UndoDataset, DropDataset, Writes, At, Running, controlVars
  <2>2. CASE UnregisterDataset(c)
    BY <1>1, <2>2 DEF UnregisterDataset, Writes, At, Running, controlVars, dataVars
  <2>3. CASE AddExamples(c)
    BY <1>1, <2>3, OnlyControlWrites DEF AddExamples, Writes, At, Running, controlVars
  <2>4. CASE ResolveReview(c)
    BY <1>1, <2>4, OnlyControlWrites DEF ResolveReview, Writes, At, Running, controlVars
  <2> QED BY <2>1, <2>2, <2>3, <2>4
<1>3. Answer(c, "ok") \/ Answer(c, "failed")
  BY DEF UndoDataset, UnregisterDataset, AddExamples, ResolveReview
<1>4. Moves(c) /\ Keeps(c) /\ call'[c].pc = "done"
  BY <1>0, <1>2, <1>3, AnswerProgram
<1>5. Holds(call[c])'
  BY <1>0, <1>1, <1>4 DEF Holds, Keeps, Counted, DataKinds, OnDataset
<1> QED BY <1>0, <1>1, <1>4, <1>5

LEMMA DeleteMoves ==
  ASSUME Typed, NEW c \in Calls, DeleteDataset(c)
  PROVE  /\ Moves(c) /\ Holds(call[c])' /\ Keeps(c) /\ UNCHANGED projects
         /\ call[c].pc = "delete" /\ call'[c].pc = "unregister"
<1>0. /\ Routes(call[c].kind, call[c].pc) /\ Holds(call[c]) /\ call[c].pc = "delete"
      /\ call[c].kind = "delete_dataset"
  BY DEF Typed, DeleteDataset, At, Running, Routes
<1>1. UNCHANGED <<scope, projects, owner, models, crashes>> /\ UNCHANGED controlVars
  BY OnlyControlWrites DEF DeleteDataset
<1>2. Writes("delete") /\ Goto(c, "unregister")
  BY <1>1 DEF DeleteDataset, DropDataset, Writes, controlVars
<1>3. Follows("delete", "unregister") /\ Routes(call[c].kind, "unregister")
  BY <1>0, NoneIsNoKind DEF Follows, Routes, Kinds
<1>4. Moves(c) /\ Keeps(c) /\ call'[c].pc = "unregister"
  BY <1>0, <1>2, <1>3, GotoProgram, Literals
<1>5. Holds(call[c])'
  BY <1>0, <1>1, <1>4 DEF Holds, Keeps, Counted, DataKinds, OnDataset
<1> QED BY <1>0, <1>1, <1>4, <1>5

LEMMA RecordMoves ==
  ASSUME Typed, NEW c \in Calls, RecordModel(c)
  PROVE  /\ Moves(c) /\ Holds(call[c])' /\ Keeps(c) /\ UNCHANGED projects
         /\ call[c].pc = "record" /\ call'[c].pc \in {"require", "done"}
<1>0. /\ Routes(call[c].kind, call[c].pc) /\ Holds(call[c]) /\ call[c].pc = "record"
      /\ call[c].kind = "train"
  BY DEF Typed, RecordModel, At, Running, Routes
<1>1. UNCHANGED <<scope, projects, owner, models, crashes>> /\ UNCHANGED controlVars
  BY OnlyControlWrites DEF RecordModel
<1>2. Writes("record") /\ (Goto(c, "require") \/ Answer(c, "failed"))
  BY <1>1 DEF RecordModel, Writes, controlVars
<1>3. Follows("record", "require") /\ Routes(call[c].kind, "require")
  BY <1>0, NoneIsNoKind DEF Follows, Routes, Kinds
<1>4. Moves(c) /\ Keeps(c) /\ call'[c].pc \in {"require", "done"}
  BY <1>0, <1>2, <1>3, GotoProgram, AnswerProgram, Literals
<1>5. Holds(call[c])'
  BY <1>0, <1>1, <1>4 DEF Holds, Keeps, Counted, DataKinds, OnDataset
<1> QED BY <1>0, <1>1, <1>4, <1>5

LEMMA GetMoves ==
  ASSUME Typed, NEW c \in Calls, GetDataset(c)
  PROVE  /\ Moves(c) /\ Holds(call[c])' /\ UNCHANGED <<projects, dataVars>>
         /\ call[c].pc = "exists" /\ call[c].res \in Datasets
         /\ call'[c].pc \in {"done", "rows", "list", "add"}
         /\ call'[c].pc = "add" => call[c].kind = "add"
         /\ call'[c].pc = "rows" => /\ Live(call[c].res) /\ call[c].res \in scope.permit
                                    /\ call'[c].print = datasets[call[c].res]
<1> DEFINE a == call[c]
           pc == CASE a.kind = "train" -> "rows"
                   [] a.kind = "import" -> "list"
                   [] OTHER -> "add"
           print == IF a.kind = "train" THEN datasets[a.res] ELSE a.print
           row == [a EXCEPT !.pc = pc, !.print = print]
<1>0. /\ Routes(a.kind, a.pc) /\ Holds(a) /\ a \in AnyCall /\ call \in [Calls -> AnyCall]
      /\ a.pc = "exists" /\ a.kind \in {"add", "import", "train"} /\ a.res \in Datasets
  BY DEF Typed, GetDataset, At, Running, Routes, Holds, OnDataset
<1>1. (\A p : Writes(p)) /\ UNCHANGED <<scope, projects>> /\ UNCHANGED dataVars
  BY OnlyControlWrites DEF GetDataset, Ends
<1>2. CASE ~ Live(a.res) \/ (a.kind = "train" /\ a.res \notin scope.permit)
  <2>1. Answer(c, "failed")
    BY <1>2 DEF GetDataset, Ends
  <2>2. Moves(c) /\ Keeps(c) /\ call'[c].pc = "done"
    BY <1>0, <1>1, <2>1, AnswerProgram
  <2>3. Holds(call[c])'
    BY <1>0, <1>1, <2>2 DEF Holds, Keeps, Counted, DataKinds, OnDataset
  <2> QED BY <1>0, <1>1, <2>2, <2>3
<1>3. CASE Live(a.res) /\ (a.kind = "train" => a.res \in scope.permit)
  <2>1. call' = [call EXCEPT ![c].pc = pc, ![c].print = print]
    BY <1>0, <1>3 DEF GetDataset, AnyCall
  <2>2. call' = [call EXCEPT ![c] = row]
    BY <1>0, <2>1 DEF AnyCall
  <2>3. /\ pc \in {"rows", "list", "add"} /\ (pc = "add" => a.kind = "add")
        /\ (pc = "rows" => a.kind = "train") /\ Routes(a.kind, pc) /\ Follows("exists", pc)
    BY <1>0, NoneIsNoKind DEF Routes, Follows, Kinds
  <2>4. print \in AnyRows
    <3>1. datasets[a.res] \in SUBSET ExampleRows
      BY <1>0, <1>3 DEF Live, Typed, DataTypeOK
    <3>2. a.print \in AnyRows
      BY <1>0 DEF AnyCall
    <3> QED BY <3>1, <3>2 DEF AnyRows
  <2>5. a.kind = "train" => print = datasets[a.res]
    OBVIOUS
  <2> HIDE DEF pc, print
  <2>6. row \in AnyCall
    BY <1>0, <2>3, <2>4, Literals DEF AnyCall
  <2>7. /\ row.pc = pc /\ row.print = print /\ row.kind = a.kind /\ row.proc = a.proc
        /\ row.key = a.key /\ row.proj = a.proj /\ row.res = a.res /\ row.quota = a.quota
        /\ row.from = a.from /\ row.rows = a.rows
    BY <1>0 DEF AnyCall
  <2> HIDE DEF row, a
  <2>8. Moves(c) /\ call'[c] = row
    BY <1>0, <1>1, <2>2, <2>3, <2>6, <2>7, RowProgram DEF a
  <2>10. a.kind = "add" => a.rows \subseteq ExampleRows
    BY <1>0 DEF Holds
  <2>9. Holds(call[c])'
    BY <1>0, <1>1, <2>3, <2>7, <2>8, <2>10 DEF Holds, Counted, DataKinds, OnDataset
  <2> QED BY <1>0, <1>1, <1>3, <2>3, <2>5, <2>7, <2>8, <2>9 DEF a
<1> QED BY <1>2, <1>3

LEMMA ListMoves ==
  ASSUME Typed, NEW c \in Calls, ListReviews(c)
  PROVE  /\ Moves(c) /\ Holds(call[c])' /\ UNCHANGED <<projects, dataVars>>
         /\ call[c].pc = "list" /\ call[c].res \in Datasets
         /\ call'[c].pc \in {"done", "add"}
         /\ call'[c].pc = "add" => \A x \in call'[c].rows :
              x \in ExampleRows /\ x.review \in Reviews /\ owner[x.review] = call[c].proj
<1> DEFINE a == call[c]
           R == {r \in Reviews : Owns(a.proj, r) /\ Decision[r] = Decision[a.res]}
<1>0. /\ Routes(a.kind, a.pc) /\ Holds(a) /\ a \in AnyCall /\ call \in [Calls -> AnyCall]
      /\ a.pc = "list" /\ a.kind = "import" /\ a.res \in Datasets
  BY DEF Typed, ListReviews, At, Running, Routes, Holds, OnDataset
<1>1. (\A p : Writes(p)) /\ UNCHANGED <<scope, projects>> /\ UNCHANGED dataVars
  BY OnlyControlWrites DEF ListReviews, Ends
<1>2. CASE Answer(c, "failed")
  <2>2. Moves(c) /\ Keeps(c) /\ call'[c].pc = "done"
    BY <1>0, <1>1, <1>2, AnswerProgram
  <2>3. Holds(call[c])'
    BY <1>0, <1>1, <2>2 DEF Holds, Keeps, Counted, DataKinds, OnDataset
  <2> QED BY <1>0, <1>1, <2>2, <2>3
<1>3. CASE \E split \in {"train", "validation"} :
             call' = [call EXCEPT ![c].pc = "add", ![c].rows = Examples(R, split)]
  <2>1. PICK split \in {"train", "validation"} :
             call' = [call EXCEPT ![c].pc = "add", ![c].rows = Examples(R, split)]
    BY <1>3
  <2> DEFINE S == Examples(R, split)
  <2>3. \A x \in S : x \in ExampleRows /\ x.review \in Reviews /\ owner[x.review] = a.proj
    <3>1. SUFFICES ASSUME NEW x \in S
                   PROVE  x \in ExampleRows /\ x.review \in Reviews /\ owner[x.review] = a.proj
      OBVIOUS
    <3>2. PICK r \in Reviews :
            /\ x = [text |-> reviews[r].text, label |-> reviews[r].label, split |-> split,
                    review |-> r]
            /\ owner[r] = a.proj /\ reviews[r] # None
            /\ None \notin {reviews[r].text, reviews[r].label}
      BY <3>1 DEF Examples, Owns
    <3>3. reviews[r] \in ReviewRows
      BY <3>2 DEF Typed, DataTypeOK
    <3>4. reviews[r].text \in Texts /\ reviews[r].label \in Labels
      BY <3>2, <3>3 DEF ReviewRows
    <3> QED BY <3>2, <3>4 DEF ExampleRows, Splits
  <2> HIDE DEF S
  <2>4. S \in AnyRows
    BY <2>3 DEF AnyRows
  <2> DEFINE row == [a EXCEPT !.pc = "add", !.rows = S]
  <2>5. call' = [call EXCEPT ![c] = row] /\ row \in AnyCall
    BY <1>0, <2>1, <2>4, Literals DEF AnyCall, S
  <2>7. /\ row.pc = "add" /\ row.rows = S /\ row.kind = "import" /\ row.proc = a.proc
        /\ row.key = a.key /\ row.proj = a.proj /\ row.res = a.res /\ row.quota = a.quota
        /\ row.from = a.from /\ row.print = a.print
    BY <1>0 DEF AnyCall
  <2>6. Routes("import", "add") /\ Follows("list", "add")
    BY NoneIsNoKind DEF Routes, Follows, Kinds
  <2> HIDE DEF row, a
  <2>8. Moves(c) /\ call'[c] = row
    <3>1. Routes(row.kind, row.pc) /\ Follows(call[c].pc, row.pc)
      BY <1>0, <2>6, <2>7 DEF a
    <3> QED BY <1>0, <1>1, <2>5, <2>7, <3>1, RowProgram DEF a
  <2>9. Holds(call[c])'
    BY <1>0, <1>1, <2>3, <2>7, <2>8 DEF Holds, Counted, DataKinds, OnDataset
  <2> QED BY <1>0, <1>1, <2>3, <2>7, <2>8, <2>9 DEF a
<1> QED BY <1>2, <1>3 DEF ListReviews, Ends

LEMMA LimitedRows ==
  ASSUME NEW R, NEW S \in Limited(R)
  PROVE  S \subseteq R /\ (S = R \/ Cardinality(S) = TrainLimit)
BY DEF Limited

LEMMA RowsMoves ==
  ASSUME Typed, NEW c \in Calls, ReadExamples(c)
  PROVE  /\ Moves(c) /\ Holds(call[c])' /\ UNCHANGED <<projects, dataVars>>
         /\ call[c].pc = "rows" /\ call[c].res \in Datasets /\ call[c].kind = "train"
         /\ call'[c].pc \in {"done", "training"}
         /\ call'[c].pc = "training" => /\ Live(call[c].res)
                                        /\ call'[c].rows \in Limited(Part(datasets[call[c].res], "train"))
<1> DEFINE a == call[c]
<1>0. /\ Routes(a.kind, a.pc) /\ Holds(a) /\ a \in AnyCall /\ call \in [Calls -> AnyCall]
      /\ a.pc = "rows" /\ a.kind = "train" /\ a.res \in Datasets
  BY DEF Typed, ReadExamples, At, Running, Routes, Holds
<1>1. (\A p : Writes(p)) /\ UNCHANGED <<scope, projects>> /\ UNCHANGED dataVars
  BY OnlyControlWrites DEF ReadExamples, Ends
<1>2. CASE Answer(c, "failed")
  <2>2. Moves(c) /\ Keeps(c) /\ call'[c].pc = "done"
    BY <1>0, <1>1, <1>2, AnswerProgram
  <2>3. Holds(call[c])'
    BY <1>0, <1>1, <2>2 DEF Holds, Keeps, Counted, DataKinds, OnDataset
  <2> QED BY <1>0, <1>1, <2>2, <2>3
<1>3. CASE /\ Live(a.res)
           /\ \E S \in Limited(Part(datasets[a.res], "train")) :
                call' = [call EXCEPT ![c].pc = "training", ![c].rows = S]
  <2>1. PICK S \in Limited(Part(datasets[a.res], "train")) :
              call' = [call EXCEPT ![c].pc = "training", ![c].rows = S]
    BY <1>3
  <2>2. S \in AnyRows
    <3>1. datasets[a.res] \in SUBSET ExampleRows
      BY <1>0, <1>3 DEF Live, Typed, DataTypeOK
    <3> QED BY <3>1, LimitedRows DEF Part, AnyRows
  <2> DEFINE row == [a EXCEPT !.pc = "training", !.rows = S]
  <2>5. call' = [call EXCEPT ![c] = row] /\ row \in AnyCall
    BY <1>0, <2>1, <2>2, Literals DEF AnyCall
  <2>7. /\ row.pc = "training" /\ row.rows = S /\ row.kind = "train" /\ row.proc = a.proc
        /\ row.key = a.key /\ row.proj = a.proj /\ row.res = a.res /\ row.quota = a.quota
        /\ row.from = a.from /\ row.print = a.print
    BY <1>0 DEF AnyCall
  <2>6. Routes("train", "training") /\ Follows("rows", "training")
    BY NoneIsNoKind DEF Routes, Follows, Kinds
  <2> HIDE DEF row, a
  <2>8. Moves(c) /\ call'[c] = row
    <3>1. Routes(row.kind, row.pc) /\ Follows(call[c].pc, row.pc)
      BY <1>0, <2>6, <2>7 DEF a
    <3> QED BY <1>0, <1>1, <2>5, <2>7, <3>1, RowProgram DEF a
  <2>9. Holds(call[c])'
    BY <1>0, <1>1, <2>7, <2>8 DEF Holds, Counted, DataKinds, OnDataset
  <2> QED BY <1>0, <1>1, <1>3, <2>1, <2>7, <2>8, <2>9 DEF a
<1> QED BY <1>2, <1>3 DEF ReadExamples, Ends

LEMMA TrainMoves ==
  ASSUME Typed, NEW c \in Calls, Train(c)
  PROVE  /\ Moves(c) /\ Holds(call[c])' /\ UNCHANGED <<projects, dataVars>>
         /\ call[c].pc = "training" /\ call[c].res \in Datasets /\ call[c].kind = "train"
         /\ models \subseteq models' /\ models' \subseteq Models
         /\ call'[c].pc \in {"done", "evaluate", "record"}
         /\ call'[c].pc # "done" => /\ call'[c].from = call[c].res
                                    /\ call'[c].res \in models' \ models
                                    /\ call'[c].rows = call[c].rows
                                    /\ call'[c].print = call[c].print
<1> DEFINE a == call[c]
<1>0. /\ Routes(a.kind, a.pc) /\ Holds(a) /\ a \in AnyCall /\ call \in [Calls -> AnyCall]
      /\ a.pc = "training" /\ a.kind = "train" /\ a.res \in Datasets /\ models \subseteq Models
  BY DEF Typed, ControlTypeOK, Train, At, Running, Routes, Holds
<1>1. Writes("training") /\ UNCHANGED <<scope, projects>> /\ UNCHANGED dataVars
  BY DEF Train, Writes, controlVars, dataVars
<1>2. CASE Answer(c, "failed") /\ UNCHANGED models
  <2>2. Moves(c) /\ Keeps(c) /\ call'[c].pc = "done"
    BY <1>0, <1>1, <1>2, AnswerProgram
  <2>3. Holds(call[c])'
    BY <1>0, <1>1, <2>2 DEF Holds, Keeps, Counted, DataKinds, OnDataset
  <2> QED BY <1>0, <1>1, <1>2, <2>2, <2>3
<1>3. CASE \E m \in Models \ models, next \in {"evaluate", "record"} :
             /\ models' = models \cup {m}
             /\ call' = [call EXCEPT ![c].pc = next, ![c].from = a.res, ![c].res = m]
  <2>1. PICK m \in Models \ models, next \in {"evaluate", "record"} :
             /\ models' = models \cup {m}
             /\ call' = [call EXCEPT ![c].pc = next, ![c].from = a.res, ![c].res = m]
    BY <1>3
  <2>2. m \in Things /\ a.res \in Reads
    BY <1>0 DEF Things, Resources, Reads
  <2> DEFINE row == [a EXCEPT !.pc = next, !.from = a.res, !.res = m]
  <2>5. call' = [call EXCEPT ![c] = row] /\ row \in AnyCall
    BY <1>0, <2>1, <2>2, Literals DEF AnyCall
  <2>7. /\ row.pc = next /\ row.rows = a.rows /\ row.kind = "train" /\ row.proc = a.proc
        /\ row.key = a.key /\ row.proj = a.proj /\ row.res = m /\ row.quota = a.quota
        /\ row.from = a.res /\ row.print = a.print
    BY <1>0 DEF AnyCall
  <2>6. Routes("train", next) /\ Follows("training", next)
    BY NoneIsNoKind DEF Routes, Follows, Kinds
  <2> HIDE DEF row, a
  <2>8. Moves(c) /\ call'[c] = row
    <3>1. Routes(row.kind, row.pc) /\ Follows(call[c].pc, row.pc)
      BY <1>0, <2>6, <2>7 DEF a
    <3> QED BY <1>0, <1>1, <2>5, <2>7, <3>1, RowProgram DEF a
  <2>10. m \in models' /\ call'[c].res \in models'
    BY <2>1, <2>7, <2>8
  <2>9. Holds(call[c])'
    BY <1>0, <1>1, <2>7, <2>8, <2>10 DEF Holds, Counted, DataKinds, OnDataset
  <2> QED BY <1>0, <1>1, <2>1, <2>7, <2>8, <2>9 DEF a
<1> QED BY <1>2, <1>3 DEF Train

LEMMA HeldOutMoves ==
  ASSUME Typed, NEW c \in Calls, ReadHeldOut(c) \/ Benchmark(c)
  PROVE  /\ Moves(c) /\ Holds(call[c])' /\ Keeps(c) /\ UNCHANGED <<projects, dataVars>>
         /\ call'[c].pc \in {"benchmark", "record", "done"}
<1>0. /\ Holds(call[c]) /\ call[c].pc \in {"evaluate", "benchmark"} /\ call[c].kind = "train"
  BY DEF Typed, ReadHeldOut, Benchmark, At, Running, Routes
<1>1. (\A p : Writes(p)) /\ UNCHANGED <<scope, projects, models>> /\ UNCHANGED dataVars
  BY OnlyControlWrites DEF ReadHeldOut, Benchmark, OnlyGoto, Ends
<1>2. \/ Answer(c, "failed")
      \/ \E pc \in {"benchmark", "record"} : Goto(c, pc) /\ (pc = "benchmark" => call[c].pc = "evaluate")
  BY DEF ReadHeldOut, Benchmark, OnlyGoto, Ends, At, Running
<1>3. Moves(c) /\ Keeps(c) /\ call'[c].pc \in {"benchmark", "record", "done"}
  <2>1. CASE Answer(c, "failed")
    BY <1>0, <1>1, <2>1, AnswerProgram
  <2>2. ASSUME NEW pc \in {"benchmark", "record"}, Goto(c, pc),
               pc = "benchmark" => call[c].pc = "evaluate"
        PROVE  Moves(c) /\ Keeps(c) /\ call'[c].pc = pc
    <3>1. Routes("train", pc) /\ Follows(call[c].pc, pc) /\ pc \in Pcs
      BY <1>0, <2>2, NoneIsNoKind, Literals DEF Routes, Follows, Kinds
    <3> QED BY <1>0, <1>1, <2>2, <3>1, GotoProgram
  <2> QED BY <1>2, <2>1, <2>2
<1>4. Holds(call[c])'
  BY <1>0, <1>1, <1>3 DEF Holds, Keeps, Counted, DataKinds, OnDataset
<1> QED BY <1>1, <1>3, <1>4

-----------------------------------------------------------------------------
(* Requests arrive *)

Starts(c) ==
    /\ call' \in [Calls -> AnyCall] /\ Others(c)
    /\ UNCHANGED <<scope, projects, owner, models, crashes>> /\ UNCHANGED controlVars
    /\ UNCHANGED dataVars
    /\ call[c].pc = "idle"
    /\ call'[c].pc \in {"row", "connect", "load", "require", "current"}
    /\ call'[c].kind \in Kinds
    /\ call'[c].pc = "require" =>
         call'[c].kind = "promote" /\ call'[c].res \in Models /\ Decision[call'[c].res] = Slot
    /\ call'[c].print = {} /\ call'[c].from = None /\ call'[c].answer = None
    /\ call'[c].kind \in Creates => Fresh(call'[c].kind, call'[c].res) /\ call'[c].pc = "row"
    /\ call'[c].kind = "add" => \A x \in call'[c].rows : x.review = None
    /\ Routes(call'[c].kind, call'[c].pc)

LEMMA NoCallType ==
  /\ NoCall \in AnyCall
  /\ NoCall.kind = None /\ NoCall.proc = None /\ NoCall.proj = None /\ NoCall.res = None
  /\ NoCall.key = None /\ NoCall.from = None /\ NoCall.rows = {} /\ NoCall.print = {}
  /\ NoCall.answer = None /\ NoCall.quota = 0 /\ NoCall.pc = "idle"
BY Literals DEF NoCall, AnyCall, Things, Reads, AnyRows

\* The row of a call that has just arrived.
LEMMA StartProgram ==
  ASSUME Typed, UNCHANGED dataVars, NEW c \in Calls, NEW p, NEW kind \in Kinds, Arrives(c, p, kind),
         NEW row \in AnyCall, OnlyCall, call' = [call EXCEPT ![c] = row],
         row.kind = kind, row.proc = p, Routes(kind, row.pc),
         row.pc \in {"row", "connect", "load", "require", "current"},
         row.print = {}, row.from = None, row.answer = None,
         row.pc = "require" => kind = "promote" /\ row.res \in Models /\ Decision[row.res] = Slot,
         kind \in Creates => Fresh(kind, row.res) /\ row.pc = "row",
         kind = "add" => row.rows \subseteq ExampleRows /\ \A x \in row.rows : x.review = None,
         kind \in Counted \cup DataKinds => row.key \in Keys,
         row.pc \notin {"row", "connect"} => row.proj \in Projects,
         kind \in OnDataset \cup {"train"} => row.res \in Datasets /\ row.pc = "row",
         kind \in {"create_review", "resolve_review"} => row.res \in Reviews,
         kind = "promote" => row.res \in Models,
         kind = "rollback" => row.pc = "current",
         kind = "update" => row.res \in scope.changes /\ Known(row.proj)
  PROVE  Starts(c) /\ Holds(call[c])'
<1>2. p \in scope.procs /\ call[c].pc = "idle" /\ call \in [Calls -> AnyCall]
  BY DEF Arrives, Typed
<1>6. call' \in [Calls -> AnyCall] /\ Others(c) /\ call'[c] = row
  BY <1>2, RowMoves
<1>7. UNCHANGED <<scope, projects, owner, models, crashes>> /\ UNCHANGED controlVars
  BY OnlyCallWrites
<1>8. Starts(c)
  BY <1>2, <1>6, <1>7 DEF Starts
<1>9. Holds(call[c])'
  BY <1>2, <1>6, <1>7 DEF Holds, Known, OnDataset
<1> QED BY <1>8, <1>9

LEMMA NewCallStarts ==
  ASSUME Typed, UNCHANGED dataVars, NEW c \in Calls, NEW p \in Procs, NewCall(c, p)
  PROVE  Starts(c) /\ Holds(call[c])'
<1>0. models \subseteq Models /\ scope \in Scopes
  BY DEF Typed, ControlTypeOK
<1>1. CASE \E k \in Keys, m \in models \cup {None}, kind \in {"infer", "predict", "model_predict"} :
             Infer(c, p, kind, k, m)
  <2>1. PICK k \in Keys, m \in models \cup {None}, kind \in {"infer", "predict", "model_predict"} :
             Infer(c, p, kind, k, m)
    BY <1>1
  <2>2. m \in Things /\ kind \in Kinds /\ {} \in AnyRows
    BY <1>0 DEF Things, Resources, Kinds, AnyRows
  <2>3. Routes(kind, "row")
    BY <2>2, NoneIsNoKind DEF Routes, Counted
  <2> DEFINE row == [NoCall EXCEPT !.kind = kind, !.proc = p, !.pc = "row", !.key = k, !.res = m]
  <2>4. row \in AnyCall /\ call' = [call EXCEPT ![c] = row]
    BY <2>1, <2>2, NoCallType, Literals DEF Infer, AnyCall
  <2>7. /\ row.kind = kind /\ row.proc = p /\ row.pc = "row" /\ row.print = {}
        /\ row.from = None /\ row.answer = None
        /\ row.proj = None /\ row.res = m /\ row.key = k /\ row.rows = {}
    BY NoCallType DEF AnyCall
  <2> HIDE DEF row
  <2>5. /\ kind \notin DataKinds /\ kind \notin Creates /\ kind \notin OnDataset
        /\ kind \notin {"promote", "rollback", "update"}
    BY DEF DataKinds, Creates, OnDataset
  <2>6. Arrives(c, p, kind) /\ OnlyCall
    BY <2>1 DEF Infer
  <2> QED BY <2>2, <2>3, <2>4, <2>5, <2>6, <2>7, StartProgram DEF DataKinds
<1>2. CASE \E k \in Keys : Connect(c, p, k)
  <2>1. PICK k \in Keys : Connect(c, p, k)
    BY <1>2
  <2>2. None \in Things /\ "ws" \in Kinds /\ {} \in AnyRows
    BY DEF Things, Kinds, AnyRows
  <2>3. Routes("ws", "connect")
    BY <2>2, NoneIsNoKind DEF Routes
  <2> DEFINE row == [NoCall EXCEPT !.kind = "ws", !.proc = p, !.pc = "connect", !.key = k]
  <2>4. row \in AnyCall /\ call' = [call EXCEPT ![c] = row]
    BY <2>1, <2>2, NoCallType, Literals DEF Connect, AnyCall
  <2>7. /\ row.kind = "ws" /\ row.proc = p /\ row.pc = "connect" /\ row.print = {}
        /\ row.from = None /\ row.answer = None
        /\ row.proj = None /\ row.res = None /\ row.key = k /\ row.rows = {}
    BY NoCallType DEF AnyCall
  <2> HIDE DEF row
  <2>5. "ws" \notin Creates /\ "ws" \notin OnDataset
    BY DEF Creates, OnDataset
  <2>6. Arrives(c, p, "ws") /\ OnlyCall
    BY <2>1 DEF Connect
  <2> QED BY <2>2, <2>3, <2>4, <2>5, <2>6, <2>7, StartProgram
<1>3. CASE \E i \in Projects, change \in scope.changes : UpdateStart(c, p, i, change)
  <2>1. PICK i \in Projects, change \in scope.changes : UpdateStart(c, p, i, change)
    BY <1>3
  <2>2. change \in Things /\ "update" \in Kinds /\ {} \in AnyRows
    BY <1>0 DEF Things, Kinds, AnyRows
  <2>3. Routes("update", "load")
    BY <2>2, NoneIsNoKind DEF Routes
  <2> DEFINE row == [NoCall EXCEPT !.kind = "update", !.proc = p, !.pc = "load", !.proj = i, !.res = change]
  <2>4. row \in AnyCall /\ call' = [call EXCEPT ![c] = row]
    BY <2>1, <2>2, NoCallType, Literals DEF UpdateStart, AnyCall
  <2>7. /\ row.kind = "update" /\ row.proc = p /\ row.pc = "load" /\ row.print = {}
        /\ row.from = None /\ row.answer = None
        /\ row.proj = i /\ row.res = change /\ row.key = None /\ row.rows = {}
    BY NoCallType DEF AnyCall
  <2> HIDE DEF row
  <2>5. /\ "update" \notin Creates /\ "update" \notin OnDataset
        /\ "update" \notin Counted /\ "update" \notin DataKinds
    BY DEF Creates, OnDataset, Counted, DataKinds
  <2>6. Arrives(c, p, "update") /\ OnlyCall /\ Known(i)
    BY <2>1 DEF UpdateStart
  <2> QED BY <2>2, <2>3, <2>4, <2>5, <2>6, <2>7, StartProgram
<1>4. CASE \E i \in Projects, m \in models : Promote(c, p, i, m)
  <2>1. PICK i \in Projects, m \in models : Promote(c, p, i, m)
    BY <1>4
  <2>2. m \in Things /\ m \in Models /\ "promote" \in Kinds /\ {} \in AnyRows
    BY <1>0 DEF Things, Resources, Kinds, AnyRows
  <2>3. Routes("promote", "require")
    BY <2>2, NoneIsNoKind DEF Routes
  <2> DEFINE row == [NoCall EXCEPT !.kind = "promote", !.proc = p, !.pc = "require", !.proj = i, !.res = m]
  <2>4. row \in AnyCall /\ call' = [call EXCEPT ![c] = row]
    BY <2>1, <2>2, NoCallType, Literals DEF Promote, AnyCall
  <2>7. /\ row.kind = "promote" /\ row.proc = p /\ row.pc = "require" /\ row.print = {}
        /\ row.from = None /\ row.answer = None
        /\ row.proj = i /\ row.res = m /\ row.key = None /\ row.rows = {}
    BY NoCallType DEF AnyCall
  <2> HIDE DEF row
  <2>5. /\ "promote" \notin Creates /\ "promote" \notin OnDataset
        /\ "promote" \notin Counted /\ "promote" \notin DataKinds
    BY DEF Creates, OnDataset, Counted, DataKinds
  <2>6. Arrives(c, p, "promote") /\ OnlyCall /\ Decision[m] = Slot
    BY <2>1 DEF Promote
  <2> QED BY <2>2, <2>3, <2>4, <2>5, <2>6, <2>7, StartProgram
<1>5. CASE \E i \in Projects : Rollback(c, p, i)
  <2>1. PICK i \in Projects : Rollback(c, p, i)
    BY <1>5
  <2>2. None \in Things /\ "rollback" \in Kinds /\ {} \in AnyRows
    BY DEF Things, Kinds, AnyRows
  <2>3. Routes("rollback", "current")
    BY <2>2, NoneIsNoKind DEF Routes
  <2> DEFINE row == [NoCall EXCEPT !.kind = "rollback", !.proc = p, !.pc = "current", !.proj = i]
  <2>4. row \in AnyCall /\ call' = [call EXCEPT ![c] = row]
    BY <2>1, <2>2, NoCallType, Literals DEF Rollback, AnyCall
  <2>7. /\ row.kind = "rollback" /\ row.proc = p /\ row.pc = "current" /\ row.print = {}
        /\ row.from = None /\ row.answer = None
        /\ row.proj = i /\ row.res = None /\ row.key = None /\ row.rows = {}
    BY NoCallType DEF AnyCall
  <2> HIDE DEF row
  <2>5. /\ "rollback" \notin Creates /\ "rollback" \notin OnDataset
        /\ "rollback" \notin Counted /\ "rollback" \notin DataKinds
    BY DEF Creates, OnDataset, Counted, DataKinds
  <2>6. Arrives(c, p, "rollback") /\ OnlyCall
    BY <2>1 DEF Rollback
  <2> QED BY <2>2, <2>3, <2>4, <2>5, <2>6, <2>7, StartProgram
<1> QED BY <1>1, <1>2, <1>3, <1>4, <1>5 DEF NewCall

LEMMA DataCallStarts ==
  ASSUME Typed, NEW c \in Calls, NEW p \in Procs, NewDataCall(c, p)
  PROVE  Starts(c) /\ Holds(call[c])'
<1>0. scope \in Scopes
  BY DEF Typed, ControlTypeOK
<1>1. ASSUME NEW k \in Keys, NEW kind \in DataKinds, NEW r \in Datasets \cup Reviews,
             NEW rows \in SUBSET SentRows, DataRequest(c, p, kind, k, r, rows),
             kind = "add" => rows \subseteq ExampleRows
      PROVE  Starts(c) /\ Holds(call[c])'
  <2>1. r \in Things /\ rows \in AnyRows /\ kind \in Kinds
    BY DEF Things, Resources, AnyRows, Kinds, DataKinds, OnDataset
  <2>2. \A x \in rows : x.review = None
    BY DEF SentRows
  <2>3. Routes(kind, "row")
    BY <2>1, NoneIsNoKind DEF Routes
  <2> DEFINE row == [NoCall EXCEPT !.kind = kind, !.proc = p, !.pc = "row", !.key = k, !.res = r, !.rows = rows]
  <2>4. row \in AnyCall /\ call' = [call EXCEPT ![c] = row]
    BY <1>1, <2>1, NoCallType, Literals DEF DataRequest, AnyCall
  <2>8. /\ row.kind = kind /\ row.proc = p /\ row.pc = "row" /\ row.print = {}
        /\ row.from = None /\ row.answer = None
        /\ row.proj = None /\ row.res = r /\ row.key = k /\ row.rows = rows
    BY NoCallType DEF AnyCall
  <2> HIDE DEF row
  <2>5. /\ kind \in OnDataset \cup {"train"} => r \in Datasets
        /\ kind \in {"create_review", "resolve_review"} => r \in Reviews
    BY <1>1 DEF DataRequest, Target, OnDataset
  <2>6. kind \notin {"promote", "rollback", "update"}
    BY DEF DataKinds, OnDataset
  <2>7. Arrives(c, p, kind) /\ UNCHANGED dataVars /\ OnlyCall
        /\ (kind \in Creates => Fresh(kind, r))
    BY <1>1 DEF DataRequest, OnlyControl, OnlyCall, Creates
  <2> QED BY <1>1, <2>1, <2>2, <2>3, <2>4, <2>5, <2>6, <2>7, <2>8, StartProgram
<1>2. PICK k \in Keys :
        \/ \E d \in Datasets, kind \in {"create_dataset", "delete_dataset", "import", "train"} :
             DataRequest(c, p, kind, k, d, {})
        \/ \E d \in Datasets, rows \in scope.examples : DataRequest(c, p, "add", k, d, rows)
        \/ \E r \in Reviews, kind \in {"create_review", "resolve_review"}, x \in scope.answers :
             DataRequest(c, p, kind, k, r, {x})
  BY DEF NewDataCall
<1>3. /\ {"create_dataset", "delete_dataset", "import", "train", "add", "create_review",
          "resolve_review"} \subseteq DataKinds
  BY DEF DataKinds, OnDataset
<1>4. CASE \E d \in Datasets, kind \in {"create_dataset", "delete_dataset", "import", "train"} :
             DataRequest(c, p, kind, k, d, {})
  BY <1>1, <1>3, <1>4
<1>5. CASE \E d \in Datasets, rows \in scope.examples : DataRequest(c, p, "add", k, d, rows)
  <2>1. \A rows \in scope.examples : \A x \in rows : x \in SentRows /\ None \notin {x.text, x.label}
    BY <1>0, DataAssumption
  <2>2. \A rows \in scope.examples : rows \in SUBSET SentRows /\ rows \subseteq ExampleRows
    BY <2>1 DEF SentRows, ExampleRows
  <2> QED BY <1>1, <1>3, <1>5, <2>2
<1>6. CASE \E r \in Reviews, kind \in {"create_review", "resolve_review"}, x \in scope.answers :
             DataRequest(c, p, kind, k, r, {x})
  <2>1. \A x \in scope.answers : {x} \in SUBSET SentRows
    BY <1>0, DataAssumption
  <2>2. PICK r \in Reviews, kind \in {"create_review", "resolve_review"}, x \in scope.answers :
             DataRequest(c, p, kind, k, r, {x})
    BY <1>6
  <2> QED BY <1>1, <1>3, <2>1, <2>2
<1> QED BY <1>2, <1>4, <1>5, <1>6

-----------------------------------------------------------------------------
(* Any step of a call *)

Step(c) == (CallStep(c) /\ UNCHANGED dataVars) \/ DataStep(c)

\* Each statement is one action.
LEMMA StepOpens ==
  ASSUME NEW c \in Calls, Step(c)
  PROVE  /\ call[c].pc = "row" => ReadKey(c)
         /\ call[c].pc = "count" => ReadUsage(c)
         /\ call[c].pc = "countWrite" => CountUsage(c)
         /\ call[c].pc = "owned" => AssertModel(c) \/ AssertOwner(c) \/ RefuseBody(c)
         /\ call[c].pc = "deployment" => GetDeployment(c) \/ RefuseBody(c)
         /\ call[c].pc = "serving" => Serve(c)
         /\ call[c].pc = "audit" => Audit(c)
         /\ call[c].pc = "open" => Message(c) \/ Disconnect(c)
         /\ call[c].pc = "refusal" => RefuseMessage(c)
         /\ call[c].pc = "store" => StoreProject(c)
         /\ call[c].pc = "get" => ReadDeployed(c)
         /\ call[c].pc = "write" => WriteDeployed(c)
         /\ call[c].pc = "current" => RollbackFrom(c)
         /\ call[c].pc = "previous" => RollbackTo(c)
         /\ call[c].pc = "require" => RequireProject(c)
         /\ call[c].pc = "select" => SelectOwner(c)
         /\ call[c].pc = "insert" => InsertOwner(c)
         /\ call[c].pc = "create" => CreateDataset(c) \/ CreateReview(c)
         /\ call[c].pc = "undo" => UndoDataset(c)
         /\ call[c].pc = "delete" => DeleteDataset(c)
         /\ call[c].pc = "unregister" => UnregisterDataset(c)
         /\ call[c].pc = "exists" => GetDataset(c)
         /\ call[c].pc = "list" => ListReviews(c)
         /\ call[c].pc = "add" => AddExamples(c)
         /\ call[c].pc = "rows" => ReadExamples(c)
         /\ call[c].pc = "training" => Train(c)
         /\ call[c].pc = "evaluate" => ReadHeldOut(c)
         /\ call[c].pc = "benchmark" => Benchmark(c)
         /\ call[c].pc = "record" => RecordModel(c)
         /\ call[c].pc = "resolve" => ResolveReview(c)
<1>1. /\ ReadKey(c) => call[c].pc = "row"
      /\ ReadUsage(c) => call[c].pc = "count"
      /\ CountUsage(c) => call[c].pc = "countWrite"
      /\ AssertModel(c) => call[c].pc = "owned"
      /\ GetDeployment(c) => call[c].pc = "deployment"
      /\ Serve(c) => call[c].pc = "serving"
      /\ Audit(c) => call[c].pc = "audit"
      /\ Accept(c) => call[c].pc = "connect"
      /\ Message(c) => call[c].pc = "open"
      /\ Disconnect(c) => call[c].pc = "open"
      /\ RefuseMessage(c) => call[c].pc = "refusal"
  BY DEF ReadKey, ReadUsage, CountUsage, AssertModel, GetDeployment, Serve, Audit, Accept, Message,
         Disconnect, RefuseMessage, At, Running
<1>2. /\ LoadProject(c) => call[c].pc = "load"
      /\ StoreProject(c) => call[c].pc = "store"
      /\ ReadDeployed(c) => call[c].pc = "get"
      /\ WriteDeployed(c) => call[c].pc = "write"
      /\ RollbackFrom(c) => call[c].pc = "current"
      /\ RollbackTo(c) => call[c].pc = "previous"
      /\ RequireProject(c) => call[c].pc = "require"
      /\ SelectOwner(c) => call[c].pc = "select"
      /\ InsertOwner(c) => call[c].pc = "insert"
  BY DEF LoadProject, StoreProject, ReadDeployed, WriteDeployed, RollbackFrom, RollbackTo,
         RequireProject, SelectOwner, InsertOwner, At, Running
<1>3. /\ AssertOwner(c) => call[c].pc = "owned"
      /\ CreateDataset(c) => call[c].pc = "create"
      /\ CreateReview(c) => call[c].pc = "create"
      /\ UndoDataset(c) => call[c].pc = "undo"
      /\ DeleteDataset(c) => call[c].pc = "delete"
      /\ UnregisterDataset(c) => call[c].pc = "unregister"
      /\ GetDataset(c) => call[c].pc = "exists"
      /\ ListReviews(c) => call[c].pc = "list"
      /\ AddExamples(c) => call[c].pc = "add"
      /\ ReadExamples(c) => call[c].pc = "rows"
      /\ Train(c) => call[c].pc = "training"
      /\ ReadHeldOut(c) => call[c].pc = "evaluate"
      /\ Benchmark(c) => call[c].pc = "benchmark"
      /\ RecordModel(c) => call[c].pc = "record"
      /\ ResolveReview(c) => call[c].pc = "resolve"
  BY DEF AssertOwner, CreateDataset, CreateReview, UndoDataset, DeleteDataset, UnregisterDataset,
         GetDataset, ListReviews, AddExamples, ReadExamples, Train, ReadHeldOut, Benchmark,
         RecordModel, ResolveReview, At, Running
<1>4. RefuseBody(c) => call[c].pc \in {"owned", "deployment"}
  BY DEF RefuseBody, Running, Entry
<1> QED BY <1>1, <1>2, <1>3, <1>4 DEF Step, CallStep, DataStep

LEMMA StepMoves ==
  ASSUME Typed, NEW c \in Calls, Step(c)
  PROVE  /\ Moves(c) /\ Holds(call[c])' /\ models \subseteq models' /\ models' \subseteq Models
         /\ \A i \in Projects : Known(i) => Known(i)'
<1> DEFINE Goal == Moves(c) /\ Holds(call[c])' /\ \A i \in Projects : Known(i) => Known(i)'
<1>1. ASSUME CallStep(c), UNCHANGED dataVars
      PROVE  Goal
  <2>1. CASE ReadKey(c)
    BY <1>1, <2>1, ReadKeyMoves DEF OnlyCall, Known
  <2>2. CASE ReadUsage(c) \/ CountUsage(c)
    BY <1>1, <2>2, UsageMoves DEF Moves, Writes, Known
  <2>3. CASE AssertModel(c) \/ Serve(c)
    BY <1>1, <2>3, ServeMoves DEF AssertModel, Serve, OnlyCall, Known
  <2>4. CASE GetDeployment(c)
    BY <1>1, <2>4, DeploymentMoves DEF OnlyCall, Known
  <2>5. CASE Audit(c) \/ Message(c) \/ Disconnect(c) \/ RefuseMessage(c)
    BY <1>1, <2>5, AuditMoves DEF Audit, Message, Disconnect, RefuseMessage, OnlyCall, Known
  <2>6. CASE Accept(c)
    BY <1>1, <2>6, AcceptMoves DEF OnlyCall, Known
  <2>7. CASE LoadProject(c) \/ StoreProject(c)
    BY <1>1, <2>7, UpdateMoves
  <2>8. CASE ReadDeployed(c) \/ WriteDeployed(c)
    BY <1>1, <2>8, DeployMoves DEF ReadDeployed, WriteDeployed, OnlyCall, Known
  <2>9. CASE RollbackFrom(c) \/ RollbackTo(c)
    BY <1>1, <2>9, RollbackMoves DEF OnlyCall, Known
  <2>10. CASE (RequireProject(c) \/ SelectOwner(c) \/ InsertOwner(c)) /\ UNCHANGED controlVars
    BY <1>1, <2>10, RegisterMoves DEF Known
  <2>11. CASE RefuseBody(c)
    BY <1>1, <2>11, RefuseMoves DEF OnlyCall, Known
  <2> QED BY <1>1, <2>1, <2>2, <2>3, <2>4, <2>5, <2>6, <2>7, <2>8, <2>9, <2>10, <2>11
         DEF CallStep
<1>2. ASSUME DataStep(c)
      PROVE  Goal
  BY <1>2, OwnerMoves, CreateMoves, EndMoves, DeleteMoves, RecordMoves, GetMoves, ListMoves,
     RowsMoves, TrainMoves, HeldOutMoves DEF DataStep, Known
<1>3. Moves(c) /\ Holds(call[c])' /\ \A i \in Projects : Known(i) => Known(i)'
  BY <1>1, <1>2 DEF Step
<1>4. models \subseteq models' /\ models' \subseteq Models
  <2>1. CASE call[c].pc = "training"
    BY <2>1, StepOpens, TrainMoves
  <2>2. CASE call[c].pc # "training"
    BY <1>3, <2>2 DEF Moves, Writes, Typed, ControlTypeOK
  <2> QED BY <2>1, <2>2
<1> QED BY <1>3, <1>4

-----------------------------------------------------------------------------
(* What the statements write has its type *)

LEMMA UsageTypes ==
  ASSUME Typed, NEW c \in Calls, CountUsage(c)
  PROVE  /\ usage' \in [Projects -> [Days -> Nat]]
         /\ counted' \subseteq [call : Calls, proj : Projects, day : Days, nth : Nat]
<1> DEFINE i == call[c].proj
<1>1. i \in Projects /\ day \in Days /\ usage \in [Projects -> [Days -> Nat]]
  BY DEF Typed, ControlTypeOK, Holds, CountUsage, At, Running
<1>2. usage[i][day] \in Nat
  BY <1>1
<1> HIDE DEF i
<1>3. usage' = [usage EXCEPT ![i][day] = @ + 1]
  BY DEF CountUsage, i
<1>4. usage' \in [Projects -> [Days -> Nat]]
  BY <1>1, <1>2, <1>3
<1>5. counted' = counted \cup {[call |-> c, proj |-> i, day |-> day, nth |-> usage[i][day] + 1]}
  BY DEF CountUsage, i
<1>6. counted \subseteq [call : Calls, proj : Projects, day : Days, nth : Nat]
  BY DEF Typed, ControlTypeOK
<1> QED BY <1>1, <1>2, <1>4, <1>5, <1>6

LEMMA AuditTypes ==
  ASSUME Typed, NEW c \in Calls, Audit(c) \/ RefuseMessage(c)
  PROVE  audit' \in [Calls -> Seq({"200", "400", "404", "429", "500"})]
<1> DEFINE X == {"200", "400", "404", "429", "500"}
<1>1. PICK x \in X : audit' = [audit EXCEPT ![c] = Append(@, x)]
  BY DEF Audit, RefuseMessage, At, Running, Typed, Holds
<1> HIDE DEF X
<1>2. audit \in [Calls -> Seq(X)]
  BY DEF Typed, ControlTypeOK, X
<1>3. Append(audit[c], x) \in Seq(X)
  BY <1>2
<1>4. audit' \in [Calls -> Seq(X)]
  BY <1>1, <1>2, <1>3
<1> QED BY <1>4 DEF X

LEMMA ProjectTypes ==
  ASSUME Typed, NEW c \in Calls, StoreProject(c)
  PROVE  /\ projects' \in [Projects -> ProjectRows \cup {None}]
         /\ top' \in [Projects -> Nat]
         /\ \E row \in ProjectRows :
              /\ projects' = [projects EXCEPT ![call[c].proj] = row]
              /\ top' = [top EXCEPT ![call[c].proj] = Larger(@, row.quota)]
              /\ row.quota = call[c].from.quota \/
                   ("quota" \in DOMAIN call[c].res /\ row.quota = call[c].res.quota)
<1> DEFINE a == call[c]
           new == DOMAIN a.res
           row == [enabled |-> IF "enabled" \in new THEN a.res.enabled ELSE a.from.enabled,
                   quota |-> IF "quota" \in new THEN a.res.quota ELSE a.from.quota]
<1>0. a.pc = "store" /\ Routes(a.kind, a.pc) /\ Holds(a) /\ scope \in Scopes
  BY DEF Typed, ControlTypeOK, StoreProject, At, Running
<1>1. a.from \in ProjectRows /\ a.res \in scope.changes /\ a.proj \in Projects
  BY <1>0 DEF Holds, Routes
<1>2. IsChange(a.res)
  BY <1>0, <1>1, ControlAssumption
<1>3. /\ projects' = [projects EXCEPT ![a.proj] = row]
      /\ top' = [top EXCEPT ![a.proj] = Larger(@, row.quota)]
  BY DEF StoreProject
<1>4. row \in ProjectRows /\ row.quota \in Nat
  BY <1>1, <1>2 DEF ProjectRows, IsChange
<1>5. row.quota = a.from.quota \/ ("quota" \in DOMAIN a.res /\ row.quota = a.res.quota)
  OBVIOUS
<1> HIDE DEF row, new
<1>6. projects \in [Projects -> ProjectRows \cup {None}] /\ top \in [Projects -> Nat]
  BY DEF Typed, ControlTypeOK
<1>7. Larger(top[a.proj], row.quota) \in Nat
  BY <1>1, <1>4, <1>6 DEF Larger
<1> QED BY <1>3, <1>4, <1>5, <1>6, <1>7

LEMMA DeployTypes ==
  ASSUME Typed, NEW c \in Calls, WriteDeployed(c)
  PROVE  /\ deployed' \in [Projects -> Deployments \cup {None}]
         /\ history' \in [Projects -> Seq(Deployments)]
         /\ \E n \in Nat :
              deployed' = [deployed EXCEPT ![call[c].proj] = [ver |-> n, model |-> call[c].res]]
<1> DEFINE a == call[c]
           ver == IF a.from = None THEN 1 ELSE a.from.ver + 1
<1>0. a.pc = "write" /\ Routes(a.kind, a.pc) /\ Holds(a)
  BY DEF Typed, WriteDeployed, At, Running
<1>1. a.from \in Deployments \cup {None} /\ a.res \in Models /\ a.proj \in Projects
  BY <1>0 DEF Holds, Routes
<1>2. /\ history' = IF a.from = None THEN history ELSE [history EXCEPT ![a.proj] = Append(@, a.from)]
      /\ deployed' = [deployed EXCEPT ![a.proj] = [ver |-> ver, model |-> a.res]]
  BY DEF WriteDeployed
<1>3. ver \in Nat
  BY <1>1 DEF Deployments
<1> HIDE DEF ver
<1>4. [ver |-> ver, model |-> a.res] \in Deployments
  BY <1>1, <1>3 DEF Deployments
<1>5. /\ deployed \in [Projects -> Deployments \cup {None}]
      /\ history \in [Projects -> Seq(Deployments)]
  BY DEF Typed, ControlTypeOK
<1>6. deployed' \in [Projects -> Deployments \cup {None}]
  BY <1>2, <1>4, <1>5
<1>7. history' \in [Projects -> Seq(Deployments)]
  <2>1. CASE a.from = None
    BY <1>2, <1>5, <2>1
  <2>2. CASE a.from # None
    <3>1. Append(history[a.proj], a.from) \in Seq(Deployments)
      BY <1>1, <1>5, <2>2
    <3> QED BY <1>2, <1>5, <2>2, <3>1
  <2> QED BY <2>1, <2>2
<1> QED BY <1>2, <1>3, <1>6, <1>7

LEMMA OwnerTypes ==
  ASSUME Typed, NEW c \in Calls, InsertOwner(c) \/ UnregisterDataset(c)
  PROVE  owner' \in [Resources -> Projects \cup {None}]
<1>0. Routes(call[c].kind, call[c].pc) /\ Holds(call[c]) /\ call[c].pc \in {"insert", "unregister"}
  BY DEF Typed, InsertOwner, UnregisterDataset, At, Running
<1>1. call[c].proj \in Projects /\ owner \in [Resources -> Projects \cup {None}]
  BY <1>0 DEF Holds, Typed, ControlTypeOK
<1> QED BY <1>1 DEF InsertOwner, UnregisterDataset

LEMMA StoreTypes ==
  ASSUME Typed, NEW c \in Calls,
         \/ CreateDataset(c) \/ UndoDataset(c) \/ DeleteDataset(c) \/ AddExamples(c)
         \/ CreateReview(c) \/ ResolveReview(c) \/ RecordModel(c)
  PROVE  DataTypeOK'
<1> DEFINE a == call[c]
<1>0. /\ a \in AnyCall /\ Routes(a.kind, a.pc) /\ Holds(a) /\ DataTypeOK
      /\ lineage' \subseteq lineage \cup {[model |-> a.res, dataset |-> a.from,
                                         print |-> a.print, rows |-> a.rows]}
      /\ UNCHANGED models
  BY OnlyControlWrites DEF Typed, CreateDataset, UndoDataset, DeleteDataset, AddExamples,
     CreateReview, ResolveReview, RecordModel, DropDataset
<1>1. datasets' \in [Datasets -> (SUBSET ExampleRows) \cup {None}]
  <2>1. CASE datasets' = datasets
    BY <1>0, <2>1 DEF DataTypeOK
  <2>2. CASE CreateDataset(c) \/ UndoDataset(c) \/ DeleteDataset(c)
    BY <1>0, <2>2 DEF DataTypeOK, CreateDataset, UndoDataset, DeleteDataset, DropDataset
  <2>3. CASE AddExamples(c) /\ Live(a.res)
    <3>1. a.rows \subseteq ExampleRows /\ a.pc = "add" /\ a.res \in Datasets
      BY <1>0, <2>3 DEF AddExamples, At, Running, AnyCall, Routes, Holds, OnDataset
    <3>2. NewRows(a.res, a.rows) \subseteq ExampleRows
      BY <3>1 DEF NewRows
    <3>3. datasets[a.res] \in SUBSET ExampleRows
      BY <1>0, <2>3, <3>1 DEF DataTypeOK, Live
    <3>4. PICK S \in OneEach(NewRows(a.res, a.rows)) :
                 datasets' = [datasets EXCEPT ![a.res] = @ \cup S]
      BY <2>3 DEF AddExamples
    <3>5. S \subseteq ExampleRows
      BY <3>2, <3>4 DEF OneEach
    <3> QED BY <1>0, <3>1, <3>3, <3>4, <3>5 DEF DataTypeOK
  <2> QED BY <2>1, <2>2, <2>3 DEF AddExamples, CreateReview, ResolveReview, RecordModel
<1>2. reviews' \in [Reviews -> ReviewRows \cup {None}]
  <2>1. CASE reviews' = reviews
    BY <1>0, <2>1 DEF DataTypeOK
  <2>2. CASE CreateReview(c) \/ ResolveReview(c)
    <3>1. a.rows \in AnyRows /\ a.res \in Reviews
      BY <1>0, <2>2 DEF CreateReview, ResolveReview, At, Running, AnyCall, Routes, Holds
    <3>2. \A x \in a.rows : x.text \in Texts \cup {None} /\ x.label \in Labels \cup {None}
      BY <3>1 DEF AnyRows, ExampleRows, SentRows
    <3>3. CASE CreateReview(c)
      <4>1. PICK x \in a.rows : reviews' = [reviews EXCEPT ![a.res] = [text |-> x.text, label |-> None]]
        BY <3>3 DEF CreateReview
      <4>2. [text |-> x.text, label |-> None] \in ReviewRows
        BY <3>2 DEF ReviewRows
      <4> QED BY <1>0, <4>1, <4>2 DEF DataTypeOK
    <3>4. CASE ResolveReview(c) /\ reviews[a.res] # None
      <4>1. PICK x \in a.rows : reviews' = [reviews EXCEPT ![a.res].label = x.label]
        BY <3>4 DEF ResolveReview
      <4>2. reviews[a.res] \in ReviewRows
        BY <1>0, <3>1, <3>4 DEF DataTypeOK
      <4>3. [reviews[a.res] EXCEPT !.label = x.label] \in ReviewRows
        BY <3>2, <4>2 DEF ReviewRows
      <4> QED BY <1>0, <4>1, <4>3 DEF DataTypeOK
    <3> QED BY <2>1, <2>2, <3>3, <3>4 DEF ResolveReview
  <2> QED BY <2>1, <2>2 DEF CreateDataset, UndoDataset, DeleteDataset, AddExamples, DropDataset,
                            RecordModel
<1>3. used' \subseteq Reviews \cup Datasets
  <2>1. CASE used' = used
    BY <1>0, <2>1 DEF DataTypeOK
  <2>2. CASE CreateDataset(c) \/ CreateReview(c)
    BY <1>0, <2>2 DEF CreateDataset, CreateReview, DataTypeOK, Holds, OnDataset
  <2> QED BY <2>1, <2>2 DEF UndoDataset, DeleteDataset, AddExamples, DropDataset, RecordModel,
                            ResolveReview
<1>4. \A rec \in lineage' : rec.model \in models' /\ rec.dataset \in Datasets
  <2>1. CASE lineage' \subseteq lineage
    BY <1>0, <2>1 DEF DataTypeOK
  <2>2. CASE RecordModel(c)
    BY <1>0, <2>2 DEF RecordModel, At, Running, DataTypeOK, Holds
  <2> QED BY <2>1, <2>2 DEF CreateDataset, UndoDataset, DeleteDataset, AddExamples, DropDataset,
                            CreateReview, ResolveReview
<1> QED BY <1>0, <1>1, <1>2, <1>3, <1>4 DEF DataTypeOK

LEMMA StepTyped ==
  ASSUME Typed, NEW c \in Calls, Step(c)
  PROVE  Typed'
<1>1. /\ Moves(c) /\ Holds(call[c])' /\ models \subseteq models' /\ models' \subseteq Models
      /\ \A i \in Projects : Known(i) => Known(i)'
  BY StepMoves
<1>2. /\ call' \in [Calls -> AnyCall] /\ Others(c) /\ Routes(call[c].kind, call[c].pc)'
      /\ Writes(call[c].pc)
  BY <1>1 DEF Moves, Fields
<1>3. UNCHANGED <<scope, crashes, keys, day>>
  BY <1>2 DEF Writes
<1>4. \A d \in Calls : Routes(call[d].kind, call[d].pc)' /\ Holds(call[d])'
  <2>1. SUFFICES ASSUME NEW d \in Calls, d # c
                 PROVE  Routes(call[d].kind, call[d].pc)' /\ Holds(call[d])'
    BY <1>1, <1>2
  <2>2. call'[d] = call[d]
    BY <1>2, <2>1 DEF Others
  <2>3. Routes(call[d].kind, call[d].pc) /\ Holds(call[d])
    BY DEF Typed
  <2>4. Holds(call[d])'
    BY <1>1, <1>3, <2>2, <2>3 DEF Holds
  <2> QED BY <2>2, <2>3, <2>4
<1>5. ControlTypeOK'
  <2>1. \A d \in Calls : call'[d].pc \in Pcs /\ call'[d].proj \in Projects \cup {None}
    BY <1>2 DEF AnyCall
  <2>2. projects' \in [Projects -> ProjectRows \cup {None}] /\ top' \in [Projects -> Nat]
    <3>1. CASE call[c].pc = "store"
      BY <3>1, StepOpens, ProjectTypes
    <3>2. CASE call[c].pc # "store"
      BY <1>2, <3>2 DEF Writes, Typed, ControlTypeOK
    <3> QED BY <3>1, <3>2
  <2>3. owner' \in [Resources -> Projects \cup {None}]
    <3>1. CASE call[c].pc \in {"insert", "unregister"}
      BY <3>1, StepOpens, OwnerTypes
    <3>2. CASE call[c].pc \notin {"insert", "unregister"}
      BY <1>2, <3>2 DEF Writes, Typed, ControlTypeOK
    <3> QED BY <3>1, <3>2
  <2>4. /\ usage' \in [Projects -> [Days -> Nat]]
        /\ counted' \subseteq [call : Calls, proj : Projects, day : Days, nth : Nat]
    <3>1. CASE call[c].pc = "countWrite"
      BY <3>1, StepOpens, UsageTypes
    <3>2. CASE call[c].pc # "countWrite"
      BY <1>2, <3>2 DEF Writes, Typed, ControlTypeOK
    <3> QED BY <3>1, <3>2
  <2>5. audit' \in [Calls -> Seq({"200", "400", "404", "429", "500"})]
    <3>1. CASE call[c].pc \in {"audit", "refusal"}
      BY <3>1, StepOpens, AuditTypes
    <3>2. CASE call[c].pc \notin {"audit", "refusal"}
      BY <1>2, <3>2 DEF Writes, Typed, ControlTypeOK
    <3> QED BY <3>1, <3>2
  <2>6. deployed' \in [Projects -> Deployments \cup {None}] /\ history' \in [Projects -> Seq(Deployments)]
    <3>1. CASE call[c].pc = "write"
      BY <3>1, StepOpens, DeployTypes
    <3>2. CASE call[c].pc # "write"
      BY <1>2, <3>2 DEF Writes, Typed, ControlTypeOK
    <3> QED BY <3>1, <3>2
  <2> QED BY <1>1, <1>3, <2>1, <2>2, <2>3, <2>4, <2>5, <2>6 DEF Typed, ControlTypeOK
<1>6. DataTypeOK'
  <2>1. CASE call[c].pc \in {"create", "undo", "delete", "add", "record", "resolve"}
    BY <2>1, StepOpens, StoreTypes
  <2>2. CASE call[c].pc \notin {"create", "undo", "delete", "add", "record", "resolve"}
    <3>1. UNCHANGED <<datasets, reviews, used, lineage>>
      BY <1>2, <2>2 DEF Writes
    <3> QED BY <1>1, <3>1 DEF Typed, DataTypeOK
  <2> QED BY <2>1, <2>2
<1> QED BY <1>2, <1>4, <1>5, <1>6 DEF Typed

-----------------------------------------------------------------------------
(* Every other step keeps the types *)

LEMMA StartTyped ==
  ASSUME Typed, NEW c \in Calls, Starts(c), Holds(call[c])'
  PROVE  Typed'
<1>1. /\ call' \in [Calls -> AnyCall] /\ Others(c) /\ Routes(call[c].kind, call[c].pc)'
      /\ UNCHANGED <<scope, projects, owner, models, crashes>> /\ UNCHANGED controlVars
      /\ UNCHANGED dataVars
  BY DEF Starts
<1>2. \A d \in Calls : Routes(call[d].kind, call[d].pc)' /\ Holds(call[d])'
  <2>1. SUFFICES ASSUME NEW d \in Calls, d # c
                 PROVE  Routes(call[d].kind, call[d].pc)' /\ Holds(call[d])'
    BY <1>1
  <2>2. call'[d] = call[d] /\ Routes(call[d].kind, call[d].pc) /\ Holds(call[d])
    BY <1>1, <2>1 DEF Others, Typed
  <2>3. Holds(call[d])'
    BY <1>1, <2>2 DEF Holds, Known
  <2> QED BY <2>2, <2>3
<1>3. \A d \in Calls : call'[d].pc \in Pcs /\ call'[d].proj \in Projects \cup {None}
  BY <1>1 DEF AnyCall
<1>4. ControlTypeOK' /\ DataTypeOK'
  BY <1>1, <1>3 DEF Typed, ControlTypeOK, DataTypeOK, controlVars, dataVars
<1> QED BY <1>1, <1>2, <1>4 DEF Typed

\* A crash ends what its process was doing.
Crashes(p) ==
    /\ call' \in [Calls -> AnyCall]
    /\ \A d \in Calls :
         /\ call'[d].kind = call[d].kind /\ call'[d].proc = call[d].proc /\ call'[d].key = call[d].key
         /\ call'[d].proj = call[d].proj /\ call'[d].res = call[d].res
         /\ call'[d].quota = call[d].quota /\ call'[d].from = call[d].from
         /\ call'[d].rows = call[d].rows /\ call'[d].print = call[d].print
         /\ call'[d].answer = call[d].answer
         /\ call'[d].pc = call[d].pc \/ (call'[d].pc = "crashed" /\ call[d].pc \notin {"idle", "done"})
    /\ UNCHANGED <<scope, projects, owner, models>> /\ UNCHANGED controlVars
    /\ UNCHANGED dataVars

LEMMA CrashCrashes ==
  ASSUME Typed, UNCHANGED dataVars, NEW p \in Procs, Crash(p)
  PROVE  Crashes(p)
<1>1. call \in [Calls -> AnyCall] /\ "crashed" \in Pcs
  BY Literals DEF Typed
<1>2. call' = [c \in Calls |-> IF call[c].proc = p /\ call[c].pc # "done"
                                THEN [call[c] EXCEPT !.pc = "crashed"] ELSE call[c]]
  BY DEF Crash
<1>3. SUFFICES ASSUME NEW d \in Calls
               PROVE  /\ call'[d] \in AnyCall
                      /\ call'[d].kind = call[d].kind /\ call'[d].proc = call[d].proc
                      /\ call'[d].key = call[d].key
                      /\ call'[d].proj = call[d].proj /\ call'[d].res = call[d].res
                      /\ call'[d].quota = call[d].quota /\ call'[d].from = call[d].from
                      /\ call'[d].rows = call[d].rows /\ call'[d].print = call[d].print
                      /\ call'[d].answer = call[d].answer
                      /\ \/ call'[d].pc = call[d].pc
                         \/ call'[d].pc = "crashed" /\ call[d].pc \notin {"idle", "done"}
  <2>1. call' \in [Calls -> AnyCall]
    BY <1>2, <1>3
  <2> QED BY <1>3, <2>1 DEF Crash, Crashes
<1>4. call[d] \in AnyCall
  BY <1>1
<1>5. CASE call[d].proc = p /\ call[d].pc # "done"
  <2>1. call[d].pc # "idle"
    BY <1>5, TenantAssumption DEF Typed, Holds
  <2>2. call'[d] = [call[d] EXCEPT !.pc = "crashed"]
    BY <1>2, <1>5
  <2> QED BY <1>1, <1>4, <1>5, <2>1, <2>2 DEF AnyCall
<1>6. CASE ~ (call[d].proc = p /\ call[d].pc # "done")
  BY <1>2, <1>4, <1>6
<1> QED BY <1>5, <1>6

LEMMA CrashTyped ==
  ASSUME Typed, NEW p \in Procs, Crashes(p)
  PROVE  Typed'
<1>1. /\ call' \in [Calls -> AnyCall]
      /\ UNCHANGED <<scope, projects, owner, models>> /\ UNCHANGED controlVars
      /\ UNCHANGED dataVars
  BY DEF Crashes
<1>2. \A d \in Calls : Routes(call[d].kind, call[d].pc)' /\ Holds(call[d])'
  <2>1. SUFFICES ASSUME NEW d \in Calls
                 PROVE  Routes(call[d].kind, call[d].pc)' /\ Holds(call[d])'
    OBVIOUS
  <2>2. /\ Routes(call[d].kind, call[d].pc) /\ Holds(call[d])
        /\ call'[d].kind = call[d].kind /\ call'[d].proc = call[d].proc /\ call'[d].key = call[d].key
        /\ call'[d].proj = call[d].proj /\ call'[d].res = call[d].res /\ call'[d].from = call[d].from
        /\ call'[d].rows = call[d].rows /\ call'[d].answer = call[d].answer
        /\ call'[d].pc = call[d].pc \/ (call'[d].pc = "crashed" /\ call[d].pc \notin {"idle", "done"})
    BY DEF Crashes, Typed
  <2>3. Routes(call[d].kind, call[d].pc)'
    BY <2>2 DEF Routes
  <2>4. Holds(call[d])'
    BY <1>1, <2>2 DEF Holds, Known
  <2> QED BY <2>3, <2>4
<1>3. \A d \in Calls : call'[d].pc \in Pcs /\ call'[d].proj \in Projects \cup {None}
  BY <1>1 DEF AnyCall
<1>4. ControlTypeOK' /\ DataTypeOK'
  BY <1>1, <1>3 DEF Typed, ControlTypeOK, DataTypeOK, controlVars, dataVars
<1> QED BY <1>1, <1>2, <1>4 DEF Typed

\* What happens beside the calls.
Beside ==
    \/ /\ \E i \in Projects : CreateProject(i)
       /\ UNCHANGED dataVars
    \/ /\ \E i \in Projects, k \in Keys : IssueKey(k, i)
       /\ UNCHANGED dataVars
    \/ /\ \E k \in Keys : EndKey(k)
       /\ UNCHANGED dataVars
    \/ NextDay /\ UNCHANGED dataVars
    \/ \E d \in Datasets : PurgeDataset(d)
    \/ \E r \in Reviews : PurgeReview(r)

LEMMA BesideTyped ==
  ASSUME Typed, Beside
  PROVE  /\ Typed' /\ UNCHANGED <<call, scope, owner, models>>
         /\ UNCHANGED <<usage, counted, audit, deployed, history, used>>
<1>0. /\ ControlTypeOK /\ DataTypeOK /\ call \in [Calls -> AnyCall]
      /\ \A c \in Calls : Routes(call[c].kind, call[c].pc) /\ Holds(call[c])
      /\ scope \in Scopes
  BY DEF Typed, ControlTypeOK
<1>1. /\ UNCHANGED <<call, scope, owner, models>>
      /\ UNCHANGED <<usage, counted, audit, deployed, history, used>>
  BY DEF Beside, CreateProject, IssueKey, EndKey, NextDay, PurgeDataset, PurgeReview, DropDataset,
         registryVars, controlVars, dataVars
<1>2. /\ projects' \in [Projects -> ProjectRows \cup {None}] /\ top' \in [Projects -> Nat]
      /\ \A i \in Projects : Known(i) => Known(i)'
  <2>1. CASE UNCHANGED <<projects, top>>
    BY <1>0, <2>1 DEF ControlTypeOK, Known
  <2>2. CASE \E i \in Projects : CreateProject(i)
    <3>1. PICK i \in Projects : CreateProject(i)
      BY <2>2
    <3>2. PICK row \in scope.created :
            /\ projects' = [projects EXCEPT ![i] = row] /\ top' = [top EXCEPT ![i] = row.quota]
            /\ projects[i] = None
      BY <3>1 DEF CreateProject
    <3>3. row \in ProjectRows
      BY <1>0, <3>2, ControlAssumption
    <3>4. row.quota \in Nat
      BY <3>3 DEF ProjectRows
    <3> QED BY <1>0, <3>2, <3>3, <3>4 DEF ControlTypeOK, Known
  <2> QED BY <2>1, <2>2 DEF Beside, IssueKey, EndKey, NextDay, PurgeDataset, PurgeReview,
                            registryVars, controlVars
<1>3. keys' \in [Keys -> KeyRows \cup {None}] /\ day' \in Days
  <2>1. CASE UNCHANGED keys /\ (UNCHANGED day \/ NextDay)
    BY <1>0, <2>1 DEF ControlTypeOK, NextDay
  <2>2. CASE \E i \in Projects, k \in Keys : IssueKey(k, i)
    <3>1. PICK i \in Projects, k \in Keys : IssueKey(k, i)
      BY <2>2
    <3>2. PICK S \in scope.issued :
            keys' = [keys EXCEPT ![k] = [proj |-> i, scopes |-> S, valid |-> TRUE]]
      BY <3>1 DEF IssueKey
    <3>3. S \subseteq {"inference", "realtime", "models", "datasets", "reviews"}
      BY <1>0, <3>2, ControlAssumption
    <3>4. [proj |-> i, scopes |-> S, valid |-> TRUE] \in KeyRows
      BY <3>3 DEF KeyRows
    <3> QED BY <1>0, <3>1, <3>2, <3>4 DEF ControlTypeOK, IssueKey
  <2>3. CASE \E k \in Keys : EndKey(k)
    <3>1. PICK k \in Keys : EndKey(k)
      BY <2>3
    <3>2. keys[k] \in KeyRows
      BY <1>0, <3>1 DEF EndKey, ControlTypeOK
    <3>3. [keys[k] EXCEPT !.valid = FALSE] \in KeyRows
      BY <3>2 DEF KeyRows
    <3> QED BY <1>0, <3>1, <3>3 DEF ControlTypeOK, EndKey
  <2> QED BY <2>1, <2>2, <2>3 DEF Beside, CreateProject, NextDay, PurgeDataset, PurgeReview,
                            registryVars, controlVars
<1>4. DataTypeOK'
  <2>1. CASE UNCHANGED dataVars
    BY <1>0, <1>1, <2>1 DEF DataTypeOK, dataVars
  <2>2. CASE \E d \in Datasets : PurgeDataset(d)
    BY <1>0, <1>1, <2>2 DEF DataTypeOK, PurgeDataset, DropDataset
  <2>3. CASE \E r \in Reviews : PurgeReview(r)
    BY <1>0, <1>1, <2>3 DEF DataTypeOK, PurgeReview
  <2> QED BY <2>1, <2>2, <2>3 DEF Beside
<1>5. ControlTypeOK'
  BY <1>0, <1>1, <1>2, <1>3 DEF ControlTypeOK
<1>6. \A c \in Calls : Routes(call[c].kind, call[c].pc)' /\ Holds(call[c])'
  <2>1. SUFFICES ASSUME NEW c \in Calls
                 PROVE  Routes(call[c].kind, call[c].pc)' /\ Holds(call[c])'
    OBVIOUS
  <2>2. Routes(call[c].kind, call[c].pc) /\ Holds(call[c])
    BY <1>0
  <2> QED BY <1>1, <1>2, <2>2 DEF Holds
<1> QED BY <1>0, <1>1, <1>4, <1>5, <1>6 DEF Typed

LEMMA NextCases ==
  ASSUME Typed, Next
  PROVE  \/ \E c \in Calls : Step(c)
         \/ \E c \in Calls : Starts(c) /\ Holds(call[c])'
         \/ \E p \in Procs : Crashes(p)
         \/ Beside
<1>1. CASE ControlNext /\ UNCHANGED dataVars
  BY <1>1, NewCallStarts, CrashCrashes DEF ControlNext, Step, Beside
<1>2. CASE DataNext
  BY <1>2, DataCallStarts DEF DataNext, Step, Beside
<1> QED BY <1>1, <1>2 DEF Next

LEMMA TypedInit ==
  ASSUME Init
  PROVE  Typed
<1>1. scope \in Scopes
  BY DEF Init, ControlInit
<1>2. projects \in [Projects -> ProjectRows \cup {None}] /\ top \in [Projects -> Nat]
  <2>1. projects \in [Projects -> ProjectRows \cup {None}]
    BY <1>1, TenantAssumption DEF Init, ControlInit
  <2>2. \A i \in Projects : Known(i) => projects[i].quota \in Nat
    BY <2>1 DEF Known, ProjectRows
  <2> QED BY <2>1, <2>2 DEF Init, ControlInit
<1>3. owner \in [Resources -> Projects \cup {None}] /\ models \subseteq Models
  BY <1>1, TenantAssumption DEF Init, ControlInit
<1>4. keys \in [Keys -> KeyRows \cup {None}] /\ day \in Days
  BY <1>1, ControlAssumption DEF Init, ControlInit
<1>5. /\ usage \in [Projects -> [Days -> Nat]]
      /\ counted \subseteq [call : Calls, proj : Projects, day : Days, nth : Nat]
      /\ audit \in [Calls -> Seq({"200", "400", "404", "429", "500"})]
      /\ deployed \in [Projects -> Deployments \cup {None}]
      /\ history \in [Projects -> Seq(Deployments)]
  BY DEF Init, ControlInit
<1>6. /\ call \in [Calls -> AnyCall]
      /\ \A c \in Calls : call[c] = NoCall
  BY NoCallType DEF Init, ControlInit
<1>7. \A c \in Calls : Routes(call[c].kind, call[c].pc) /\ Holds(call[c])
  <2>1. Routes(None, "idle")
    BY DEF Routes
  <2>2. Holds(NoCall)
    BY NoCallType, NoneIsNoKind DEF Holds, Counted, DataKinds, OnDataset, Kinds
  <2> QED BY <1>6, <2>1, <2>2, NoCallType
<1>8. DataTypeOK
  <2>1. datasets \in [Datasets -> (SUBSET ExampleRows) \cup {None}]
    BY <1>1, DataAssumption DEF Init
  <2>2. reviews \in [Reviews -> ReviewRows \cup {None}]
    BY <1>1, DataAssumption DEF Init
  <2>3. used \subseteq Reviews \cup Datasets /\ lineage = {}
    BY <1>1, DataAssumption DEF Init
  <2> QED BY <2>1, <2>2, <2>3 DEF DataTypeOK
<1>9. ControlTypeOK
  BY <1>1, <1>2, <1>3, <1>4, <1>5, <1>6 DEF ControlTypeOK, AnyCall
<1> QED BY <1>6, <1>7, <1>8, <1>9 DEF Typed

LEMMA TypedNext ==
  ASSUME Typed, [Next]_vars
  PROVE  Typed'
<1>1. CASE Next
  BY <1>1, NextCases, StepTyped, StartTyped, CrashTyped, BesideTyped
<1>2. CASE UNCHANGED vars
  <2>1. /\ UNCHANGED <<scope, projects, owner, models, call, crashes>>
        /\ UNCHANGED controlVars /\ UNCHANGED dataVars
    BY <1>2 DEF vars, registryVars
  <2> QED BY <2>1 DEF Typed, ControlTypeOK, DataTypeOK, Holds, Known, controlVars, dataVars
<1> QED BY <1>1, <1>2

-----------------------------------------------------------------------------
(* What the calls may rely on, layer by layer *)

Registers == {"require", "select", "insert"}

\* Deployments.  A model that is owned keeps its owner.
Deploying(a) ==
    /\ a.kind = "promote" /\ a.pc \in Registers \cup {"get", "write"} => Decision[a.res] = Slot
    /\ a.kind = "rollback" /\ a.pc \in Registers \cup {"get", "write"} => Decision[a.res] = Slot
    /\ a.pc \in {"get", "write"} => owner[a.res] = a.proj
    /\ a.pc = "write" /\ a.from # None => owner[a.from.model] = a.proj

DeployInv ==
    /\ DeployedOwned
    /\ \A i \in Projects : \A k \in DOMAIN history[i] : Decision[history[i][k].model] = Slot
    /\ \A c \in Calls : Deploying(call[c])
    /\ \A c \in Calls : call[c].pc = "write" /\ call[c].from # None => Decision[call[c].from.model] = Slot

\* Counts.  The calls of a project between the SELECT of its count and the
\* UPDATE are in different processes, whose locks they hold.
Writers(i) == {c \in Calls : call[c].pc = "countWrite" /\ call[c].proj = i}

Pending(i) == usage[i][day] + Cardinality(Writers(i))

OneWriter == \A c, d \in Calls :
    HoldsStore(c) /\ HoldsStore(d) /\ call[c].proc = call[d].proc => c = d

QuotaInv ==
    /\ OneWriter
    /\ \A i \in Projects :
         /\ IF Known(i) THEN projects[i].quota <= top[i] ELSE top[i] = 0
         /\ Writers(i) # {} => 1 <= top[i]
         /\ Pending(i) > 0 => Pending(i) < top[i] + Cardinality(scope.procs)
         /\ \A d \in Days : d > day => usage[i][d] = 0
    /\ \A c \in Calls : call[c].pc \in {"count", "countWrite"} => call[c].quota <= top[call[c].proj]
    /\ IsFiniteSet(counted)
    /\ \A e \in counted : e.nth <= usage[e.proj][e.day]
    /\ QuotaHolds

\* Audit.
Owed(a) == IF a.kind \in Counted /\ a.pc \in {"deployment", "owned", "serving", "audit"} THEN 1 ELSE 0

Audited(c) ==
    /\ call[c].kind \notin Counted => CountedOf(c) = {} /\ audit[c] = << >>
    /\ call[c].kind # "ws" /\ call[c].pc \notin {"done", "crashed"} => audit[c] = << >>
    /\ call[c].pc \notin {"done", "crashed"} =>
         Cardinality(CountedOf(c)) = Cardinality(Served(c)) + Owed(call[c])
    /\ call[c].kind \in {"infer", "model_predict"} /\ call[c].pc = "audit" => call[c].answer # "404"

AuditInv == AuditExact /\ \A c \in Calls : Audited(c)

\* Ids and owners of datasets and reviews.
Storing(a) ==
    /\ a.kind \in Creates /\ a.pc \in {"row", "create"} => a.res \notin used
    /\ a.kind \in Creates /\ a.pc \in Registers \cup {"undo"} => a.res \in used
    /\ a.kind = "create_dataset" /\ a.pc \in Registers \cup {"undo"} => owner[a.res] = None
    /\ a.pc \in {"exists", "list", "add", "rows"} =>
         a.res \in used /\ (Live(a.res) => owner[a.res] = a.proj)
    /\ a.pc = "delete" => a.res \in used
    /\ a.pc = "unregister" => a.res \in used /\ ~ Live(a.res)
    /\ a.kind = "add" => \A x \in a.rows : x.review = None
    /\ a.pc = "add" => \A x \in a.rows : x.review # None => owner[x.review] = a.proj

DataInv ==
    /\ \A c, d \in Calls : call[c].kind \in Creates /\ call[c].kind = call[d].kind
                             /\ call[c].res = call[d].res => c = d
    /\ \A r \in Datasets \cup Reviews : r \notin used => owner[r] = None
    /\ \A d \in Datasets : /\ Live(d) => d \in used
                           /\ Live(d) /\ owner[d] = None => datasets[d] = {}
    /\ \A c \in Calls : Storing(call[c])
    /\ TenantIsolation

\* Fingerprints.  The statements of train after the training, and what LineageExact says
\* of the rows of a record.
Trained == {"evaluate", "benchmark", "record"}

Alone == Cardinality(scope.procs) = 1

Exact(print, rows) ==
    /\ rows = Part(rows, "train")
    /\ Part(print, "train") \subseteq rows \/ Cardinality(rows) = TrainLimit
    /\ \A x \in rows, y \in print : x.text = y.text => y.split = "train"
    /\ Alone => rows \subseteq print

Tracing(a) ==
    /\ a.pc \in {"rows", "training"} => a.res \in scope.permit
    /\ a.pc \in Trained => a.from \in scope.permit
    /\ a.pc = "rows" /\ Live(a.res) => /\ a.print \subseteq datasets[a.res]
                                       /\ Alone => a.print = datasets[a.res]
    /\ a.pc \in Trained \cup {"training"} => Exact(a.print, a.rows)

LineageInv ==
    /\ \A d \in Datasets : Live(d) => OncePerText(datasets[d])
    /\ LineageExact
    /\ \A c \in Calls : Tracing(call[c])

-----------------------------------------------------------------------------
(* Deployments *)

\* Only the datasets' owners go away.
LEMMA OwnersStay ==
  ASSUME Typed, NEW c \in Calls, Step(c), NEW r \in Resources, r \notin Datasets, owner[r] # None
  PROVE  owner'[r] = owner[r]
<1>1. Moves(c) /\ owner \in [Resources -> Projects \cup {None}]
  BY StepMoves DEF Typed, ControlTypeOK
<1>2. CASE call[c].pc = "insert"
  <2>1. InsertOwner(c)
    BY <1>2, StepOpens
  <2> QED BY <1>1, <2>1 DEF InsertOwner
<1>3. CASE call[c].pc = "unregister"
  <2>1. UnregisterDataset(c)
    BY <1>3, StepOpens
  <2>2. call[c].res \in Datasets
    BY <1>3 DEF Typed, Routes, Holds, OnDataset
  <2> QED BY <1>1, <2>1, <2>2 DEF UnregisterDataset
<1>4. CASE call[c].pc \notin {"insert", "unregister"}
  BY <1>1, <1>4 DEF Moves, Writes
<1> QED BY <1>2, <1>3, <1>4

LEMMA NoneIsNoProject == None \notin Projects /\ None \notin Resources
BY TenantAssumption

LEMMA DeployStep ==
  ASSUME Typed, DeployInv, NEW c \in Calls, Step(c)
  PROVE  DeployInv'
<1> DEFINE a == call[c]
           b == call'[c]
<1>1. /\ Moves(c) /\ Typed'
      /\ Routes(a.kind, a.pc) /\ Holds(a) /\ Deploying(a)
      /\ Others(c) /\ Writes(a.pc) /\ Follows(a.pc, b.pc) /\ b.kind = a.kind
      /\ Routes(b.kind, b.pc) /\ Holds(call[c])'
      /\ owner \in [Resources -> Projects \cup {None}]
      /\ a.pc \notin {"row", "connect"} => b.proj = a.proj
      /\ a.pc \notin {"deployment", "previous", "training"} => b.res = a.res
      /\ a.pc \notin {"load", "get", "training"} => b.from = a.from
  BY StepMoves, StepTyped DEF Moves, Fields, Typed, ControlTypeOK, DeployInv
<1>2. \A m \in Models : owner[m] # None => owner'[m] = owner[m]
  BY OwnersStay, TenantAssumption DEF Resources
<1>3. \A m \in Models, i \in Projects : owner[m] = i => owner'[m] = i
  BY <1>2, NoneIsNoProject
<1>4. /\ DeployedOwned /\ deployed \in [Projects -> Deployments \cup {None}]
      /\ history \in [Projects -> Seq(Deployments)]
      /\ \A i \in Projects : \A k \in DOMAIN history[i] : Decision[history[i][k].model] = Slot
  BY DEF DeployInv, Typed, ControlTypeOK
<1>5. \A i \in Projects : /\ deployed[i] # None => deployed[i].model \in Models
                          /\ \A k \in DOMAIN history[i] : history[i][k].model \in Models
  <2>1. SUFFICES ASSUME NEW i \in Projects
                 PROVE  /\ deployed[i] # None => deployed[i].model \in Models
                        /\ \A k \in DOMAIN history[i] : history[i][k].model \in Models
    OBVIOUS
  <2>2. deployed[i] \in Deployments \cup {None} /\ history[i] \in Seq(Deployments)
    BY <1>4
  <2>3. \A k \in DOMAIN history[i] : history[i][k] \in Deployments
    BY <2>2
  <2> QED BY <2>2, <2>3 DEF Deployments
<1>6. /\ DeployedOwned'
      /\ \A i \in Projects : \A k \in DOMAIN history'[i] : Decision[history'[i][k].model] = Slot
  <2>1. CASE a.pc = "write"
    <3>1. WriteDeployed(c)
      BY <2>1, StepOpens
    <3>2. /\ a.kind \in {"promote", "rollback"} /\ a.proj \in Projects /\ a.res \in Models
          /\ owner[a.res] = a.proj /\ Decision[a.res] = Slot
          /\ a.from \in Deployments \cup {None}
          /\ a.from # None => owner[a.from.model] = a.proj /\ Decision[a.from.model] = Slot
      BY <1>1, <2>1 DEF Routes, Holds, Deploying, DeployInv, Registers
    <3>3. owner' = owner
      BY <1>1, <2>1 DEF Writes
    <3>4. PICK n \in Nat : deployed' = [deployed EXCEPT ![a.proj] = [ver |-> n, model |-> a.res]]
      BY <3>1, DeployTypes
    <3>5. \A i \in Projects : deployed'[i] # None => /\ owner'[deployed'[i].model] = i
                                                     /\ Decision[deployed'[i].model] = Slot
      BY <1>4, <3>2, <3>3, <3>4 DEF DeployedOwned
    <3>6. history' = IF a.from = None THEN history ELSE [history EXCEPT ![a.proj] = Append(@, a.from)]
      BY <3>1 DEF WriteDeployed
    <3>7. \A i \in Projects : \A k \in DOMAIN history'[i] :
            owner'[history'[i][k].model] = i /\ Decision[history'[i][k].model] = Slot
      <4>1. SUFFICES ASSUME NEW i \in Projects, NEW k \in DOMAIN history'[i]
                     PROVE  owner'[history'[i][k].model] = i /\ Decision[history'[i][k].model] = Slot
        OBVIOUS
      <4>2. CASE history'[i] = history[i]
        BY <1>4, <3>3, <4>2 DEF DeployedOwned
      <4>3. CASE i = a.proj /\ a.from # None
        <5>1. history'[i] = Append(history[i], a.from) /\ history[i] \in Seq(Deployments)
          BY <1>4, <3>6, <4>3
        <5>2. a.from \in Deployments
          BY <3>2, <4>3
        <5>3. CASE k \in DOMAIN history[i]
          <6>1. history'[i][k] = history[i][k]
            BY <5>1, <5>2, <5>3
          <6> QED BY <1>4, <3>3, <5>3, <6>1 DEF DeployedOwned
        <5>4. CASE k \notin DOMAIN history[i]
          <6>1. history'[i][k] = a.from
            BY <5>1, <5>2, <5>4
          <6> QED BY <3>2, <3>3, <4>3, <6>1
        <5> QED BY <5>3, <5>4
      <4>4. history'[i] = history[i] \/ (i = a.proj /\ a.from # None)
        BY <1>4, <3>6
      <4> QED BY <4>2, <4>3, <4>4
    <3> QED BY <3>5, <3>7 DEF DeployedOwned
  <2>2. CASE a.pc # "write"
    <3>1. UNCHANGED <<deployed, history>>
      BY <1>1, <2>2 DEF Writes
    <3>2. \A i \in Projects : deployed'[i] # None => /\ owner'[deployed'[i].model] = i
                                                     /\ Decision[deployed'[i].model] = Slot
      BY <1>3, <1>4, <1>5, <3>1 DEF DeployedOwned
    <3>3. \A i \in Projects : \A k \in DOMAIN history'[i] :
            owner'[history'[i][k].model] = i /\ Decision[history'[i][k].model] = Slot
      BY <1>3, <1>4, <1>5, <3>1 DEF DeployedOwned
    <3> QED BY <3>2, <3>3 DEF DeployedOwned
  <2> QED BY <2>1, <2>2
<1>7. ASSUME NEW d \in Calls, d # c
      PROVE  /\ Deploying(call[d])'
             /\ call'[d].pc = "write" /\ call'[d].from # None => Decision[call'[d].from.model] = Slot
  <2>1. call'[d] = call[d] /\ Deploying(call[d]) /\ Routes(call[d].kind, call[d].pc) /\ Holds(call[d])
    BY <1>1, <1>7 DEF Others, DeployInv, Typed
  <2>2. call[d].pc \in {"get", "write"} => call[d].res \in Models /\ call[d].proj \in Projects
    BY <2>1 DEF Routes, Holds
  <2>3. call[d].pc = "write" /\ call[d].from # None => call[d].from.model \in Models
    BY <2>1 DEF Holds, Deployments
  <2> QED BY <1>3, <2>1, <2>2, <2>3 DEF Deploying, DeployInv
<1>8. /\ Deploying(call[c])'
      /\ b.pc = "write" /\ b.from # None => Decision[b.from.model] = Slot
  <2>1. CASE b.pc \notin Registers \cup {"get", "write"}
    BY <2>1 DEF Deploying
  <2>2. CASE b.pc \in Registers
    BY <1>1, <2>2 DEF Deploying, Registers, Follows, Routes, Creates
  <2>3. CASE b.pc = "get"
    <3>1. a.pc \in {"select", "insert", "previous"}
      BY <1>1, <2>3 DEF Follows
    <3>2. CASE a.pc = "previous"
      <4>1. RollbackTo(c) /\ UNCHANGED dataVars
        BY <3>2, StepOpens DEF Step, DataStep, AssertOwner, CreateDataset, CreateReview, UndoDataset,
           DeleteDataset, UnregisterDataset, GetDataset, ListReviews, AddExamples, ReadExamples,
           Train, ReadHeldOut, Benchmark, RecordModel, ResolveReview, At, Running
      <4>2. /\ b.kind = "rollback" /\ b.proj = a.proj /\ a.proj \in Projects
            /\ \E k \in DOMAIN history[a.proj] : b.res = history[a.proj][k].model
        BY <2>3, <4>1, RollbackMoves
      <4>3. owner[b.res] = a.proj /\ Decision[b.res] = Slot /\ b.res \in Models
        BY <1>4, <1>5, <4>2 DEF DeployedOwned
      <4> QED BY <1>3, <2>3, <4>2, <4>3 DEF Deploying
    <3>3. CASE a.pc \in {"select", "insert"}
      <4>1. /\ a.kind = b.kind /\ b.kind \in {"promote", "rollback"} /\ b.proj = a.proj
            /\ b.res = a.res /\ a.proj \in Projects /\ Decision[a.res] = Slot
            /\ a.res \in Models /\ call \in [Calls -> AnyCall]
        BY <1>1, <2>3, <3>3 DEF Routes, Holds, Deploying, Registers, Typed
      <4>2. owner'[a.res] = a.proj
        <5>1. SelectOwner(c) \/ InsertOwner(c)
          BY <3>3, StepOpens
        <5>2. /\ ~ Goto(c, "insert") /\ ~ Goto(c, "undo") /\ ~ Answer(c, "failed")
              /\ ~ Answer(c, "ok")
          BY <2>3, <4>1, GotoMoves, AnswerMoves, Literals
        <5>3. CASE SelectOwner(c)
          <6>1. owner' = owner /\ owner[a.res] = a.proj
            BY <5>2, <5>3 DEF SelectOwner, RegisterFails
          <6> QED BY <6>1
        <5>4. CASE InsertOwner(c)
          <6>1. owner[a.res] = None /\ owner' = [owner EXCEPT ![a.res] = a.proj]
            BY <5>2, <5>4 DEF InsertOwner, RegisterFails
          <6> QED BY <1>1, <4>1, <6>1 DEF Resources
        <5> QED BY <5>1, <5>3, <5>4
      <4> QED BY <2>3, <4>1, <4>2 DEF Deploying
    <3> QED BY <3>1, <3>2, <3>3
  <2>4. CASE b.pc = "write"
    <3>1. a.pc = "get" /\ a.proj \in Projects /\ a.res \in Models /\ b.proj = a.proj /\ b.res = a.res
          /\ a.kind \in {"promote", "rollback"}
      BY <1>1, <2>4 DEF Follows, Routes, Holds
    <3>2. ReadDeployed(c)
      BY <3>1, StepOpens
    <3>3. b.from = deployed[a.proj] /\ owner' = owner
      BY <3>1, <3>2 DEF ReadDeployed, OnlyCall, Typed, AnyCall
    <3>4. Deploying(call[c])'
      BY <1>1, <1>4, <2>4, <3>1, <3>3 DEF Deploying, DeployedOwned, Registers
    <3> QED BY <1>4, <3>1, <3>3, <3>4 DEF DeployedOwned
  <2> QED BY <2>1, <2>2, <2>3, <2>4
<1>9. \A d \in Calls : /\ Deploying(call[d])'
                       /\ call'[d].pc = "write" /\ call'[d].from # None => Decision[call'[d].from.model] = Slot
  BY <1>7, <1>8
<1> QED BY <1>6, <1>9 DEF DeployInv

\* Steps that are none of a call's.
Otherwise ==
    \/ \E c \in Calls : Starts(c) /\ Holds(call[c])'
    \/ \E p \in Procs : Crashes(p)
    \/ Beside

LEMMA DeployOther ==
  ASSUME Typed, DeployInv, Otherwise
  PROVE  DeployInv'
<1>1. UNCHANGED <<scope, owner, deployed, history>>
  BY BesideTyped DEF Otherwise, Starts, Crashes, controlVars
<1>2. ASSUME NEW c \in Calls
      PROVE  /\ Deploying(call[c])'
             /\ call'[c].pc = "write" /\ call'[c].from # None => Decision[call'[c].from.model] = Slot
  <2>1. /\ Deploying(call[c])
        /\ call[c].pc = "write" /\ call[c].from # None => Decision[call[c].from.model] = Slot
    BY DEF DeployInv
  <2>2. CASE \E d \in Calls : Starts(d)
    <3>1. PICK d \in Calls : Starts(d)
      BY <2>2
    <3>2. CASE d = c
      BY <3>1, <3>2 DEF Starts, Deploying, Registers, Routes
    <3>3. CASE d # c
      BY <1>1, <2>1, <3>1, <3>3 DEF Starts, Others, Deploying
    <3> QED BY <3>2, <3>3
  <2>3. CASE \E p \in Procs : Crashes(p)
    BY <1>1, <2>1, <2>3 DEF Crashes, Deploying, Registers
  <2>4. CASE Beside
    BY <1>1, <2>1, <2>4, BesideTyped DEF Deploying
  <2> QED BY <2>2, <2>3, <2>4 DEF Otherwise
<1> QED BY <1>1, <1>2 DEF DeployInv, DeployedOwned

-----------------------------------------------------------------------------
(* Counts *)

\* A lock is taken when nobody of the process has it.
LEMMA HeldAlone ==
  ASSUME Typed, NEW c \in Calls, Step(c), call[c].pc \in {"count", "get"}
  PROVE  \A d \in Calls \ {c} : call[d].proc = call[c].proc => ~ HoldsStore(d)
<1>1. ReadUsage(c) \/ ReadDeployed(c)
  BY StepOpens
<1> QED BY <1>1 DEF ReadUsage, ReadDeployed, At

LEMMA OneWriterStep ==
  ASSUME Typed, OneWriter, NEW c \in Calls, Step(c)
  PROVE  OneWriter'
<1>1. /\ Others(c) /\ Follows(call[c].pc, call'[c].pc) /\ call'[c].proc = call[c].proc
  BY StepMoves DEF Moves, Fields
<1>2. SUFFICES ASSUME NEW d \in Calls, NEW e \in Calls, HoldsStore(d)', HoldsStore(e)',
                      call'[d].proc = call'[e].proc, d # e
               PROVE  FALSE
  BY DEF OneWriter
<1>3. d # c \/ e # c
  BY <1>2
<1>4. CASE d # c /\ e # c
  BY <1>1, <1>2, <1>4 DEF Others, HoldsStore, OneWriter
<1>5. ASSUME NEW x \in Calls, x # c, HoldsStore(x)', HoldsStore(c)', call'[x].proc = call'[c].proc
      PROVE  FALSE
  <2>1. call'[x] = call[x] /\ HoldsStore(x) /\ call[x].proc = call[c].proc
    BY <1>1, <1>5 DEF Others, HoldsStore
  <2>2. call[c].pc \in {"count", "get"}
    BY <1>1, <1>5 DEF HoldsStore, Follows
  <2> QED BY <1>5, <2>1, <2>2, HeldAlone
<1> QED BY <1>2, <1>4, <1>5

\* A process is writing at most one count of a project.
LEMMA FewCalls ==
  ASSUME NEW W \in SUBSET Calls, NEW P \in SUBSET Procs, NEW g,
         \A c \in W : g[c] \in P,
         \A c, d \in W : g[c] = g[d] => c = d
  PROVE  /\ IsFiniteSet(W) /\ IsFiniteSet(P) /\ Cardinality(W) \in Nat /\ Cardinality(P) \in Nat
         /\ Cardinality(W) <= Cardinality(P)
<1>1. IsFiniteSet(P) /\ IsFiniteSet(W)
  BY TenantAssumption, FS_Subset
<1> DEFINE f == [c \in W |-> g[c]]
<1>2. f \in Injection(W, P)
  BY DEF Injection, IsInjective
<1> QED BY <1>1, <1>2, FS_Injection, FS_CardinalityType

LEMMA FewWriters ==
  ASSUME Typed, OneWriter, NEW i \in Projects
  PROVE  /\ IsFiniteSet(Writers(i)) /\ IsFiniteSet(scope.procs)
         /\ Cardinality(Writers(i)) \in Nat /\ Cardinality(scope.procs) \in Nat
         /\ Cardinality(Writers(i)) <= Cardinality(scope.procs)
<1> DEFINE g == [c \in Calls |-> call[c].proc]
<1>1. scope.procs \in SUBSET Procs /\ Writers(i) \in SUBSET Calls
  BY TenantAssumption DEF Typed, ControlTypeOK, Writers
<1>2. \A c \in Writers(i) : g[c] \in scope.procs
  BY DEF Writers, Typed, Holds
<1>3. \A c, d \in Writers(i) : g[c] = g[d] => c = d
  BY DEF Writers, OneWriter, HoldsStore
<1> HIDE DEF g
<1> QED BY <1>1, <1>2, <1>3, FewCalls

LEMMA FewWritersPrime ==
  ASSUME Typed', OneWriter', NEW i \in Projects
  PROVE  Cardinality(Writers(i)') <= Cardinality(scope'.procs)
<1> DEFINE g == [c \in Calls |-> call'[c].proc]
<1>1. scope'.procs \in SUBSET Procs /\ Writers(i)' \in SUBSET Calls
  BY TenantAssumption DEF Typed, ControlTypeOK, Writers
<1>2. \A c \in Writers(i)' : g[c] \in scope'.procs
  BY DEF Writers, Typed, Holds
<1>3. \A c, d \in Writers(i)' : g[c] = g[d] => c = d
  BY DEF Writers, OneWriter, HoldsStore
<1> HIDE DEF g
<1>4. PICK W \in SUBSET Calls, P \in SUBSET Procs :
        W = Writers(i)' /\ P = scope'.procs
  BY <1>1
<1>5. Cardinality(W) <= Cardinality(P)
  BY <1>2, <1>3, <1>4, FewCalls
<1> QED BY <1>4, <1>5

\* The largest quota only grows, and bounds the quota of today.
LEMMA TopStep ==
  ASSUME Typed, QuotaInv, NEW c \in Calls, Step(c), NEW i \in Projects
  PROVE  /\ top[i] \in Nat /\ top'[i] \in Nat /\ top[i] <= top'[i]
         /\ IF Known(i)' THEN projects'[i].quota <= top'[i] ELSE top'[i] = 0
<1>1. /\ Moves(c) /\ top \in [Projects -> Nat] /\ top' \in [Projects -> Nat]
      /\ projects \in [Projects -> ProjectRows \cup {None}]
      /\ IF Known(i) THEN projects[i].quota <= top[i] ELSE top[i] = 0
  BY StepMoves, StepTyped DEF Typed, ControlTypeOK, QuotaInv
<1>2. CASE call[c].pc = "store"
  <2>1. PICK row \in ProjectRows :
          /\ projects' = [projects EXCEPT ![call[c].proj] = row]
          /\ top' = [top EXCEPT ![call[c].proj] = Larger(@, row.quota)]
    BY <1>2, StepOpens, ProjectTypes
  <2>2. row # None /\ row.quota \in Nat
    BY TenantAssumption DEF ProjectRows
  <2> QED BY <1>1, <2>1, <2>2 DEF Larger, Known
<1>3. CASE call[c].pc # "store"
  BY <1>1, <1>3 DEF Moves, Writes, Known
<1> QED BY <1>2, <1>3

\* What the calls know of the quota.
LEMMA CallQuotaStep ==
  ASSUME Typed, QuotaInv, NEW c \in Calls, Step(c), NEW d \in Calls,
         call'[d].pc \in {"count", "countWrite"}
  PROVE  call'[d].quota <= top'[call'[d].proj]
<1>1. /\ Moves(c) /\ Others(c) /\ Writes(call[c].pc) /\ Follows(call[c].pc, call'[c].pc)
      /\ call[c].pc \notin {"row", "connect"} => call'[c].proj = call[c].proj
      /\ call[c].pc # "row" => call'[c].quota = call[c].quota
      /\ call \in [Calls -> AnyCall] /\ call' \in [Calls -> AnyCall]
      /\ Holds(call[d]) /\ (UNCHANGED dataVars \/ call[c].pc # "row")
  BY StepMoves DEF Moves, Fields, Typed, Step, DataStep, AssertOwner, CreateDataset, CreateReview,
     UndoDataset, DeleteDataset, UnregisterDataset, GetDataset, ListReviews, AddExamples,
     ReadExamples, Train, ReadHeldOut, Benchmark, RecordModel, ResolveReview, At, Running
<1>2. CASE d # c
  <2>1. call'[d] = call[d] /\ call[d].quota <= top[call[d].proj] /\ call[d].proj \in Projects
        /\ call[d].quota \in Nat
    BY <1>1, <1>2 DEF Others, QuotaInv, Typed, Holds, AnyCall
  <2>2. top[call[d].proj] \in Nat /\ top'[call[d].proj] \in Nat
        /\ top[call[d].proj] <= top'[call[d].proj]
    BY <2>1, TopStep
  <2> QED BY <2>1, <2>2
<1>3. CASE d = c /\ call'[c].pc = "count"
  <2>1. call[c].pc = "row" /\ top' = top
    BY <1>1, <1>3 DEF Follows, Writes
  <2>2. ReadKey(c) /\ UNCHANGED dataVars
    BY <1>1, <2>1, StepOpens
  <2>3. /\ call'[c].proj \in Projects /\ Known(call'[c].proj)
        /\ call'[c].quota = projects[call'[c].proj].quota
    BY <1>3, <2>2, ReadKeyMoves
  <2> QED BY <1>3, <2>1, <2>3 DEF QuotaInv
<1>4. CASE d = c /\ call'[c].pc = "countWrite"
  <2>1. call[c].pc = "count" /\ top' = top
    BY <1>1, <1>4 DEF Follows, Writes
  <2> QED BY <1>1, <1>4, <2>1 DEF QuotaInv
<1> QED BY <1>2, <1>3, <1>4

\* One more between SELECT and UPDATE, one less, or neither.
LEMMA WritersStep ==
  ASSUME Typed, NEW c \in Calls, Step(c), NEW i \in Projects
  PROVE  Writers(i)' = IF call[c].proj = i /\ call[c].pc = "countWrite" THEN Writers(i) \ {c}
                       ELSE IF call'[c].proj = i /\ call'[c].pc = "countWrite" THEN Writers(i) \cup {c}
                       ELSE Writers(i)
<1>1. /\ Others(c) /\ Follows(call[c].pc, call'[c].pc)
      /\ call[c].pc \notin {"row", "connect"} => call'[c].proj = call[c].proj
  BY StepMoves DEF Moves, Fields
<1>2. call[c].pc = "countWrite" => call'[c].pc # "countWrite"
  BY <1>1 DEF Follows
<1>3. call'[c].pc = "countWrite" => call[c].pc = "count"
  BY <1>1 DEF Follows
<1>4. \A d \in Calls : d # c => (d \in Writers(i)' <=> d \in Writers(i))
  BY <1>1 DEF Others, Writers
<1>5. c \in Writers(i)' <=> call'[c].pc = "countWrite" /\ call'[c].proj = i
  BY DEF Writers
<1>6. c \in Writers(i) <=> call[c].pc = "countWrite" /\ call[c].proj = i
  BY DEF Writers
<1>7. Writers(i) \subseteq Calls /\ Writers(i)' \subseteq Calls
  BY DEF Writers
<1> QED BY <1>1, <1>2, <1>3, <1>4, <1>5, <1>6, <1>7

LEMMA PendingStep ==
  ASSUME Typed, QuotaInv, NEW c \in Calls, Step(c), NEW i \in Projects
  PROVE  /\ Writers(i)' # {} => 1 <= top'[i]
         /\ Pending(i)' > 0 => Pending(i)' < top'[i] + Cardinality(scope'.procs)
<1> DEFINE W == Writers(i)
           n == Cardinality(W)
           m == Cardinality(scope.procs)
           u == usage[i][day]
<1>1. /\ top[i] \in Nat /\ top'[i] \in Nat /\ top[i] <= top'[i]
  BY TopStep
<1>2. /\ IsFiniteSet(W) /\ n \in Nat /\ m \in Nat /\ n <= m
  BY FewWriters DEF QuotaInv
<1>3. /\ scope' = scope /\ day' = day /\ day \in Days /\ usage \in [Projects -> [Days -> Nat]]
      /\ u \in Nat /\ Typed' /\ Writes(call[c].pc) /\ Follows(call[c].pc, call'[c].pc)
      /\ call[c].pc \notin {"row", "connect"} => call'[c].proj = call[c].proj
  BY StepMoves, StepTyped DEF Moves, Fields, Writes, Typed, ControlTypeOK
<1>4. /\ W # {} => 1 <= top[i]
      /\ u + n > 0 => u + n < top[i] + m
  BY DEF QuotaInv, Pending
<1>5. CASE call[c].proj = i /\ call[c].pc = "countWrite"
  <2>1. Writers(i)' = W \ {c} /\ c \in W
    BY <1>5, WritersStep DEF Writers
  <2>2. usage' = [usage EXCEPT ![i][day] = @ + 1]
    BY <1>5, StepOpens DEF CountUsage
  <2>3. usage'[i][day'] = u + 1
    BY <1>3, <2>2
  <2>4. Cardinality(W \ {c}) = n - 1
    BY <1>2, <2>1, FS_RemoveElement
  <2>5. Pending(i)' = u + n
    BY <1>2, <1>3, <2>1, <2>3, <2>4 DEF Pending
  <2> HIDE DEF W, n, m, u
  <2>6. W # {}
    BY <2>1
  <2> QED BY <1>1, <1>2, <1>3, <1>4, <2>5, <2>6 DEF m
<1>6. CASE call'[c].proj = i /\ call'[c].pc = "countWrite"
  <2>1. call[c].pc = "count" /\ call[c].proj = i
    BY <1>3, <1>6 DEF Follows
  <2>2. Writers(i)' = W \cup {c} /\ c \notin W
    BY <1>6, <2>1, WritersStep DEF Writers
  <2>3. usage' = usage /\ top' = top
    BY <1>3, <2>1 DEF Writes
  <2>4. Cardinality(W \cup {c}) = n + 1
    BY <1>2, <2>2, FS_AddElement
  <2>5. ReadUsage(c)
    BY <2>1, StepOpens
  <2>6. call[c].quota <= top[i] /\ call[c].quota \in Nat
    BY <2>1 DEF QuotaInv, Typed, AnyCall
  <2>7. u < call[c].quota
    <3>1. call \in [Calls -> AnyCall]
      BY DEF Typed
    <3>2. ~ Goto(c, "refusal") /\ ~ Answer(c, "429")
      BY <1>6, <3>1, GotoMoves, AnswerMoves, Literals
    <3> QED BY <2>1, <2>5, <3>2 DEF ReadUsage
  <2>8. OneWriter'
    BY OneWriterStep DEF QuotaInv
  <2>9. n + 1 <= m
    <3>1. Cardinality(Writers(i)') <= Cardinality(scope'.procs)
      <4>1. Typed' /\ OneWriter'
        BY <1>3, <2>8
      <4> QED BY <4>1, FewWritersPrime
    <3> QED BY <1>3, <2>2, <2>4, <3>1
  <2>10. Pending(i)' = u + (n + 1)
    BY <1>3, <2>2, <2>3, <2>4 DEF Pending
  <2> HIDE DEF W, n, m, u
  <2> QED BY <1>1, <1>2, <1>3, <2>6, <2>7, <2>9, <2>10 DEF m
<1>7. CASE /\ ~ (call[c].proj = i /\ call[c].pc = "countWrite")
           /\ ~ (call'[c].proj = i /\ call'[c].pc = "countWrite")
  <2>1. Writers(i)' = W
    BY <1>7, WritersStep
  <2>2. usage'[i][day'] = u
    <3>1. CASE call[c].pc = "countWrite"
      <4>1. usage' = [usage EXCEPT ![call[c].proj][day] = @ + 1] /\ call[c].proj # i
        BY <1>7, <3>1, StepOpens DEF CountUsage
      <4> QED BY <1>3, <4>1
    <3>2. CASE call[c].pc # "countWrite"
      BY <1>3, <3>2 DEF Writes
    <3> QED BY <3>1, <3>2
  <2>3. Pending(i)' = u + n
    BY <2>1, <2>2 DEF Pending
  <2> HIDE DEF W, n, m, u
  <2> QED BY <1>1, <1>2, <1>3, <1>4, <2>1, <2>3 DEF m
<1> QED BY <1>5, <1>6, <1>7

\* What CountUsage adds is a new record.
LEMMA CountAdds ==
  ASSUME Typed, QuotaInv, NEW c \in Calls, Step(c), call[c].pc = "countWrite"
  PROVE  \E e \in [call : Calls, proj : Projects, day : Days, nth : Nat] :
           /\ e = [call |-> c, proj |-> call[c].proj, day |-> day,
                   nth |-> usage[call[c].proj][day] + 1]
           /\ e \notin counted /\ counted' = counted \cup {e} /\ UNCHANGED day
           /\ usage' = [usage EXCEPT ![call[c].proj][day] = @ + 1]
           /\ call[c].proj \in Projects /\ day \in Days
<1> DEFINE i == call[c].proj
           e == [call |-> c, proj |-> i, day |-> day, nth |-> usage[i][day] + 1]
<1>1. /\ i \in Projects /\ day \in Days /\ usage \in [Projects -> [Days -> Nat]]
      /\ counted \subseteq [call : Calls, proj : Projects, day : Days, nth : Nat]
  BY DEF Typed, ControlTypeOK, Holds
<1>2. usage[i][day] \in Nat
  BY <1>1
<1>3. CountUsage(c)
  BY StepOpens
<1>4. e \in [call : Calls, proj : Projects, day : Days, nth : Nat]
  BY <1>1, <1>2
<1>5. e.nth = usage[i][day] + 1 /\ e.proj = i /\ e.day = day
  OBVIOUS
<1> HIDE DEF e
<1>6. e \notin counted
  BY <1>1, <1>2, <1>5 DEF QuotaInv
<1>7. counted' = counted \cup {e} /\ UNCHANGED day /\ usage' = [usage EXCEPT ![i][day] = @ + 1]
  BY <1>3 DEF CountUsage, e
<1> QED BY <1>1, <1>4, <1>6, <1>7 DEF e

LEMMA CountedStep ==
  ASSUME Typed, QuotaInv, NEW c \in Calls, Step(c)
  PROVE  /\ IsFiniteSet(counted')
         /\ \A e \in counted' : e.nth <= usage'[e.proj][e.day]
         /\ \A i \in Projects, d \in Days : usage'[i][d] = Cardinality(Charged(i, d)')
         /\ \A i \in Projects, d \in Days : d > day' => usage'[i][d] = 0
         /\ \A i \in Projects, d \in Days : usage'[i][d] > 0 => usage'[i][d] < top'[i] + Cardinality(scope'.procs)
<1>1. /\ usage \in [Projects -> [Days -> Nat]] /\ IsFiniteSet(counted)
      /\ counted \subseteq [call : Calls, proj : Projects, day : Days, nth : Nat]
      /\ \A e \in counted : e.nth <= usage[e.proj][e.day]
      /\ \A i \in Projects, d \in Days : usage[i][d] = Cardinality(Charged(i, d))
      /\ \A i \in Projects, d \in Days : d > day => usage[i][d] = 0
      /\ \A i \in Projects, d \in Days : usage[i][d] > 0 => usage[i][d] < top[i] + Cardinality(scope.procs)
      /\ Writes(call[c].pc) /\ scope' = scope /\ day' = day
      /\ \A i \in Projects : top[i] \in Nat /\ top'[i] \in Nat /\ top[i] <= top'[i]
      /\ Cardinality(scope.procs) \in Nat /\ Days \subseteq Nat /\ day \in Days
  <2>1. IsFiniteSet(scope.procs)
    BY TenantAssumption, FS_Subset DEF Typed, ControlTypeOK
  <2> QED BY <2>1, FS_CardinalityType, StepMoves, TopStep, ControlAssumption
          DEF Moves, Writes, QuotaInv, QuotaHolds, Typed, ControlTypeOK
<1>2. CASE call[c].pc # "countWrite"
  <2>1. usage' = usage /\ counted' = counted
    BY <1>1, <1>2 DEF Writes
  <2>2. \A i \in Projects, d \in Days : Charged(i, d)' = Charged(i, d)
    BY <2>1 DEF Charged
  <2>3. ASSUME NEW i \in Projects, NEW d \in Days, usage'[i][d] > 0
        PROVE  usage'[i][d] < top'[i] + Cardinality(scope'.procs)
    <3>1. usage[i][d] \in Nat /\ usage[i][d] < top[i] + Cardinality(scope.procs)
      BY <1>1, <2>1, <2>3
    <3> QED BY <1>1, <2>1, <3>1
  <2> QED BY <1>1, <2>1, <2>2, <2>3
<1>3. CASE call[c].pc = "countWrite"
  <2> DEFINE i == call[c].proj
  <2>1. PICK e \in [call : Calls, proj : Projects, day : Days, nth : Nat] :
           /\ e.call = c /\ e.proj = i /\ e.day = day /\ e.nth = usage[i][day] + 1
           /\ e \notin counted /\ counted' = counted \cup {e}
           /\ usage' = [usage EXCEPT ![i][day] = @ + 1] /\ i \in Projects
    BY <1>3, CountAdds
  <2>2. IsFiniteSet(counted')
    BY <1>1, <2>1, FS_AddElement
  <2>3. \A j \in Projects, d \in Days :
          usage'[j][d] = IF j = i /\ d = day THEN usage[j][d] + 1 ELSE usage[j][d]
    BY <1>1, <2>1
  <2>4. \A x \in counted' : x.nth <= usage'[x.proj][x.day]
    <3>1. SUFFICES ASSUME NEW x \in counted'
                   PROVE  x.nth <= usage'[x.proj][x.day]
      OBVIOUS
    <3>2. CASE x = e
      BY <1>1, <2>1, <2>3, <3>2
    <3>3. CASE x \in counted
      <4>1. x.proj \in Projects /\ x.day \in Days /\ x.nth \in Nat /\ x.nth <= usage[x.proj][x.day]
        BY <1>1, <3>3
      <4>2. usage[x.proj][x.day] \in Nat
        BY <1>1, <4>1
      <4>3. usage[x.proj][x.day] <= usage'[x.proj][x.day] /\ usage'[x.proj][x.day] \in Nat
        BY <2>3, <4>1, <4>2
      <4> QED BY <4>1, <4>2, <4>3
    <3> QED BY <2>1, <3>2, <3>3
  <2>5. \A j \in Projects, d \in Days : usage'[j][d] = Cardinality(Charged(j, d)')
    <3>1. SUFFICES ASSUME NEW j \in Projects, NEW d \in Days
                   PROVE  usage'[j][d] = Cardinality(Charged(j, d)')
      OBVIOUS
    <3>2. IsFiniteSet(Charged(j, d)) /\ usage[j][d] = Cardinality(Charged(j, d))
      <4>1. Charged(j, d) \subseteq counted
        BY DEF Charged
      <4> QED BY <1>1, <4>1, FS_Subset
    <3>3. CASE j = i /\ d = day
      <4>1. Charged(j, d)' = Charged(j, d) \cup {e} /\ e \notin Charged(j, d)
        BY <2>1, <3>3 DEF Charged
      <4>2. Cardinality(Charged(j, d) \cup {e}) = Cardinality(Charged(j, d)) + 1
        BY <3>2, <4>1, FS_AddElement
      <4> QED BY <2>3, <3>2, <3>3, <4>1, <4>2
    <3>4. CASE ~ (j = i /\ d = day)
      <4>1. Charged(j, d)' = Charged(j, d)
        BY <2>1, <3>4 DEF Charged
      <4> QED BY <2>3, <3>2, <3>4, <4>1
    <3> QED BY <3>3, <3>4
  <2>6. \A j \in Projects, d \in Days : d > day' => usage'[j][d] = 0
    BY <1>1, <2>3
  <2>7. ASSUME NEW j \in Projects, NEW d \in Days, usage'[j][d] > 0
        PROVE  usage'[j][d] < top'[j] + Cardinality(scope'.procs)
    <3>1. usage[j][d] \in Nat
      BY <1>1
    <3>2. CASE j = i /\ d = day
      <4>1. c \in Writers(i)
        BY <1>3 DEF Writers
      <4>2. IsFiniteSet(Writers(i)) /\ Cardinality(Writers(i)) \in Nat
        BY <2>1, FewWriters DEF QuotaInv
      <4>3. Cardinality(Writers(i)) # 0
        BY <4>1, <4>2, FS_EmptySet
      <4>4. Pending(i) > 0 => Pending(i) < top[i] + Cardinality(scope.procs)
        BY <2>1 DEF QuotaInv
      <4>5. usage'[j][d] = usage[i][day] + 1
        BY <2>3, <3>2
      <4> QED BY <1>1, <2>1, <3>1, <3>2, <4>2, <4>3, <4>4, <4>5 DEF Pending
    <3>3. CASE ~ (j = i /\ d = day)
      <4>1. usage'[j][d] = usage[j][d]
        BY <2>3, <3>3
      <4> QED BY <1>1, <2>7, <3>1, <4>1
    <3> QED BY <3>2, <3>3
  <2> QED BY <2>2, <2>4, <2>5, <2>6, <2>7
<1> QED BY <1>2, <1>3

LEMMA QuotaStep ==
  ASSUME Typed, QuotaInv, NEW c \in Calls, Step(c)
  PROVE  QuotaInv'
<1>1. OneWriter'
  BY OneWriterStep DEF QuotaInv
<1>2. \A i \in Projects :
        /\ IF Known(i)' THEN projects'[i].quota <= top'[i] ELSE top'[i] = 0
        /\ Writers(i)' # {} => 1 <= top'[i]
        /\ Pending(i)' > 0 => Pending(i)' < top'[i] + Cardinality(scope'.procs)
  BY TopStep, PendingStep
<1>3. \A d \in Calls : call'[d].pc \in {"count", "countWrite"} => call'[d].quota <= top'[call'[d].proj]
  BY CallQuotaStep
<1> QED BY <1>1, <1>2, <1>3, CountedStep DEF QuotaInv, QuotaHolds

LEMMA QuotaOther ==
  ASSUME Typed, QuotaInv, Otherwise
  PROVE  QuotaInv'
<1>1. /\ UNCHANGED <<scope, usage, counted>>
      /\ \A i \in Projects, d \in Days : Charged(i, d)' = Charged(i, d)
  BY BesideTyped DEF Otherwise, Starts, Crashes, controlVars, Charged
<1>2. \A c \in Calls : call'[c].pc \in {"count", "countWrite", "write"} =>
        call'[c].pc = call[c].pc /\ call'[c].proj = call[c].proj /\ call'[c].proc = call[c].proc
        /\ call'[c].quota = call[c].quota
  <2>1. ASSUME NEW d \in Calls, Starts(d)
        PROVE  \A c \in Calls : call'[c].pc \in {"count", "countWrite", "write"} => call'[c] = call[c]
    BY <2>1 DEF Starts, Others
  <2>2. CASE \E p \in Procs : Crashes(p)
    BY <2>2 DEF Crashes
  <2>3. CASE Beside
    BY <2>3, BesideTyped
  <2> QED BY <2>1, <2>2, <2>3 DEF Otherwise
<1>3. OneWriter'
  BY <1>2 DEF OneWriter, HoldsStore, QuotaInv
<1>4. \A i \in Projects :
        /\ top[i] \in Nat /\ top'[i] \in Nat /\ top[i] <= top'[i]
        /\ IF Known(i)' THEN projects'[i].quota <= top'[i] ELSE top'[i] = 0
  <2>1. top \in [Projects -> Nat] /\ projects \in [Projects -> ProjectRows \cup {None}]
        /\ scope \in Scopes
    BY DEF Typed, ControlTypeOK
  <2>2. CASE UNCHANGED <<projects, top>>
    BY <2>1, <2>2 DEF QuotaInv, Known
  <2>3. CASE \E i \in Projects : CreateProject(i)
    <3>1. PICK i \in Projects : CreateProject(i)
      BY <2>3
    <3>2. PICK row \in scope.created :
            /\ projects' = [projects EXCEPT ![i] = row] /\ top' = [top EXCEPT ![i] = row.quota]
            /\ projects[i] = None
      BY <3>1 DEF CreateProject
    <3>3. row \in ProjectRows
      BY <2>1, <3>2, ControlAssumption
    <3>4. row.quota \in Nat /\ row # None
      BY <3>3, TenantAssumption DEF ProjectRows
    <3> QED BY <2>1, <3>2, <3>4 DEF QuotaInv, Known
  <2> QED BY <2>2, <2>3 DEF Otherwise, Starts, Crashes, Beside, IssueKey, EndKey, NextDay,
             PurgeDataset, PurgeReview, registryVars, controlVars
<1>5. ASSUME NEW i \in Projects
      PROVE  /\ Writers(i)' # {} => 1 <= top'[i]
             /\ Pending(i)' > 0 => Pending(i)' < top'[i] + Cardinality(scope'.procs)
  <2>1. Writers(i)' \subseteq Writers(i)
    BY <1>2 DEF Writers
  <2>2. /\ IsFiniteSet(Writers(i)) /\ Cardinality(Writers(i)) \in Nat /\ Cardinality(scope.procs) \in Nat
        /\ Cardinality(Writers(i)) <= Cardinality(scope.procs)
    BY FewWriters DEF QuotaInv
  <2>3. /\ Cardinality(Writers(i)') \in Nat /\ Cardinality(Writers(i)') <= Cardinality(Writers(i))
        /\ Cardinality(Writers(i)') > 0 => Writers(i)' # {}
    BY <2>1, <2>2, FS_Subset, FS_CardinalityType, FS_EmptySet
  <2>4. /\ Writers(i) # {} => 1 <= top[i]
        /\ Pending(i) > 0 => Pending(i) < top[i] + Cardinality(scope.procs)
        /\ usage[i][day] \in Nat
    BY DEF QuotaInv, Typed, ControlTypeOK
  <2>5. CASE day' = day
    <3>1. Pending(i)' = usage[i][day] + Cardinality(Writers(i)')
      BY <1>1, <2>5 DEF Pending
    <3> QED BY <1>1, <1>4, <2>1, <2>2, <2>3, <2>4, <3>1 DEF Pending
  <2>6. CASE NextDay
    <3>1. day' \in Days /\ day' > day
      BY <2>6, ControlAssumption DEF NextDay, Typed, ControlTypeOK
    <3>2. usage[i][day'] = 0
      BY <3>1 DEF QuotaInv
    <3>3. Pending(i)' = Cardinality(Writers(i)')
      BY <1>1, <2>3, <3>2 DEF Pending
    <3> QED BY <1>1, <1>4, <2>1, <2>2, <2>3, <2>4, <3>3
  <2> QED BY <2>5, <2>6 DEF Otherwise, Starts, Crashes, Beside, CreateProject, IssueKey, EndKey,
             PurgeDataset, PurgeReview, registryVars, controlVars
<1>6. \A c \in Calls : call'[c].pc \in {"count", "countWrite"} => call'[c].quota <= top'[call'[c].proj]
  <2>1. SUFFICES ASSUME NEW c \in Calls, call'[c].pc \in {"count", "countWrite"}
                 PROVE  call'[c].quota <= top'[call'[c].proj]
    OBVIOUS
  <2>2. /\ call[c].pc \in {"count", "countWrite"} /\ call'[c].proj = call[c].proj
        /\ call'[c].quota = call[c].quota
    BY <1>2, <2>1
  <2>3. call[c].quota <= top[call[c].proj] /\ call[c].proj \in Projects /\ call[c].quota \in Nat
    BY <2>2 DEF QuotaInv, Typed, Holds, AnyCall
  <2> QED BY <1>4, <2>2, <2>3
<1>7. /\ \A i \in Projects, d \in Days : d > day' => usage'[i][d] = 0
      /\ day' \in Days
  <2>1. day' \in Days /\ day' >= day /\ Days \subseteq Nat /\ day \in Days
    BY ControlAssumption DEF Otherwise, Starts, Crashes, Beside, CreateProject, IssueKey, EndKey, NextDay,
             PurgeDataset, PurgeReview, registryVars, controlVars, Typed, ControlTypeOK
  <2> QED BY <1>1, <2>1 DEF QuotaInv
<1>8. QuotaHolds'
  <2>1. SUFFICES ASSUME NEW i \in Projects, NEW d \in Days
                 PROVE  /\ usage'[i][d] > 0 => usage'[i][d] < top'[i] + Cardinality(scope'.procs)
                        /\ usage'[i][d] = Cardinality(Charged(i, d)')
    BY DEF QuotaHolds
  <2>2. /\ usage[i][d] > 0 => usage[i][d] < top[i] + Cardinality(scope.procs)
        /\ usage[i][d] = Cardinality(Charged(i, d)) /\ usage[i][d] \in Nat
    BY DEF QuotaInv, QuotaHolds, Typed, ControlTypeOK
  <2>3. Cardinality(scope.procs) \in Nat
    BY FewWriters DEF QuotaInv
  <2> QED BY <1>1, <1>4, <2>2, <2>3
<1> QED BY <1>1, <1>3, <1>4, <1>5, <1>6, <1>7, <1>8 DEF QuotaInv

-----------------------------------------------------------------------------
(* Ids and owners *)

\* How a step of c changes the stores and the owners.
LEMMA StoresStep ==
  ASSUME Typed, NEW c \in Calls, Step(c)
  PROVE  /\ \A d \in Datasets :
              \/ ~ Live(d)' \/ datasets'[d] = datasets[d]
              \/ /\ call[c].pc = "create" /\ call[c].kind = "create_dataset" /\ d = call[c].res
                 /\ datasets'[d] = {} /\ d \in used'
              \/ /\ call[c].pc = "add" /\ d = call[c].res /\ Live(d)
                 /\ datasets[d] \subseteq datasets'[d] /\ datasets'[d] \subseteq datasets[d] \cup call[c].rows
         /\ \/ used' = used
            \/ call[c].pc = "create" /\ call[c].kind \in Creates /\ used' = used \cup {call[c].res}
         /\ call[c].pc = "create" => call[c].res \in used'
         /\ \A r \in Resources :
              \/ owner'[r] = owner[r]
              \/ /\ call[c].pc = "insert" /\ r = call[c].res /\ owner[r] = None
                 /\ owner'[r] = call[c].proj
              \/ call[c].pc = "unregister" /\ r = call[c].res /\ owner'[r] = None
<1> DEFINE a == call[c]
<1>1. /\ Writes(a.pc) /\ Routes(a.kind, a.pc) /\ Holds(a)
      /\ datasets \in [Datasets -> (SUBSET ExampleRows) \cup {None}]
      /\ owner \in [Resources -> Projects \cup {None}]
  BY StepMoves DEF Moves, Typed, ControlTypeOK, DataTypeOK
<1>2. ASSUME NEW d \in Datasets
      PROVE  \/ ~ Live(d)' \/ datasets'[d] = datasets[d]
             \/ /\ a.pc = "create" /\ a.kind = "create_dataset" /\ d = a.res
                /\ datasets'[d] = {} /\ d \in used'
             \/ /\ a.pc = "add" /\ d = a.res /\ Live(d)
                /\ datasets[d] \subseteq datasets'[d] /\ datasets'[d] \subseteq datasets[d] \cup a.rows
  <2>1. CASE a.pc = "create"
    <3>1. CreateDataset(c) \/ CreateReview(c)
      BY <2>1, StepOpens
    <3>2. CASE CreateDataset(c)
      BY <1>1, <2>1, <3>2 DEF CreateDataset
    <3>3. CASE CreateReview(c)
      BY <3>3 DEF CreateReview
    <3> QED BY <3>1, <3>2, <3>3
  <2>2. CASE a.pc \in {"undo", "delete"}
    <3>1. DropDataset(a.res)
      BY <2>2, StepOpens DEF UndoDataset, DeleteDataset
    <3> QED BY <1>1, <3>1 DEF DropDataset, Live
  <2>3. CASE a.pc = "add"
    <3>1. AddExamples(c)
      BY <2>3, StepOpens
    <3>2. CASE Live(a.res)
      <4>1. PICK S \in OneEach(NewRows(a.res, a.rows)) :
                   datasets' = [datasets EXCEPT ![a.res] = @ \cup S]
        BY <3>1, <3>2 DEF AddExamples
      <4>2. S \subseteq a.rows
        BY <4>1 DEF NewRows, OneEach
      <4> QED BY <1>1, <2>3, <3>2, <4>1, <4>2
    <3>3. CASE ~ Live(a.res)
      BY <3>1, <3>3 DEF AddExamples
    <3> QED BY <3>2, <3>3
  <2>4. CASE a.pc \notin {"create", "undo", "delete", "add"}
    BY <1>1, <2>4 DEF Writes
  <2> QED BY <2>1, <2>2, <2>3, <2>4
<1>3. /\ \/ used' = used
         \/ a.pc = "create" /\ a.kind \in Creates /\ used' = used \cup {a.res}
      /\ a.pc = "create" => a.res \in used'
  <2>1. CASE a.pc = "create"
    <3>1. CreateDataset(c) \/ CreateReview(c)
      BY <2>1, StepOpens
    <3> QED BY <1>1, <2>1, <3>1 DEF CreateDataset, CreateReview, Routes
  <2>2. CASE a.pc # "create"
    BY <1>1, <2>2 DEF Writes
  <2> QED BY <2>1, <2>2
<1>4. ASSUME NEW r \in Resources
      PROVE  \/ owner'[r] = owner[r]
             \/ /\ a.pc = "insert" /\ r = a.res /\ owner[r] = None /\ owner'[r] = a.proj
             \/ a.pc = "unregister" /\ r = a.res /\ owner'[r] = None
  <2>1. CASE a.pc = "insert"
    <3>1. InsertOwner(c)
      BY <2>1, StepOpens
    <3> QED BY <1>1, <2>1, <3>1 DEF InsertOwner
  <2>2. CASE a.pc = "unregister"
    <3>1. UnregisterDataset(c)
      BY <2>2, StepOpens
    <3> QED BY <1>1, <2>2, <3>1 DEF UnregisterDataset
  <2>3. CASE a.pc \notin {"insert", "unregister"}
    BY <1>1, <2>3 DEF Writes
  <2> QED BY <2>1, <2>2, <2>3
<1> QED BY <1>2, <1>3, <1>4

\* A call that is creating a dataset or a review is alone with its id.
LEMMA SameCreate ==
  ASSUME Typed, DataInv, NEW c \in Calls, NEW d \in Calls, call[c].kind \in Creates,
         call[d].kind \in Creates, call[c].res = call[d].res
  PROVE  c = d
<1>1. Holds(call[c]) /\ Holds(call[d])
  BY DEF Typed
<1>2. call[c].kind = call[d].kind
  BY <1>1, TenantAssumption DEF Holds, Creates, OnDataset
<1> QED BY <1>2 DEF DataInv

\* What the call itself may rely on at its next statement.
LEMMA StoringSelf ==
  ASSUME Typed, DataInv, NEW c \in Calls, Step(c)
  PROVE  Storing(call[c])'
<1> DEFINE a == call[c]
           b == call'[c]
<1>1. /\ Moves(c) /\ Typed'
      /\ Routes(a.kind, a.pc) /\ Holds(a) /\ Storing(a)
      /\ Others(c) /\ Writes(a.pc) /\ Follows(a.pc, b.pc) /\ b.kind = a.kind
      /\ Routes(b.kind, b.pc)
      /\ owner \in [Resources -> Projects \cup {None}]
      /\ a.pc \notin {"row", "connect"} => b.proj = a.proj
      /\ a.pc \notin {"deployment", "previous", "training"} => b.res = a.res
      /\ a.pc \notin {"list", "rows"} => b.rows = a.rows
  BY StepMoves, StepTyped DEF Moves, Fields, Typed, ControlTypeOK, DataInv
<1>2. /\ \A d \in Datasets :
              \/ ~ Live(d)' \/ datasets'[d] = datasets[d]
              \/ /\ a.pc = "create" /\ a.kind = "create_dataset" /\ d = a.res
                 /\ datasets'[d] = {} /\ d \in used'
              \/ /\ a.pc = "add" /\ d = a.res /\ Live(d)
                 /\ datasets[d] \subseteq datasets'[d] /\ datasets'[d] \subseteq datasets[d] \cup a.rows
      /\ \/ used' = used
         \/ a.pc = "create" /\ a.kind \in Creates /\ used' = used \cup {a.res}
      /\ a.pc = "create" => a.res \in used'
      /\ \A r \in Resources :
              \/ owner'[r] = owner[r]
              \/ /\ a.pc = "insert" /\ r = a.res /\ owner[r] = None
                 /\ owner'[r] = a.proj
              \/ a.pc = "unregister" /\ r = a.res /\ owner'[r] = None
  BY StoresStep
<1>3. \A r \in Datasets \cup Reviews : r \notin used => owner[r] = None
  BY DEF DataInv
<1>4. b.kind \in Creates /\ b.pc \in {"row", "create"} => b.res \notin used'
  <2>1. SUFFICES ASSUME b.kind \in Creates, b.pc \in {"row", "create"}
                 PROVE  b.res \notin used'
    OBVIOUS
  <2>2. b.pc = "create" /\ a.pc = "row"
    BY <1>1, <2>1 DEF Follows, Routes, Creates
  <2> QED BY <1>1, <1>2, <2>1, <2>2 DEF Storing
<1>5. b.kind \in Creates /\ b.pc \in Registers \cup {"undo"} => b.res \in used'
  BY <1>1, <1>2 DEF Follows, Routes, Creates, Registers, Storing
<1>6. b.kind = "create_dataset" /\ b.pc \in Registers \cup {"undo"} => owner'[b.res] = None
  <2>1. SUFFICES ASSUME b.kind = "create_dataset", b.pc \in Registers \cup {"undo"}
                 PROVE  owner'[b.res] = None
    OBVIOUS
  <2>2. a.pc \in {"create", "require", "select", "insert"} /\ a.res \in Datasets /\ b.res = a.res
    BY <1>1, <2>1 DEF Follows, Routes, Registers, Holds, OnDataset
  <2>3. owner[a.res] = None
    BY <1>1, <1>3, <2>1, <2>2 DEF Storing, Registers, Creates
  <2>4. a.pc = "insert" => FALSE
    <3>1. SUFFICES ASSUME a.pc = "insert"
                   PROVE  FALSE
      OBVIOUS
    <3>2. InsertOwner(c)
      BY <3>1, StepOpens
    <3>3. Answer(c, "ok")
      BY <1>1, <2>1, <2>3, <3>2 DEF InsertOwner, Registered
    <3>4. b.pc = "done"
      BY <3>3, AnswerMoves DEF Typed
    <3> QED BY <2>1, <3>4 DEF Registers
  <2> QED BY <1>2, <2>2, <2>3, <2>4 DEF Resources
<1>7. b.pc \in {"exists", "list", "add", "rows"} =>
        b.res \in used' /\ (datasets'[b.res] # None => owner'[b.res] = b.proj)
  <2>1. SUFFICES ASSUME b.pc \in {"exists", "list", "add", "rows"}
                 PROVE  b.res \in used' /\ (datasets'[b.res] # None => owner'[b.res] = b.proj)
    OBVIOUS
  <2>2. /\ a.pc \in {"owned", "exists", "list"} /\ b.res = a.res /\ a.res \in Datasets
        /\ b.proj = a.proj /\ a.proj \in Projects
    BY <1>1, <2>1 DEF Follows, Routes, Holds, OnDataset
  <2>3. owner' = owner /\ datasets' = datasets /\ used' = used
    BY <1>1, <2>2 DEF Writes
  <2>4. CASE a.pc = "owned"
    <3>1. a.kind \notin Counted
      BY <1>1, <2>1 DEF Routes, Counted
    <3>2. AssertOwner(c)
      BY <2>4, <3>1, StepOpens DEF AssertModel, RefuseBody, Counted
    <3>3. owner[a.res] = a.proj
      BY <2>1, <3>2, OwnerMoves
    <3> QED BY <1>3, <2>2, <2>3, <3>3, NoneIsNoProject
  <2>5. CASE a.pc # "owned"
    BY <1>1, <2>2, <2>3, <2>5 DEF Storing, Live
  <2> QED BY <2>4, <2>5
<1>8. b.pc = "delete" => b.res \in used'
  <2>1. SUFFICES ASSUME b.pc = "delete"
                 PROVE  b.res \in used'
    OBVIOUS
  <2>2. /\ a.pc = "owned" /\ b.res = a.res /\ a.res \in Datasets
        /\ a.proj \in Projects /\ a.kind \notin Counted
    BY <1>1, <2>1 DEF Follows, Routes, Holds, OnDataset, Counted
  <2>3. AssertOwner(c)
    BY <2>2, StepOpens DEF AssertModel, RefuseBody, Counted
  <2>4. owner[a.res] = a.proj
    BY <2>1, <2>3, OwnerMoves
  <2> QED BY <1>2, <1>3, <2>2, <2>4, NoneIsNoProject
<1>9. b.pc = "unregister" => b.res \in used' /\ datasets'[b.res] = None
  <2>1. SUFFICES ASSUME b.pc = "unregister"
                 PROVE  b.res \in used' /\ datasets'[b.res] = None
    OBVIOUS
  <2>2. a.pc = "delete" /\ b.res = a.res /\ a.res \in Datasets
    BY <1>1, <2>1 DEF Follows, Routes, Holds, OnDataset
  <2>3. DropDataset(a.res)
    BY <2>2, StepOpens DEF DeleteDataset
  <2> QED BY <1>1, <1>2, <2>2, <2>3 DEF Storing, DropDataset, Live, Typed, DataTypeOK
<1>10. b.kind = "add" => \A x \in b.rows : x.review = None
  BY <1>1 DEF Storing, Routes
<1>11. b.pc = "add" => \A x \in b.rows : x.review # None => owner'[x.review] = b.proj
  <2>1. SUFFICES ASSUME b.pc = "add"
                 PROVE  \A x \in b.rows : x.review # None => owner'[x.review] = b.proj
    OBVIOUS
  <2>2. a.pc \in {"exists", "list"} /\ b.proj = a.proj
    BY <1>1, <2>1 DEF Follows
  <2>3. owner' = owner
    BY <1>1, <2>2 DEF Writes
  <2>4. CASE a.pc = "exists"
    <3>1. b.kind = "add"
      BY <1>1, <2>1, <2>4, StepOpens, GetMoves
    <3> QED BY <1>10, <3>1
  <2>5. CASE a.pc = "list"
    BY <2>1, <2>2, <2>3, <2>5, StepOpens, ListMoves
  <2> QED BY <2>2, <2>4, <2>5
<1> QED BY <1>4, <1>5, <1>6, <1>7, <1>8, <1>9, <1>10, <1>11 DEF Storing, Live

\* What another call may rely on does not change under it.
LEMMA StoringOthers ==
  ASSUME Typed, DataInv, NEW c \in Calls, Step(c), NEW x \in Calls, x # c
  PROVE  Storing(call[x])'
<1> DEFINE a == call[c]
           b == call[x]
<1>1. /\ Routes(a.kind, a.pc) /\ Holds(a) /\ Storing(a)
      /\ Routes(b.kind, b.pc) /\ Holds(b) /\ Storing(b)
      /\ call'[x] = b
  BY StepMoves DEF Moves, Fields, Others, Typed, DataInv
<1>2. /\ \A d \in Datasets :
              \/ ~ Live(d)' \/ datasets'[d] = datasets[d]
              \/ /\ a.pc = "create" /\ a.kind = "create_dataset" /\ d = a.res
                 /\ datasets'[d] = {} /\ d \in used'
              \/ /\ a.pc = "add" /\ d = a.res /\ Live(d)
                 /\ datasets[d] \subseteq datasets'[d] /\ datasets'[d] \subseteq datasets[d] \cup a.rows
      /\ \/ used' = used
         \/ a.pc = "create" /\ a.kind \in Creates /\ used' = used \cup {a.res}
      /\ a.pc = "create" => a.res \in used'
      /\ \A r \in Resources :
              \/ owner'[r] = owner[r]
              \/ /\ a.pc = "insert" /\ r = a.res /\ owner[r] = None
                 /\ owner'[r] = a.proj
              \/ a.pc = "unregister" /\ r = a.res /\ owner'[r] = None
  BY StoresStep
<1>3. used \subseteq used'
  BY <1>2
<1>4. b.kind \in Creates /\ b.pc \in {"row", "create"} => b.res \notin used'
  BY <1>1, <1>2, SameCreate DEF Storing
<1>5. b.kind \in Creates /\ b.pc \in Registers \cup {"undo"} => b.res \in used'
  BY <1>1, <1>3 DEF Storing
<1>6. b.kind = "create_dataset" /\ b.pc \in Registers \cup {"undo"} => owner'[b.res] = None
  <2>1. SUFFICES ASSUME b.kind = "create_dataset", b.pc \in Registers \cup {"undo"}
                 PROVE  owner'[b.res] = None
    OBVIOUS
  <2>2. b.res \in Datasets /\ owner[b.res] = None /\ b.res \in Resources
    BY <1>1, <2>1 DEF Holds, OnDataset, Storing, Creates, Resources
  <2>3. ~ (a.pc = "insert" /\ b.res = a.res)
    <3>1. SUFFICES ASSUME a.pc = "insert", b.res = a.res
                   PROVE  FALSE
      OBVIOUS
    <3>2. a.kind \in Creates \/ a.res \in Models
      BY <1>1, <3>1 DEF Routes, Holds
    <3>3. a.res \notin Models
      BY <2>2, <3>1, TenantAssumption
    <3> QED BY <2>1, <3>1, <3>2, <3>3, SameCreate DEF Creates
  <2> QED BY <1>2, <2>2, <2>3
<1>7. b.pc \in {"exists", "list", "add", "rows"} =>
        b.res \in used' /\ (datasets'[b.res] # None => owner'[b.res] = b.proj)
  <2>1. SUFFICES ASSUME b.pc \in {"exists", "list", "add", "rows"}
                 PROVE  b.res \in used' /\ (datasets'[b.res] # None => owner'[b.res] = b.proj)
    OBVIOUS
  <2>2. b.res \in Datasets /\ b.proj \in Projects /\ b.res \in used /\ b.res \in Resources
    BY <1>1, <2>1 DEF Routes, Holds, OnDataset, Storing, Resources
  <2>3. SUFFICES ASSUME datasets'[b.res] # None
                 PROVE  owner'[b.res] = b.proj
    BY <1>3, <2>2
  <2>4. ~ (a.pc = "create" /\ a.kind = "create_dataset" /\ b.res = a.res)
    BY <1>1, <2>2 DEF Storing, Creates
  <2>5. Live(b.res) /\ owner[b.res] = b.proj
    BY <1>1, <1>2, <2>1, <2>2, <2>3, <2>4 DEF Live, Storing
  <2>6. ~ (a.pc = "unregister" /\ b.res = a.res)
    BY <1>1, <2>5 DEF Storing
  <2> QED BY <1>2, <2>2, <2>5, <2>6, NoneIsNoProject
<1>8. b.pc = "delete" => b.res \in used'
  BY <1>1, <1>3 DEF Storing
<1>9. b.pc = "unregister" => b.res \in used' /\ datasets'[b.res] = None
  <2>1. SUFFICES ASSUME b.pc = "unregister"
                 PROVE  b.res \in used' /\ datasets'[b.res] = None
    OBVIOUS
  <2>2. b.res \in Datasets /\ b.res \in used /\ datasets[b.res] = None
    BY <1>1, <2>1 DEF Routes, Holds, OnDataset, Storing, Live
  <2>3. ~ (a.pc = "create" /\ a.kind = "create_dataset" /\ b.res = a.res)
    BY <1>1, <2>2 DEF Storing, Creates
  <2> QED BY <1>2, <1>3, <2>2, <2>3 DEF Live
<1>10. b.kind = "add" => \A y \in b.rows : y.review = None
  BY <1>1 DEF Storing
<1>11. b.pc = "add" => \A y \in b.rows : y.review # None => owner'[y.review] = b.proj
  <2>1. SUFFICES ASSUME b.pc = "add", NEW y \in b.rows, y.review # None
                 PROVE  owner'[y.review] = b.proj
    OBVIOUS
  <2>2. b.rows \subseteq ExampleRows /\ b.proj \in Projects
    BY <1>1, <2>1 DEF Holds
  <2>3. y.review \in Reviews
    BY <2>1, <2>2 DEF ExampleRows
  <2>4. y.review \in Resources /\ y.review \notin Datasets
    BY <2>3, TenantAssumption DEF Resources
  <2>5. owner[y.review] = b.proj
    BY <1>1, <2>1 DEF Storing
  <2> QED BY <2>2, <2>4, <2>5, NoneIsNoProject, OwnersStay
<1> QED BY <1>1, <1>4, <1>5, <1>6, <1>7, <1>8, <1>9, <1>10, <1>11 DEF Storing, Live

\* A dataset without an owner stays one that is being made.
LEMMA MakingStep ==
  ASSUME Typed, DataInv, NEW c \in Calls, Step(c), NEW d \in Datasets, Live(d)', owner'[d] = None
  PROVE  Making("create_dataset", d)' /\ datasets'[d] = {} /\ d \in used'
<1> DEFINE a == call[c]
           b == call'[c]
<1>1. /\ Moves(c) /\ Others(c) /\ Routes(a.kind, a.pc) /\ Holds(a) /\ Storing(a)
      /\ Follows(a.pc, b.pc) /\ b.kind = a.kind
      /\ a.pc \notin {"deployment", "previous", "training"} => b.res = a.res
      /\ owner \in [Resources -> Projects \cup {None}]
  BY StepMoves DEF Moves, Fields, Typed, ControlTypeOK, DataInv
<1>2. /\ \/ datasets'[d] = datasets[d]
         \/ /\ a.pc = "create" /\ a.kind = "create_dataset" /\ d = a.res
            /\ datasets'[d] = {} /\ d \in used'
         \/ /\ a.pc = "add" /\ d = a.res /\ Live(d)
      /\ used \subseteq used'
      /\ \/ owner'[d] = owner[d]
         \/ /\ a.pc = "insert" /\ d = a.res /\ owner'[d] = a.proj
         \/ a.pc = "unregister" /\ d = a.res
  BY StoresStep DEF Resources
<1>3. CASE a.pc = "create" /\ a.kind = "create_dataset" /\ d = a.res /\ datasets'[d] = {} /\ d \in used'
  <2>1. CreateDataset(c) \/ CreateReview(c)
    BY <1>3, StepOpens
  <2>2. b.pc = "require"
    BY <2>1, CreateMoves
  <2> QED BY <1>1, <1>3, <2>2 DEF Making
<1>4. CASE Live(d)
  <2>1. owner[d] = None
    <3>1. ~ (a.pc = "unregister" /\ d = a.res)
      BY <1>1, <1>4 DEF Storing
    <3>2. a.pc = "insert" => a.proj # None
      BY <1>1, NoneIsNoProject DEF Holds
    <3> QED BY <1>2, <3>1, <3>2
  <2>2. Making("create_dataset", d) /\ datasets[d] = {} /\ d \in used
    BY <1>4, <2>1 DEF DataInv, TenantIsolation
  <2>3. datasets'[d] = {}
    <3>1. ~ (a.pc = "add" /\ d = a.res)
      BY <1>1, <1>4, <2>1, NoneIsNoProject DEF Storing, Holds
    <3> QED BY <1>2, <2>2, <3>1
  <2>4. Making("create_dataset", d)'
    <3>1. PICK y \in Calls : /\ call[y].kind = "create_dataset" /\ call[y].res = d
                             /\ call[y].pc \in {"require", "select", "insert", "undo", "crashed"}
      BY <2>2 DEF Making
    <3>2. CASE y # c
      BY <1>1, <3>1, <3>2 DEF Others, Making
    <3>3. CASE y = c
      <4>1. a.pc \in {"require", "select", "insert", "undo"}
        BY <1>1, <3>1, <3>3 DEF Follows
      <4>2. CASE a.pc = "undo"
        <5>1. DropDataset(a.res)
          BY <4>2, StepOpens DEF UndoDataset
        <5> QED BY <3>1, <3>3, <5>1 DEF DropDataset, Live, Typed, DataTypeOK
      <4>3. CASE a.pc = "insert"
        <5>1. InsertOwner(c)
          BY <4>3, StepOpens
        <5>2. owner'[d] = a.proj /\ a.proj \in Projects
          BY <1>1, <2>1, <3>1, <3>3, <4>3, <5>1 DEF InsertOwner, Resources, Holds
        <5> QED BY <5>2, NoneIsNoProject
      <4>4. CASE a.pc = "select"
        <5>1. SelectOwner(c)
          BY <4>4, StepOpens
        <5>2. Goto(c, "insert")
          BY <2>1, <3>1, <3>3, <5>1 DEF SelectOwner
        <5>3. b.pc = "insert"
          BY <5>2, GotoMoves, Literals DEF Typed
        <5> QED BY <1>1, <3>1, <3>3, <4>4, <5>3 DEF Making
      <4>5. CASE a.pc = "require"
        <5>1. RequireProject(c)
          BY <4>5, StepOpens
        <5>2. Goto(c, "select") \/ Goto(c, "undo")
          BY <3>1, <3>3, <5>1 DEF RequireProject, RegisterFails
        <5>3. b.pc \in {"select", "undo"}
          BY <5>2, GotoMoves, Literals DEF Typed
        <5> QED BY <1>1, <3>1, <3>3, <4>5, <5>3 DEF Making
      <4> QED BY <4>1, <4>2, <4>3, <4>4, <4>5
    <3> QED BY <3>2, <3>3
  <2> QED BY <1>2, <2>2, <2>3, <2>4
<1>5. CASE ~ Live(d) /\ datasets'[d] = datasets[d]
  BY <1>5 DEF Live
<1> QED BY <1>2, <1>3, <1>4, <1>5

LEMMA StoringStep ==
  ASSUME Typed, DataInv, NEW c \in Calls, Step(c)
  PROVE  DataInv'
<1> DEFINE a == call[c]
<1>1. /\ Moves(c) /\ Others(c) /\ Routes(a.kind, a.pc) /\ Holds(a) /\ Storing(a)
      /\ call'[c].kind = a.kind
      /\ a.pc \notin {"deployment", "previous", "training"} => call'[c].res = a.res
      /\ owner \in [Resources -> Projects \cup {None}]
      /\ datasets \in [Datasets -> (SUBSET ExampleRows) \cup {None}]
  BY StepMoves DEF Moves, Fields, Typed, ControlTypeOK, DataTypeOK, DataInv
<1>2. /\ \A d \in Datasets :
              \/ ~ Live(d)' \/ datasets'[d] = datasets[d]
              \/ /\ a.pc = "create" /\ a.kind = "create_dataset" /\ d = a.res
                 /\ datasets'[d] = {} /\ d \in used'
              \/ /\ a.pc = "add" /\ d = a.res /\ Live(d)
                 /\ datasets[d] \subseteq datasets'[d] /\ datasets'[d] \subseteq datasets[d] \cup a.rows
      /\ \/ used' = used
         \/ a.pc = "create" /\ a.kind \in Creates /\ used' = used \cup {a.res}
      /\ \A r \in Resources :
              \/ owner'[r] = owner[r]
              \/ /\ a.pc = "insert" /\ r = a.res /\ owner[r] = None
                 /\ owner'[r] = a.proj
              \/ a.pc = "unregister" /\ r = a.res /\ owner'[r] = None
  BY StoresStep
<1>3. \A x, y \in Calls : call'[x].kind \in Creates /\ call'[x].kind = call'[y].kind
                            /\ call'[x].res = call'[y].res => x = y
  <2>1. \A x \in Calls : call'[x].kind \in Creates =>
          call'[x].kind = call[x].kind /\ call'[x].res = call[x].res
    BY <1>1 DEF Others, Routes, Creates
  <2> QED BY <2>1 DEF DataInv
<1>4. \A r \in Datasets \cup Reviews : r \notin used' => owner'[r] = None
  <2>1. SUFFICES ASSUME NEW r \in Datasets \cup Reviews, r \notin used'
                 PROVE  owner'[r] = None
    OBVIOUS
  <2>2. r \notin used /\ owner[r] = None /\ r \in Resources /\ r \notin Models
    BY <1>2, <2>1, TenantAssumption DEF DataInv, Resources
  <2>3. ~ (a.pc = "insert" /\ r = a.res)
    BY <1>1, <2>2 DEF Routes, Holds, Storing, Registers
  <2> QED BY <1>2, <2>2, <2>3
<1>5. ASSUME NEW d \in Datasets, Live(d)'
      PROVE  d \in used'
  <2>1. CASE Live(d)
    BY <1>2, <2>1 DEF DataInv
  <2>2. CASE ~ Live(d)
    BY <1>2, <1>5, <2>2 DEF Live
  <2> QED BY <2>1, <2>2
<1>6. ASSUME NEW d \in Datasets, Live(d)', owner'[d] = None
      PROVE  datasets'[d] = {} /\ Making("create_dataset", d)'
  BY <1>6, MakingStep
<1>7. ASSUME NEW d \in Datasets, Live(d)', NEW x \in datasets'[d], x.review # None
      PROVE  owner'[x.review] = owner'[d]
  <2>1. CASE x \in datasets[d] /\ Live(d)
    <3>1. owner[x.review] = owner[d] /\ owner[d] # None
      BY <1>7, <2>1 DEF DataInv, TenantIsolation
    <3>2. x.review \in Reviews
      BY <1>1, <1>7, <2>1 DEF Live, ExampleRows
    <3>3. x.review \in Resources /\ x.review \notin Datasets /\ d \in Resources
      BY <3>2, TenantAssumption DEF Resources
    <3>4. owner'[x.review] = owner[x.review]
      BY <3>1, <3>3, OwnersStay
    <3>5. ~ (a.pc = "unregister" /\ d = a.res)
      BY <1>1, <2>1 DEF Storing
    <3>6. owner'[d] = owner[d]
      BY <1>2, <3>1, <3>3, <3>5
    <3> QED BY <3>1, <3>4, <3>6
  <2>2. CASE a.pc = "add" /\ d = a.res /\ Live(d) /\ x \in a.rows
    <3>1. owner[x.review] = a.proj /\ owner[d] = a.proj
      BY <1>1, <1>7, <2>2 DEF Storing
    <3>2. owner' = owner
      BY <1>1, <2>2 DEF Moves, Writes
    <3> QED BY <3>1, <3>2
  <2>3. CASE datasets'[d] = datasets[d]
    BY <1>7, <2>1, <2>3 DEF Live
  <2>4. CASE datasets'[d] = {}
    BY <1>7, <2>4
  <2> QED BY <1>2, <1>7, <2>1, <2>2, <2>3, <2>4
<1>8. \A x \in Calls : Storing(call[x])'
  BY StoringSelf, StoringOthers
<1>9. TenantIsolation'
  BY <1>6, <1>7 DEF TenantIsolation
<1> QED BY <1>3, <1>4, <1>5, <1>6, <1>8, <1>9 DEF DataInv

LEMMA StoringOther ==
  ASSUME Typed, DataInv, Otherwise
  PROVE  DataInv'
<1>1. /\ UNCHANGED <<owner, used>>
      /\ \A d \in Datasets : datasets'[d] = datasets[d] \/ datasets'[d] = None
  <2>1. UNCHANGED <<owner, used>>
    BY BesideTyped DEF Otherwise, Starts, Crashes, dataVars
  <2>2. \A d \in Datasets : datasets'[d] = datasets[d] \/ datasets'[d] = None
    <3>1. datasets \in [Datasets -> (SUBSET ExampleRows) \cup {None}]
      BY DEF Typed, DataTypeOK
    <3>2. CASE datasets' = datasets
      BY <3>2
    <3>3. CASE \E d \in Datasets : PurgeDataset(d)
      BY <3>1, <3>3 DEF PurgeDataset, DropDataset
    <3> QED BY <3>2, <3>3 DEF Otherwise, Starts, Crashes, Beside, PurgeReview, dataVars
  <2> QED BY <2>1, <2>2
<1>2. \A d \in Datasets : Live(d)' => Live(d) /\ datasets'[d] = datasets[d]
  BY <1>1 DEF Live
<1>3. ASSUME NEW c \in Calls
      PROVE  \/ call'[c] = call[c]
             \/ Starts(c)
             \/ /\ call'[c].kind = call[c].kind /\ call'[c].res = call[c].res
                /\ call'[c].pc = "crashed" /\ call'[c].rows = call[c].rows
             \/ /\ call'[c].kind = call[c].kind /\ call'[c].res = call[c].res
                /\ call'[c].pc = call[c].pc /\ call'[c].rows = call[c].rows
                /\ call'[c].proj = call[c].proj
  BY BesideTyped DEF Otherwise, Starts, Others, Crashes
<1>4. ASSUME NEW c \in Calls
      PROVE  Storing(call[c])'
  <2>1. Storing(call[c]) /\ Routes(call[c].kind, call[c].pc) /\ Holds(call[c])
    BY DEF DataInv, Typed
  <2>2. CASE Starts(c)
    BY <1>1, <2>2 DEF Starts, Storing, Registers, Fresh
  <2>3. CASE /\ call'[c].kind = call[c].kind /\ call'[c].res = call[c].res
             /\ call'[c].pc = "crashed" /\ call'[c].rows = call[c].rows
    BY <2>1, <2>3 DEF Storing, Registers
  <2>4. CASE /\ call'[c].kind = call[c].kind /\ call'[c].res = call[c].res
             /\ call'[c].pc = call[c].pc /\ call'[c].rows = call[c].rows
             /\ call'[c].proj = call[c].proj
    <3>1. call[c].pc \in {"exists", "list", "add", "rows", "unregister"} => call[c].res \in Datasets
      BY <2>1 DEF Routes, Holds, OnDataset
    <3> QED BY <1>1, <1>2, <2>1, <2>4, <3>1 DEF Storing, Live
  <2> QED BY <1>3, <2>2, <2>3, <2>4
<1>5. \A x, y \in Calls : call'[x].kind \in Creates /\ call'[x].kind = call'[y].kind
                            /\ call'[x].res = call'[y].res => x = y
  <2>1. SUFFICES ASSUME NEW x \in Calls, NEW y \in Calls, x # y, call'[x].kind \in Creates,
                        call'[x].kind = call'[y].kind, call'[x].res = call'[y].res
                 PROVE  FALSE
    OBVIOUS
  <2>2. CASE ~ Starts(x) /\ ~ Starts(y)
    BY <1>3, <2>1, <2>2 DEF DataInv
  <2>3. ASSUME NEW u \in Calls, NEW v \in Calls, u # v, call'[u].kind \in Creates,
               call'[u].kind = call'[v].kind, call'[u].res = call'[v].res, Starts(u)
        PROVE  FALSE
    <3>1. call'[v] = call[v] /\ Fresh(call'[u].kind, call'[u].res)
      BY <2>3 DEF Starts, Others
    <3> QED BY <2>3, <3>1 DEF Fresh
  <2> QED BY <2>1, <2>2, <2>3
<1>6. TenantIsolation'
  <2>1. ASSUME NEW d \in Datasets, Live(d)', owner'[d] = None
        PROVE  Making("create_dataset", d)'
    <3>1. Live(d) /\ owner[d] = None
      BY <1>1, <1>2, <2>1
    <3>2. Making("create_dataset", d)
      BY <3>1 DEF DataInv, TenantIsolation
    <3>3. PICK y \in Calls : /\ call[y].kind = "create_dataset" /\ call[y].res = d
                             /\ call[y].pc \in {"require", "select", "insert", "undo", "crashed"}
      BY <3>2 DEF Making
    <3>4. ~ Starts(y)
      BY <3>3 DEF Starts
    <3>5. /\ call'[y].kind = "create_dataset" /\ call'[y].res = d
          /\ call'[y].pc \in {"require", "select", "insert", "undo", "crashed"}
      BY <1>3, <3>3, <3>4
    <3> QED BY <3>5 DEF Making
  <2>2. ASSUME NEW d \in Datasets, Live(d)', NEW x \in datasets'[d], x.review # None
        PROVE  owner'[x.review] = owner'[d]
    BY <1>1, <1>2, <2>2 DEF DataInv, TenantIsolation
  <2> QED BY <2>1, <2>2 DEF TenantIsolation
<1>7. \A d \in Datasets : /\ Live(d)' => d \in used'
                          /\ Live(d)' /\ owner'[d] = None => datasets'[d] = {}
  BY <1>1, <1>2 DEF DataInv
<1>8. \A r \in Datasets \cup Reviews : r \notin used' => owner'[r] = None
  BY <1>1 DEF DataInv
<1> QED BY <1>4, <1>5, <1>6, <1>7, <1>8 DEF DataInv

-----------------------------------------------------------------------------
(* Fingerprints *)

\* In one process nobody adds examples between the reads of train.
LEMMA AddsApart ==
  ASSUME Typed, NEW c \in Calls, Step(c), call[c].pc = "add", NEW x \in Calls, x # c,
         call[x].pc = "rows"
  PROVE  ~ Alone
<1>1. LoopFree(call[c].proc, Calls \ {c})
  BY StepOpens DEF AddExamples, At, Running, CanRun, InThread
<1>2. OnLoop(x)
  <2>1. call[x].pc = "rows" /\ call[x].kind = "train"
    BY DEF Typed, Routes
  <2>2. ~ InThread(x)
    BY <2>1 DEF InThread
  <2>3. Entry(x) = "owned"
    BY <2>1 DEF Entry
  <2> QED BY <2>1, <2>2, <2>3 DEF OnLoop, Awaiting, Waits
<1>3. call[x].proc # call[c].proc
  BY <1>1, <1>2 DEF LoopFree
<1>4. call[x].proc \in scope.procs /\ call[c].proc \in scope.procs
  BY DEF Typed, Holds
<1>5. IsFiniteSet(scope.procs)
  BY TenantAssumption, FS_Subset DEF Typed, ControlTypeOK
<1> QED BY <1>3, <1>4, <1>5, FS_Singleton DEF Alone

\* The UNIQUE constraint.
LEMMA OnceStep ==
  ASSUME Typed, NEW c \in Calls, Step(c), NEW d \in Datasets,
         Live(d) => OncePerText(datasets[d]), Live(d)'
  PROVE  OncePerText(datasets[d])'
<1>1. datasets \in [Datasets -> (SUBSET ExampleRows) \cup {None}]
  BY DEF Typed, DataTypeOK
<1>2. CASE datasets'[d] = datasets[d]
  BY <1>2 DEF Live, OncePerText
<1>3. CASE datasets'[d] = {}
  BY <1>3 DEF OncePerText
<1>4. CASE call[c].pc = "add" /\ d = call[c].res /\ Live(d)
  <2>1. PICK S \in OneEach(NewRows(d, call[c].rows)) :
               datasets' = [datasets EXCEPT ![d] = @ \cup S]
    BY <1>4, StepOpens DEF AddExamples
  <2>2. OncePerText(S) /\ \A x \in S, y \in datasets[d] : y.text # x.text
    BY <2>1 DEF OneEach, NewRows
  <2>3. datasets'[d] = datasets[d] \cup S
    BY <1>1, <2>1
  <2> QED BY <1>4, <2>2, <2>3 DEF OncePerText
<1> QED BY <1>2, <1>3, <1>4, StoresStep

\* What the two reads of train find is exact.
LEMMA ReadExact ==
  ASSUME NEW all, OncePerText(all), NEW print \in SUBSET all, Alone => print = all,
         NEW rows \in Limited(Part(all, "train"))
  PROVE  Exact(print, rows)
<1>1. rows \subseteq Part(all, "train")
      /\ (rows = Part(all, "train") \/ Cardinality(rows) = TrainLimit)
  BY LimitedRows
<1>2. rows = Part(rows, "train")
  BY <1>1 DEF Part
<1>3. Part(print, "train") \subseteq Part(all, "train")
  BY DEF Part
<1>4. \A x \in rows, y \in print : x.text = y.text => y.split = "train"
  BY <1>1 DEF Part, OncePerText
<1>5. Alone => rows \subseteq print
  BY <1>1 DEF Part
<1> QED BY <1>1, <1>2, <1>3, <1>4, <1>5 DEF Exact

LEMMA LineageStep ==
  ASSUME Typed, DataInv, LineageInv, NEW c \in Calls, Step(c)
  PROVE  LineageInv'
<1> DEFINE a == call[c]
           b == call'[c]
<1>1. /\ Moves(c) /\ Others(c) /\ Writes(a.pc) /\ Follows(a.pc, b.pc)
      /\ Routes(a.kind, a.pc) /\ Holds(a) /\ Tracing(a) /\ Storing(a) /\ scope' = scope
      /\ a.pc \notin {"deployment", "previous", "training"} => b.res = a.res
      /\ a.pc \notin {"load", "get", "training"} => b.from = a.from
      /\ a.pc \notin {"list", "rows"} => b.rows = a.rows
      /\ a.pc # "exists" => b.print = a.print
  BY StepMoves DEF Moves, Fields, Writes, Typed, LineageInv, DataInv
<1>2. /\ Alone' <=> Alone
      /\ \A print, rows : Exact(print, rows)' <=> Exact(print, rows)
  BY <1>1 DEF Alone, Exact
<1>3. ASSUME NEW x \in Calls, x # c
      PROVE  Tracing(call[x])'
  <2>1. /\ call'[x] = call[x] /\ Tracing(call[x]) /\ Routes(call[x].kind, call[x].pc)
        /\ Holds(call[x]) /\ Storing(call[x])
    BY <1>1, <1>3 DEF Others, LineageInv, Typed, DataInv
  <2>2. CASE call[x].pc # "rows"
    BY <1>1, <1>2, <2>1, <2>2 DEF Tracing, Exact
  <2>3. CASE call[x].pc = "rows"
    <3>1. PICK d \in Datasets : d = call[x].res
      BY <2>1, <2>3 DEF Routes, Holds
    <3>2. call'[x].res = d /\ call'[x].pc = "rows" /\ d \in used
      BY <2>1, <2>3, <3>1 DEF Storing
    <3>3. ~ (a.pc = "create" /\ a.kind = "create_dataset" /\ d = a.res)
      BY <1>1, <3>2 DEF Storing, Creates
    <3>4. \/ ~ Live(d)' \/ datasets'[d] = datasets[d]
          \/ a.pc = "add" /\ Live(d) /\ datasets[d] \subseteq datasets'[d]
      BY <3>3, StoresStep
    <3>5. CASE ~ Live(d)'
      BY <1>1, <2>1, <2>3, <3>2, <3>5 DEF Tracing, Live, Trained
    <3>6. CASE datasets'[d] = datasets[d]
      BY <1>1, <1>2, <2>1, <2>3, <3>1, <3>6 DEF Tracing, Live, Trained
    <3>7. CASE a.pc = "add" /\ Live(d) /\ datasets[d] \subseteq datasets'[d]
      <4>1. ~ Alone
        BY <1>3, <2>3, <3>7, AddsApart
      <4> QED BY <1>1, <1>2, <2>1, <2>3, <3>1, <3>7, <4>1 DEF Tracing, Trained
    <3> QED BY <3>4, <3>5, <3>6, <3>7
  <2> QED BY <2>2, <2>3
<1>4. Tracing(call[c])'
  <2>1. CASE b.pc = "rows"
    <3>1. a.pc = "exists"
      BY <1>1, <2>1 DEF Follows
    <3>2. /\ b.print = datasets[a.res] /\ datasets' = datasets /\ b.res = a.res
          /\ a.res \in scope.permit
      BY <1>1, <2>1, <3>1, StepOpens, GetMoves DEF dataVars
    <3> QED BY <1>1, <2>1, <3>2 DEF Tracing, Trained
  <2>2. CASE b.pc = "training"
    <3>1. a.pc = "rows"
      BY <1>1, <2>2 DEF Follows
    <3>2. /\ Live(a.res) /\ b.rows \in Limited(Part(datasets[a.res], "train"))
          /\ b.print = a.print /\ b.res = a.res /\ a.res \in Datasets
      BY <1>1, <2>2, <3>1, StepOpens, RowsMoves
    <3>3. Exact(b.print, b.rows)
      BY <1>1, <3>1, <3>2, ReadExact DEF Tracing, LineageInv
    <3> QED BY <1>1, <1>2, <2>2, <3>1, <3>2, <3>3 DEF Tracing, Exact, Trained
  <2>3. CASE b.pc \in Trained
    <3>1. b.rows = a.rows /\ b.print = a.print /\ Exact(a.print, a.rows)
      BY <1>1, <2>3 DEF Follows, Trained, Tracing
    <3>2. b.from \in scope.permit
      <4>1. CASE a.pc = "training"
        BY <1>1, <2>3, <4>1, StepOpens, TrainMoves DEF Tracing, Trained
      <4>2. CASE a.pc # "training"
        BY <1>1, <2>3, <4>2 DEF Tracing, Trained, Follows
      <4> QED BY <4>1, <4>2
    <3> QED BY <1>1, <1>2, <2>3, <3>1, <3>2 DEF Tracing, Exact, Trained
  <2> QED BY <2>1, <2>2, <2>3 DEF Tracing
<1>5. LineageExact'
  <2>1. CASE a.pc = "record"
    <3>1. RecordModel(c)
      BY <2>1, StepOpens
    <3>2. lineage' \subseteq lineage \cup {[model |-> a.res, dataset |-> a.from,
                                           print |-> a.print, rows |-> a.rows]}
      BY <3>1 DEF RecordModel
    <3>3. a.from \in scope.permit /\ Exact(a.print, a.rows)
      BY <1>1, <2>1 DEF Tracing, Trained
    <3> QED BY <1>1, <3>2, <3>3 DEF LineageExact, LineageInv, Exact, Alone
  <2>2. CASE a.pc # "record"
    <3>1. lineage' \subseteq lineage
      <4>1. CASE a.pc \in {"undo", "delete"}
        BY <4>1, StepOpens DEF UndoDataset, DeleteDataset, DropDataset
      <4>2. CASE a.pc \notin {"undo", "delete"}
        BY <1>1, <2>2, <4>2 DEF Writes
      <4> QED BY <4>1, <4>2
    <3> QED BY <1>1, <3>1 DEF LineageExact, LineageInv
  <2> QED BY <2>1, <2>2
<1>6. \A d \in Datasets : Live(d)' => OncePerText(datasets[d])'
  BY OnceStep DEF LineageInv
<1> QED BY <1>3, <1>4, <1>5, <1>6 DEF LineageInv

LEMMA LineageOther ==
  ASSUME Typed, LineageInv, Otherwise
  PROVE  LineageInv'
<1>1. UNCHANGED scope /\ lineage' \subseteq lineage
  <2>1. UNCHANGED scope
    BY BesideTyped DEF Otherwise, Starts, Crashes
  <2> QED BY <2>1 DEF Otherwise, Starts, Crashes, Beside, CreateProject, PurgeDataset, PurgeReview,
                      DropDataset, dataVars
<1>2. \A d \in Datasets : Live(d)' => Live(d) /\ datasets'[d] = datasets[d]
  <2>1. datasets \in [Datasets -> (SUBSET ExampleRows) \cup {None}]
    BY DEF Typed, DataTypeOK
  <2>2. CASE datasets' = datasets
    BY <2>2 DEF Live
  <2>3. CASE \E d \in Datasets : PurgeDataset(d)
    BY <2>1, <2>3 DEF PurgeDataset, DropDataset, Live
  <2> QED BY <2>2, <2>3 DEF Otherwise, Starts, Crashes, Beside, PurgeReview, dataVars
<1>3. ASSUME NEW c \in Calls
      PROVE  Tracing(call[c])'
  <2>1. Tracing(call[c]) /\ Routes(call[c].kind, call[c].pc) /\ Holds(call[c])
    BY DEF LineageInv, Typed
  <2>2. \/ call'[c].pc \notin Trained \cup {"rows", "training"}
        \/ /\ call'[c].res = call[c].res /\ call'[c].pc = call[c].pc /\ call'[c].from = call[c].from
           /\ call'[c].rows = call[c].rows /\ call'[c].print = call[c].print
    BY BesideTyped DEF Otherwise, Starts, Others, Crashes, Trained
  <2>3. call[c].pc = "rows" => call[c].res \in Datasets
    BY <2>1 DEF Routes, Holds
  <2>4. Exact(call[c].print, call[c].rows)' <=> Exact(call'[c].print, call'[c].rows)
    BY <1>1 DEF Exact, Alone
  <2> QED BY <1>1, <1>2, <2>1, <2>2, <2>3, <2>4 DEF Tracing, Alone
<1>4. \A d \in Datasets : Live(d)' => OncePerText(datasets[d])'
  BY <1>2 DEF LineageInv, OncePerText
<1> QED BY <1>1, <1>3, <1>4 DEF LineageInv, LineageExact

-----------------------------------------------------------------------------
(* Audit *)

\* The statements of a counted call, and the answers it gets.
LEMMA CountedProgram ==
  ASSUME Typed, NEW c \in Calls, Step(c), call[c].kind \in Counted
  PROVE  /\ call[c].pc = "row" => \/ call'[c].pc = "count"
                                  \/ call'[c].pc = "done" /\ call'[c].answer = "401"
         /\ call[c].pc = "count" => \/ call'[c].pc \in {"countWrite", "refusal"}
                                    \/ call'[c].pc = "done" /\ call'[c].answer = "429"
         /\ call[c].pc = "countWrite" => call'[c].pc \in {"serving", "owned", "deployment"}
         /\ call[c].pc = "owned" =>
              \/ call'[c].pc = "serving"
              \/ call'[c].pc = "audit" /\ call[c].kind = "predict"
              \/ call'[c].pc = "done" /\ Refused(c)'
         /\ call[c].pc = "deployment" => \/ call'[c].pc \in {"audit", "owned"}
                                         \/ call'[c].pc = "done" /\ Refused(c)'
         /\ call[c].pc = "serving" => call'[c].pc = "audit" /\ call'[c].answer # "404"
         /\ call[c].pc = "audit" => /\ call'[c].answer = call[c].answer
                                    /\ call'[c].pc = IF call[c].kind = "ws" THEN "open" ELSE "done"
         /\ call[c].pc = "connect" => call'[c].pc \in {"open", "done"}
         /\ call[c].pc = "open" => call'[c].pc \in {"row", "done"}
         /\ call[c].pc = "refusal" => call'[c].pc = "done"
<1> DEFINE a == call[c]
           b == call'[c]
<1>1. /\ call \in [Calls -> AnyCall] /\ a \in AnyCall /\ Routes(a.kind, a.pc)
      /\ a.kind \in Counted
      /\ (CallStep(c) /\ UNCHANGED dataVars) \/ DataStep(c)
  BY DEF Typed, Step
<1>2. a.pc \in {"row", "connect"} =>
        UNCHANGED dataVars /\ (ReadKey(c) \/ Accept(c)) /\ (a.pc = "row" => ReadKey(c))
  BY <1>1, StepOpens DEF CallStep, DataStep, ReadUsage, CountUsage, RefuseBody, Entry, AssertModel,
     GetDeployment, Serve, ReadHeldOut, Benchmark, Audit, Message, Disconnect, RefuseMessage, LoadProject, StoreProject, ReadDeployed,
     WriteDeployed, RollbackFrom, RollbackTo, RequireProject, SelectOwner, InsertOwner, AssertOwner,
     CreateDataset, CreateReview, UndoDataset, DeleteDataset, UnregisterDataset, GetDataset,
     ListReviews, AddExamples, ReadExamples, Train, RecordModel, ResolveReview, At, Running
<1>3. a.pc = "row" => b.pc = "count" \/ (b.pc = "done" /\ b.answer = "401")
  BY <1>2, ReadKeyMoves
<1>4. a.pc = "connect" => b.pc \in {"open", "done"}
  <2>1. ReadKey(c) => a.pc = "row"
    BY DEF ReadKey, At, Running
  <2> QED BY <1>2, <2>1, AcceptMoves
<1>5. a.pc = "count" => b.pc \in {"countWrite", "refusal"} \/ (b.pc = "done" /\ b.answer = "429")
  <2>1. a.pc = "count" => Goto(c, "countWrite") \/ Goto(c, "refusal") \/ Answer(c, "429")
    BY StepOpens DEF ReadUsage
  <2> QED BY <1>1, <2>1, GotoMoves, AnswerMoves, Literals
<1>6. a.pc = "countWrite" => b.pc \in {"serving", "owned", "deployment"}
  <2>1. a.pc = "countWrite" => Goto(c, Entry(c))
    BY StepOpens DEF CountUsage
  <2>2. Entry(c) \in Pcs /\ Entry(c) \in {"serving", "owned", "deployment"}
    BY EntryRoutes
  <2> QED BY <1>1, <2>1, <2>2, GotoMoves
<1>7. ASSUME NEW status \in {"200", "400", "404", "500"},
             call' = [call EXCEPT ![c].pc = "audit", ![c].answer = status]
      PROVE  b.pc = "audit" /\ b.answer = status
  <2> DEFINE row == [a EXCEPT !.pc = "audit", !.answer = status]
  <2>1. row \in AnyCall /\ row.pc = "audit" /\ row.answer = status
    BY <1>1, Literals DEF AnyCall
  <2>2. call' = [call EXCEPT ![c] = row]
    BY <1>7
  <2> HIDE DEF row
  <2> QED BY <1>1, <2>1, <2>2
<1>13. RefuseBody(c) => b.pc = "done" /\ Refused(c)'
  BY <1>1, AnswerMoves DEF RefuseBody, Refused, Keeps
<1>8. a.pc = "owned" => \/ b.pc = "serving"
                        \/ b.pc = "audit" /\ a.kind = "predict"
                        \/ b.pc = "done" /\ Refused(c)'
  <2>1. a.pc = "owned" =>
          \/ Goto(c, "serving")
          \/ a.kind = "predict" /\ call' = [call EXCEPT ![c].pc = "audit", ![c].answer = "404"]
          \/ a.kind \in {"infer", "model_predict"} /\ Answer(c, "404")
          \/ RefuseBody(c)
    <3>1. a.pc = "owned" => a.kind # "ws"
      BY <1>1 DEF Routes
    <3> QED BY <1>1, <3>1, StepOpens DEF AssertModel, AssertOwner, Counted
  <2>2. a.kind \in {"infer", "model_predict"} /\ Answer(c, "404") => b.pc = "done" /\ Refused(c)'
    BY <1>1, AnswerMoves DEF Refused, Keeps
  <2> QED BY <1>1, <1>7, <1>13, <2>1, <2>2, GotoMoves, Literals
<1>9. a.pc = "deployment" => b.pc \in {"audit", "owned"} \/ (b.pc = "done" /\ Refused(c)')
  <2>1. a.pc = "deployment" =>
          \/ call' = [call EXCEPT ![c].pc = "audit", ![c].answer = "404"]
          \/ \E m : call' = [call EXCEPT ![c].pc = "owned", ![c].res = m]
          \/ RefuseBody(c)
    BY StepOpens DEF GetDeployment
  <2> QED BY <1>1, <1>7, <1>13, <2>1 DEF AnyCall
<1>10. a.pc = "serving" => b.pc = "audit" /\ b.answer # "404"
  <2>1. a.pc = "serving" => \E status \in {"200", "400", "500"} :
                              call' = [call EXCEPT ![c].pc = "audit", ![c].answer = status]
    BY StepOpens DEF Serve
  <2> QED BY <1>7, <2>1
<1>11. a.pc = "audit" => b.answer = a.answer /\ b.pc = IF a.kind = "ws" THEN "open" ELSE "done"
  <2>1. a.pc = "audit" => Goto(c, IF a.kind = "ws" THEN "open" ELSE "done")
    BY StepOpens DEF Audit
  <2> QED BY <1>1, <2>1, GotoMoves, Literals
<1>12. /\ a.pc = "open" => b.pc \in {"row", "done"}
       /\ a.pc = "refusal" => b.pc = "done"
  <2>1. /\ a.pc = "open" => Goto(c, "row") \/ Goto(c, "done")
        /\ a.pc = "refusal" => Answer(c, "429")
    BY StepOpens DEF Message, Disconnect, RefuseMessage
  <2> QED BY <1>1, <2>1, GotoMoves, AnswerMoves, Literals
<1> QED BY <1>3, <1>4, <1>5, <1>6, <1>8, <1>9, <1>10, <1>11, <1>12

\* A request is counted once, for its own call.
LEMMA CountedAfter ==
  ASSUME Typed, QuotaInv, NEW c \in Calls, Step(c), NEW d \in Calls
  PROVE  /\ IsFiniteSet(CountedOf(d)) /\ Cardinality(CountedOf(d)) \in Nat
         /\ IF d = c /\ call[c].pc = "countWrite"
            THEN Cardinality(CountedOf(d)') = Cardinality(CountedOf(d)) + 1
            ELSE CountedOf(d)' = CountedOf(d)
<1>1. IsFiniteSet(CountedOf(d)) /\ Cardinality(CountedOf(d)) \in Nat
  BY FS_Subset, FS_CardinalityType DEF QuotaInv, CountedOf
<1>2. CASE call[c].pc # "countWrite"
  <2>1. counted' = counted
    BY <1>2, StepMoves DEF Moves, Writes
  <2> QED BY <1>1, <1>2, <2>1 DEF CountedOf
<1>3. CASE call[c].pc = "countWrite"
  <2>1. PICK e \in [call : Calls, proj : Projects, day : Days, nth : Nat] :
          /\ e.call = c /\ e.nth = usage[call[c].proj][day] + 1
          /\ e \notin counted /\ counted' = counted \cup {e}
    <3>1. PICK e \in [call : Calls, proj : Projects, day : Days, nth : Nat] :
            /\ e = [call |-> c, proj |-> call[c].proj, day |-> day,
                    nth |-> usage[call[c].proj][day] + 1]
            /\ e \notin counted /\ counted' = counted \cup {e}
      BY <1>3, CountAdds
    <3>2. e.call = c /\ e.nth = usage[call[c].proj][day] + 1
      BY <3>1
    <3> QED BY <3>1, <3>2
  <2>2. CASE d = c
    <3>1. CountedOf(d)' = CountedOf(d) \cup {e} /\ e \notin CountedOf(d)
      BY <2>1, <2>2 DEF CountedOf
    <3>2. Cardinality(CountedOf(d) \cup {e}) = Cardinality(CountedOf(d)) + 1
      BY <1>1, <3>1, FS_AddElement
    <3> QED BY <1>1, <1>3, <2>2, <3>1, <3>2
  <2>3. CASE d # c
    <3>1. CountedOf(d)' = CountedOf(d)
      BY <2>1, <2>3 DEF CountedOf
    <3> QED BY <1>1, <2>3, <3>1
  <2> QED BY <2>2, <2>3
<1> QED BY <1>2, <1>3

\* The rows of the audit table that are for what was counted.
LEMMA ServedAfter ==
  ASSUME Typed, NEW c \in Calls, Step(c), NEW d \in Calls
  PROVE  /\ Cardinality(Served(d)) \in Nat
         /\ d # c \/ call[c].pc \notin {"audit", "refusal"} => audit'[d] = audit[d]
         /\ d = c /\ call[c].pc = "refusal" => Served(d)' = Served(d)
         /\ d = c /\ call[c].pc = "audit" =>
              /\ Cardinality(Served(d)') = Cardinality(Served(d)) + 1
              /\ audit[d] = << >> => \A k \in Served(d)' : audit'[d][k] = call[d].answer
<1> DEFINE X == {"200", "400", "404", "429", "500"}
           s == audit[d]
<1>1. s \in Seq(X) /\ audit \in [Calls -> Seq(X)]
  BY DEF Typed, ControlTypeOK
<1>2. Len(s) \in Nat /\ DOMAIN s = 1 .. Len(s)
  BY <1>1
<1>3. IsFiniteSet(Served(d)) /\ Cardinality(Served(d)) \in Nat
  <2>1. IsFiniteSet(1 .. Len(s))
    BY <1>2, FS_Interval
  <2>2. Served(d) \subseteq 1 .. Len(s)
    BY <1>2 DEF Served
  <2> QED BY <2>1, <2>2, FS_Subset, FS_CardinalityType
<1>4. d # c \/ call[c].pc \notin {"audit", "refusal"} => audit'[d] = audit[d]
  <2>1. CASE call[c].pc \notin {"audit", "refusal"}
    BY <2>1, StepMoves DEF Moves, Writes
  <2>2. CASE call[c].pc \in {"audit", "refusal"}
    <3>1. \E x : audit' = [audit EXCEPT ![c] = Append(@, x)]
      BY <2>2, StepOpens DEF Audit, RefuseMessage
    <3> QED BY <1>1, <2>2, <3>1
  <2> QED BY <2>1, <2>2
<1>5. ASSUME NEW x \in X, audit'[d] = Append(s, x)
      PROVE  /\ DOMAIN audit'[d] = 1 .. (Len(s) + 1) /\ audit'[d][Len(s) + 1] = x
             /\ \A k \in 1 .. Len(s) : audit'[d][k] = s[k]
  BY <1>1, <1>5
<1>6. ASSUME d = c, call[c].pc = "refusal"
      PROVE  Served(d)' = Served(d)
  <2>1. audit'[d] = Append(s, "429")
    BY <1>1, <1>6, StepOpens DEF RefuseMessage
  <2>2. /\ DOMAIN audit'[d] = 1 .. (Len(s) + 1) /\ audit'[d][Len(s) + 1] = "429"
        /\ \A k \in 1 .. Len(s) : audit'[d][k] = s[k]
    BY <1>5, <2>1
  <2> QED BY <1>2, <2>2 DEF Served
<1>7. ASSUME d = c, call[c].pc = "audit"
      PROVE  /\ Cardinality(Served(d)') = Cardinality(Served(d)) + 1
             /\ audit[d] = << >> => \A k \in Served(d)' : audit'[d][k] = call[d].answer
  <2>1. call[d].answer \in {"200", "400", "404", "500"}
    BY <1>7 DEF Typed, Holds
  <2>2. audit'[d] = Append(s, call[d].answer)
    BY <1>1, <1>7, StepOpens DEF Audit
  <2>3. /\ DOMAIN audit'[d] = 1 .. (Len(s) + 1) /\ audit'[d][Len(s) + 1] = call[d].answer
        /\ \A k \in 1 .. Len(s) : audit'[d][k] = s[k]
    BY <1>5, <2>1, <2>2
  <2>4. Served(d)' = Served(d) \cup {Len(s) + 1} /\ Len(s) + 1 \notin Served(d)
    BY <1>2, <2>1, <2>3 DEF Served
  <2>5. Cardinality(Served(d) \cup {Len(s) + 1}) = Cardinality(Served(d)) + 1
    BY <1>3, <2>4, FS_AddElement
  <2>6. s = << >> => \A k \in Served(d)' : audit'[d][k] = call[d].answer
    <3>1. s = << >> => Len(s) = 0
      OBVIOUS
    <3>2. s = << >> => Served(d)' = {1} /\ Len(s) + 1 = 1
      BY <1>2, <2>4, <3>1 DEF Served
    <3> QED BY <2>3, <3>2
  <2> QED BY <2>4, <2>5, <2>6
<1> QED BY <1>3, <1>4, <1>6, <1>7

\* What AuditExact says of one call.
Accounted(c) ==
    call[c].pc \in {"done", "open"} =>
        /\ Cardinality(Served(c)) = IF Refused(c) THEN 0 ELSE Cardinality(CountedOf(c))
        /\ call[c].kind # "ws" => \A k \in Served(c) : audit[c][k] = call[c].answer

LEMMA NothingServed ==
  ASSUME NEW c, audit[c] = << >>
  PROVE  Served(c) = {} /\ Cardinality(Served(c)) = 0
BY FS_EmptySet DEF Served

LEMMA NothingServedPrime ==
  ASSUME NEW c, audit'[c] = << >>
  PROVE  Served(c)' = {} /\ Cardinality(Served(c)') = 0
BY FS_EmptySet DEF Served

LEMMA AuditStep ==
  ASSUME Typed, QuotaInv, AuditInv, NEW c \in Calls, Step(c)
  PROVE  AuditInv'
<1> DEFINE a == call[c]
           b == call'[c]
           n == Cardinality(CountedOf(c))
           s == Cardinality(Served(c))
<1>1. /\ Others(c) /\ Follows(a.pc, b.pc) /\ Routes(a.kind, a.pc) /\ b.kind = a.kind
      /\ Audited(c) /\ Accounted(c)
  BY StepMoves DEF Moves, Fields, Typed, AuditInv, AuditExact, Accounted
<1>2. ASSUME NEW d \in Calls, d # c
      PROVE  Audited(d)' /\ Accounted(d)'
  <2>1. call'[d] = call[d] /\ Audited(d) /\ Accounted(d)
    BY <1>1, <1>2 DEF Others, AuditInv, AuditExact, Accounted
  <2>2. CountedOf(d)' = CountedOf(d) /\ audit'[d] = audit[d]
    BY <1>2, CountedAfter, ServedAfter
  <2>3. Served(d)' = Served(d)
    BY <2>2 DEF Served
  <2> QED BY <2>1, <2>2, <2>3 DEF Audited, Accounted, Refused
<1>3. ASSUME a.kind \notin Counted
      PROVE  Audited(c)' /\ Accounted(c)'
  <2>1. a.pc \notin {"countWrite", "audit", "refusal"}
    BY <1>1, <1>3 DEF Routes, Counted
  <2>2. CountedOf(c)' = CountedOf(c) /\ audit'[c] = audit[c]
    BY <2>1, CountedAfter, ServedAfter
  <2>3. CountedOf(c)' = {} /\ audit'[c] = << >>
    BY <1>1, <1>3, <2>2 DEF Audited
  <2>4. Cardinality(CountedOf(c)') = 0 /\ Served(c)' = {} /\ Cardinality(Served(c)') = 0
    BY <2>3, NothingServedPrime, FS_EmptySet
  <2>5. Audited(c)'
    BY <1>1, <1>3, <2>3, <2>4 DEF Audited, Owed, Counted
  <2>6. Accounted(c)'
    BY <2>4 DEF Accounted
  <2> QED BY <2>5, <2>6
<1>4. ASSUME a.kind \in Counted
      PROVE  Audited(c)' /\ Accounted(c)'
  <2>1. n \in Nat /\ s \in Nat
    BY CountedAfter, ServedAfter
  <2>2. a.pc \notin {"done", "crashed"} /\ n = s + Owed(a)
    BY <1>1 DEF Follows, Audited
  <2>3. Cardinality(CountedOf(c)') = IF a.pc = "countWrite" THEN n + 1 ELSE n
    BY CountedAfter
  <2>4. Cardinality(Served(c)') = IF a.pc = "audit" THEN s + 1 ELSE s
    <3>1. CASE a.pc \in {"audit", "refusal"}
      BY <3>1, ServedAfter
    <3>2. CASE a.pc \notin {"audit", "refusal"}
      <4>1. audit'[c] = audit[c]
        BY <3>2, ServedAfter
      <4>2. Served(c)' = Served(c)
        BY <4>1 DEF Served
      <4> QED BY <3>2, <4>2
    <3> QED BY <3>1, <3>2
  <2>5. a.kind # "ws" => audit[c] = << >> /\ s = 0
    BY <1>1, <2>2, NothingServed DEF Audited
  <2>6. a.kind # "ws" /\ a.pc # "audit" => audit'[c] = << >>
    <3>1. a.kind # "ws" => a.pc # "refusal"
      BY <1>1 DEF Routes
    <3> QED BY <2>5, <3>1, ServedAfter
  <2>7. a.pc \in {"row", "count", "countWrite", "owned", "deployment", "serving", "audit",
                  "connect", "open", "refusal"}
    BY <1>1, <1>4, <2>2, NoneIsNoKind DEF Typed, ControlTypeOK, Pcs, Awaiting, Routes, Counted, Kinds, Creates
  <2>8. Audited(c)'
    <3>1. b.kind # "ws" /\ b.pc \notin {"done", "crashed"} => audit'[c] = << >>
      BY <1>1, <1>4, <2>6, CountedProgram
    <3>2. b.pc \notin {"done", "crashed"} => Cardinality(CountedOf(c)') = Cardinality(Served(c)') + Owed(b)
      BY <1>1, <1>4, <2>1, <2>2, <2>3, <2>4, <2>7, CountedProgram DEF Owed
    <3>3. b.kind \in {"infer", "model_predict"} /\ b.pc = "audit" => b.answer # "404"
      <4>1. b.kind \in {"infer", "model_predict"} => a.pc # "deployment"
        BY <1>1 DEF Routes
      <4> QED BY <1>1, <1>4, <2>7, <4>1, CountedProgram
    <3> QED BY <1>1, <1>4, <3>1, <3>2, <3>3 DEF Audited
  <2>9. Accounted(c)'
    <3>1. CASE b.pc = "open"
      <4>1. a.pc \in {"connect", "audit"} /\ a.kind = "ws"
        BY <1>1, <1>4, <3>1, CountedProgram DEF Follows, Routes
      <4>2. Cardinality(CountedOf(c)') = Cardinality(Served(c)')
        BY <1>4, <2>1, <2>2, <2>3, <2>4, <4>1 DEF Owed
      <4> QED BY <1>1, <3>1, <4>1, <4>2 DEF Accounted, Refused
    <3>2. CASE b.pc = "done" /\ a.kind = "ws"
      <4>1. a.pc \in {"row", "count", "connect", "open", "refusal"}
        <5>1. a.pc # "owned" /\ a.pc # "deployment"
          BY <1>1, <3>2 DEF Routes
        <5> QED BY <1>4, <2>7, <3>2, <5>1, CountedProgram
      <4>2. Cardinality(CountedOf(c)') = Cardinality(Served(c)')
        BY <1>4, <2>1, <2>2, <2>3, <2>4, <4>1 DEF Owed
      <4> QED BY <1>1, <3>2, <4>2 DEF Accounted, Refused
    <3>3. CASE b.pc = "done" /\ a.kind # "ws"
      <4>1. a.pc \in {"row", "count", "owned", "deployment", "audit"}
        <5>1. a.pc \notin {"connect", "open", "refusal"}
          BY <1>1, <3>3 DEF Routes
        <5> QED BY <1>4, <2>7, <3>3, <5>1, CountedProgram
      <4>2. CASE a.pc \in {"row", "count"}
        <5>1. Served(c)' = {} /\ Cardinality(Served(c)') = 0
          BY <2>6, <3>3, <4>2, NothingServedPrime
        <5>2. Cardinality(CountedOf(c)') = 0
          BY <2>1, <2>2, <2>3, <2>5, <3>3, <4>2 DEF Owed
        <5> QED BY <5>1, <5>2 DEF Accounted
      <4>3. CASE a.pc \in {"owned", "deployment"}
        <5>1. Served(c)' = {} /\ Cardinality(Served(c)') = 0
          BY <2>6, <3>3, <4>3, NothingServedPrime
        <5>2. Refused(c)'
          BY <1>4, <3>3, <4>3, CountedProgram
        <5> QED BY <5>1, <5>2 DEF Accounted
      <4>4. CASE a.pc = "audit"
        <5>1. b.answer = a.answer
          BY <1>4, <4>4, CountedProgram
        <5>2. ~ Refused(c)'
          <6>1. a.answer # "422"
            BY <4>4 DEF Typed, Holds
          <6> QED BY <1>1, <4>4, <5>1, <6>1 DEF Refused, Audited
        <5>3. Cardinality(CountedOf(c)') = Cardinality(Served(c)')
          BY <1>4, <2>1, <2>2, <2>3, <2>4, <4>4 DEF Owed
        <5>4. \A k \in Served(c)' : audit'[c][k] = b.answer
          BY <2>5, <3>3, <4>4, <5>1, ServedAfter
        <5> QED BY <5>2, <5>3, <5>4 DEF Accounted
      <4> QED BY <4>1, <4>2, <4>3, <4>4
    <3> QED BY <1>1, <3>1, <3>2, <3>3 DEF Accounted
  <2> QED BY <2>8, <2>9
<1>5. Audited(c)' /\ Accounted(c)'
  BY <1>3, <1>4
<1> QED BY <1>2, <1>5 DEF AuditInv, AuditExact, Accounted

LEMMA AuditOther ==
  ASSUME Typed, AuditInv, Otherwise
  PROVE  AuditInv'
<1>1. UNCHANGED <<counted, audit>>
  BY BesideTyped DEF Otherwise, Starts, Crashes, controlVars
<1>2. SUFFICES ASSUME NEW c \in Calls
               PROVE  Audited(c)' /\ Accounted(c)'
  BY DEF AuditInv, AuditExact, Accounted
<1>3. /\ CountedOf(c)' = CountedOf(c) /\ Served(c)' = Served(c) /\ audit'[c] = audit[c]
      /\ Audited(c) /\ Accounted(c)
  BY <1>1 DEF CountedOf, Served, AuditInv, AuditExact, Accounted
<1>4. CASE call'[c] = call[c]
  BY <1>3, <1>4 DEF Audited, Accounted, Refused
<1>5. CASE \E p \in Procs : Crashes(p)
  BY <1>3, <1>5 DEF Crashes, Audited, Accounted, Refused, Owed
<1>6. CASE \E d \in Calls : Starts(d)
  <2>1. PICK d \in Calls : Starts(d)
    BY <1>6
  <2>2. CASE d # c
    BY <1>4, <2>1, <2>2 DEF Starts, Others
  <2>3. CASE d = c
    <3>1. /\ call[c].pc = "idle" /\ call[c].kind = None
          /\ call'[c].pc \in {"row", "connect", "load", "require", "current"}
      BY <2>1, <2>3 DEF Starts, Typed, Routes
    <3>2. CountedOf(c)' = {} /\ audit'[c] = << >>
      BY <1>3, <3>1, NoneIsNoKind DEF Audited, Counted, Kinds
    <3>3. Cardinality(CountedOf(c)') = 0 /\ Cardinality(Served(c)') = 0
      BY <3>2, NothingServedPrime, FS_EmptySet
    <3> QED BY <3>1, <3>2, <3>3 DEF Audited, Accounted, Owed
  <2> QED BY <2>2, <2>3
<1> QED BY <1>4, <1>5, <1>6, BesideTyped DEF Otherwise

-----------------------------------------------------------------------------
(* At the start *)

LEMMA IdleInit ==
  ASSUME Init
  PROVE  /\ scope \in Scopes
         /\ \A c \in Calls : call[c] = NoCall /\ call[c].pc = "idle" /\ call[c].kind = None
         /\ None \notin Kinds
BY NoCallType, NoneIsNoKind DEF Init, ControlInit

LEMMA DeployInit ==
  ASSUME Init
  PROVE  DeployInv
<1>1. \A i \in Projects : deployed[i] = None /\ history[i] = << >> /\ DOMAIN history[i] = {}
  BY DEF Init, ControlInit
<1>2. \A c \in Calls : Deploying(call[c]) /\ call[c].pc # "write"
  BY IdleInit DEF Deploying, Registers
<1> QED BY <1>1, <1>2 DEF DeployInv, DeployedOwned

LEMMA QuotaInit ==
  ASSUME Init
  PROVE  QuotaInv
<1>1. /\ \A i \in Projects : \A d \in Days : usage[i][d] = 0
      /\ counted = {} /\ day = 1 /\ 1 \in Days
      /\ \A i \in Projects : top[i] = IF Known(i) THEN projects[i].quota ELSE 0
  BY ControlAssumption DEF Init, ControlInit
<1>2. Typed
  BY TypedInit
<1>3. \A i \in Projects : Known(i) => projects[i].quota \in Nat
  BY <1>2 DEF Known, Typed, ControlTypeOK, ProjectRows
<1>4. OneWriter /\ \A c \in Calls : call[c].pc \notin {"count", "countWrite"}
  BY IdleInit DEF OneWriter, HoldsStore
<1>5. ASSUME NEW i \in Projects
      PROVE  Writers(i) = {} /\ Pending(i) = 0
  <2>1. Writers(i) = {}
    BY <1>4 DEF Writers
  <2> QED BY <1>1, <2>1, FS_EmptySet DEF Pending
<1>6. IsFiniteSet(counted) /\ \A i \in Projects, d \in Days : Cardinality(Charged(i, d)) = 0
  BY <1>1, FS_EmptySet DEF Charged
<1> QED BY <1>1, <1>3, <1>4, <1>5, <1>6 DEF QuotaInv, QuotaHolds

LEMMA AuditInit ==
  ASSUME Init
  PROVE  AuditInv
<1>1. SUFFICES ASSUME NEW c \in Calls
               PROVE  Audited(c) /\ call[c].pc \notin {"done", "open"}
  BY DEF AuditInv, AuditExact
<1>2. audit[c] = << >> /\ CountedOf(c) = {}
  BY DEF Init, ControlInit, CountedOf
<1>3. Cardinality(Served(c)) = 0 /\ Cardinality(CountedOf(c)) = 0
  BY <1>2, NothingServed, FS_EmptySet
<1> QED BY <1>2, <1>3, IdleInit DEF Audited, Owed, Counted

LEMMA DataInit ==
  ASSUME Init
  PROVE  DataInv
<1>1. /\ scope \in Scopes /\ Typed
      /\ datasets = [d \in Datasets |-> IF d \in DOMAIN scope.datasets THEN scope.datasets[d] ELSE None]
      /\ owner = [r \in Resources |-> IF r \in DOMAIN scope.owner THEN scope.owner[r] ELSE None]
      /\ used = DOMAIN scope.datasets \cup DOMAIN scope.reviews
  BY IdleInit, TypedInit DEF Init, ControlInit
<1>2. /\ \A r \in DOMAIN scope.owner : scope.owner[r] \in Projects
      /\ DOMAIN scope.owner \cap (Datasets \cup Reviews) \subseteq used
      /\ \A d \in DOMAIN scope.datasets :
           /\ scope.datasets[d] \subseteq ExampleRows
           /\ d \in DOMAIN scope.owner
           /\ \A x \in scope.datasets[d] : x.review # None =>
                x.review \in DOMAIN scope.owner /\ scope.owner[x.review] = scope.owner[d]
  BY <1>1, TenantAssumption, DataAssumption
<1>3. \A r \in Datasets \cup Reviews : r \notin used => owner[r] = None
  BY <1>1, <1>2 DEF Resources
<1>4. ASSUME NEW d \in Datasets, Live(d)
      PROVE  /\ d \in used /\ owner[d] # None
             /\ \A x \in datasets[d] : x.review # None => owner[x.review] = owner[d]
  <2>1. d \in DOMAIN scope.datasets /\ datasets[d] = scope.datasets[d]
    BY <1>1, <1>4 DEF Live
  <2>2. owner[d] = scope.owner[d] /\ owner[d] \in Projects
    BY <1>1, <1>2, <2>1 DEF Resources
  <2>3. \A x \in datasets[d] : x.review # None => x.review \in Reviews
    BY <1>2, <2>1 DEF ExampleRows
  <2>4. \A x \in datasets[d] : x.review # None => owner[x.review] = owner[d]
    BY <1>1, <1>2, <2>1, <2>2, <2>3 DEF Resources
  <2> QED BY <1>1, <2>1, <2>2, <2>4, TenantAssumption
<1>5. \A c \in Calls : Storing(call[c]) /\ call[c].kind \notin Creates
  BY IdleInit DEF Storing, Creates, Registers, Kinds
<1>6. TenantIsolation
  BY <1>4 DEF TenantIsolation
<1> QED BY <1>3, <1>4, <1>5, <1>6 DEF DataInv

LEMMA LineageInit ==
  ASSUME Init
  PROVE  LineageInv
<1>1. LineageExact /\ \A c \in Calls : Tracing(call[c])
  BY IdleInit DEF LineageExact, Tracing, Trained, Init
<1>2. ASSUME NEW d \in Datasets, Live(d)
      PROVE  OncePerText(datasets[d])
  <2>1. d \in DOMAIN scope.datasets /\ datasets[d] = scope.datasets[d] /\ scope \in Scopes
    BY <1>2 DEF Live, Init, ControlInit
  <2> QED BY <2>1, DataAssumption
<1> QED BY <1>1, <1>2 DEF LineageInv

-----------------------------------------------------------------------------
(* The theorems *)

\* The layers together.
IInv == Typed /\ DeployInv /\ QuotaInv /\ AuditInv /\ DataInv /\ LineageInv

LEMMA StepInv ==
  ASSUME IInv, Next
  PROVE  IInv'
<1>1. Typed /\ DeployInv /\ QuotaInv /\ AuditInv /\ DataInv /\ LineageInv
  BY DEF IInv
<1>2. CASE \E c \in Calls : Step(c)
  BY <1>1, <1>2, StepTyped, DeployStep, QuotaStep, AuditStep, StoringStep, LineageStep DEF IInv
<1>3. CASE Otherwise
  <2>1. Typed'
    BY <1>1, <1>3, StartTyped, CrashTyped, BesideTyped DEF Otherwise
  <2> QED BY <1>1, <1>3, <2>1, DeployOther, QuotaOther, AuditOther, StoringOther, LineageOther
          DEF IInv
<1> QED BY <1>1, <1>2, <1>3, NextCases DEF Otherwise

LEMMA StutterInv ==
  ASSUME IInv, UNCHANGED vars
  PROVE  IInv'
<1>1. /\ UNCHANGED <<scope, projects, owner, models, call, crashes, keys, day, usage, top, counted>>
      /\ UNCHANGED <<audit, deployed, history, datasets, reviews, used, lineage>>
  BY DEF vars, registryVars, controlVars, dataVars
<1>2. Typed'
  BY TypedNext DEF IInv
<1>3. DeployInv'
  BY <1>1 DEF IInv, DeployInv, DeployedOwned, Deploying
<1>4. QuotaInv'
  <2>1. /\ \A i \in Projects : Writers(i)' = Writers(i) /\ Pending(i)' = Pending(i)
        /\ \A i \in Projects, d \in Days : Charged(i, d)' = Charged(i, d)
    BY <1>1 DEF Writers, Pending, Charged
  <2> QED BY <1>1, <2>1 DEF IInv, QuotaInv, QuotaHolds, OneWriter, HoldsStore, Known
<1>5. AuditInv'
  <2>1. \A c : Served(c)' = Served(c) /\ CountedOf(c)' = CountedOf(c) /\ (Refused(c)' <=> Refused(c))
    BY <1>1 DEF Served, CountedOf, Refused
  <2> QED BY <1>1, <2>1 DEF IInv, AuditInv, AuditExact, Audited
<1>6. DataInv'
  BY <1>1 DEF IInv, DataInv, Live, Storing, TenantIsolation, Making
<1>7. LineageInv'
  <2>1. \A print, rows : Exact(print, rows)' <=> Exact(print, rows)
    BY <1>1 DEF Exact, Alone
  <2>2. \A c \in Calls : Tracing(call[c])'
    BY <1>1, <2>1 DEF IInv, LineageInv, Tracing, Live, Alone, Exact
  <2> QED BY <1>1, <2>2 DEF IInv, LineageInv, LineageExact, Live
<1> QED BY <1>2, <1>3, <1>4, <1>5, <1>6, <1>7 DEF IInv

\* The inductive invariant of the three modules: what a call at each statement
\* of authenticate, register_resource, promote_model, train and the others has
\* read, and what of it still holds whatever the other calls did meanwhile.
THEOREM Invariance == Spec => []IInv
<1>1. Init => IInv
  BY TypedInit, DeployInit, QuotaInit, AuditInit, DataInit, LineageInit DEF IInv
<1>2. IInv /\ [Next]_vars => IInv'
  BY StepInv, StutterInv
<1> QED BY <1>1, <1>2, PTL DEF Spec

\* Every variable of the registry, the control plane and the stores always has
\* its type: no statement of the routes writes a row that is not one.
THEOREM TypeCorrect == Spec => []TypeOK
<1>1. IInv => TypeOK
  BY DEF IInv, Typed, TypeOK
<1> QED BY <1>1, Invariance, PTL

\* The deployed model of a project, and those its rollbacks lead to, are its own
\* and of the deployment's decision (promote_model, rollback_model).
THEOREM DeploymentsOwned == Spec => []DeployedOwned
<1>1. IInv => DeployedOwned
  BY DEF IInv, DeployInv
<1> QED BY <1>1, Invariance, PTL

\* The count of a day exceeds the largest quota by less than the number of
\* processes, whatever their interleaving, and no count is lost (authenticate).
THEOREM QuotaBound == Spec => []QuotaHolds
<1>1. IInv => QuotaHolds
  BY DEF IInv, QuotaInv
<1> QED BY <1>1, Invariance, PTL

\* Every counted request or message that is over has exactly one audit row, with
\* the answer its client got, but for the models of other projects and the bodies
\* refused with 422 (the finally blocks of the routes, realtime_ws).
THEOREM AuditComplete == Spec => []AuditExact
<1>1. IInv => AuditExact
  BY DEF IInv, AuditInv
<1> QED BY <1>1, Invariance, PTL

\* What reviews put into a dataset belongs to its owner, and only a dataset in
\* the making has none (create_project_dataset, import_project_reviews), although
\* the two stores commit separately and processes crash in between.
THEOREM DatasetsIsolated == Spec => []TenantIsolation
<1>1. IInv => TenantIsolation
  BY DEF IInv, DataInv
<1> QED BY <1>1, Invariance, PTL

\* A model with a lineage record was trained, where governance permits it, on the
\* training rows its fingerprint covers and on no text the fingerprint covers as
\* held out, up to the limit, and on no others when one process serves the store
\* (train, record_model).
THEOREM LineageTrue == Spec => []LineageExact
<1>1. IInv => LineageExact
  BY DEF IInv, LineageInv
<1> QED BY <1>1, Invariance, PTL
=============================================================================
