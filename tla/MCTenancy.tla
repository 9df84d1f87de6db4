------------------------------ MODULE MCTenancy ------------------------------
(* Instances of TenantData for TLC. *)
EXTENDS TenantData, TLC

MCDecision == [r \in Resources |-> IF r \in {"d1", "d2", "r1", "r2", "m1", "m2"} THEN Slot ELSE "other"]

Row(quota) == [enabled |-> TRUE, quota |-> quota]

Key(i, S) == [proj |-> i, scopes |-> S, valid |-> TRUE]

Base == [procs |-> {"p1", "p2"}, kinds |-> [c \in Calls |-> {}],
         projects |-> "i" :> Row(1) @@ "j" :> Row(2), owner |-> [r \in {} |-> None], models |-> {},
         keys |-> [k \in {} |-> None], created |-> {}, issued |-> {}, changes |-> {},
         messages |-> 0, faults |-> {}, crashes |-> 0,
         datasets |-> [r \in {} |-> None], permit |-> {}, reviews |-> [r \in {} |-> None],
         examples |-> {}, answers |-> {}]

\* Requests and a realtime connection of one project over two days, whose key
\* is revoked.
Traffic == [Base EXCEPT
    !.kinds = "c1" :> {"infer"} @@ "c2" :> {"infer"} @@ "c3" :> {"ws"},
    !.projects = "i" :> Row(1), !.keys = "k" :> Key("i", {"inference", "realtime"}),
    !.messages = 2, !.faults = {"keys"}]

\* One process, whose operator changes the project meanwhile.
TrafficAlone == [Traffic EXCEPT
    !.procs = {"p1"}, !.kinds["c3"] = {"update", "ws"}, !.messages = 1, !.faults = {},
    !.changes = {[quota |-> 2], [enabled |-> FALSE]}]

\* Two projects promote the models of a decision and roll back.
Promotions == [Base EXCEPT
    !.kinds = "c1" :> {"promote"} @@ "c2" :> {"promote", "update"} @@ "c3" :> {"promote", "rollback"},
    !.models = {"m1", "m2"}, !.owner = "m1" :> "i", !.changes = {[enabled |-> FALSE]}]

\* A project asks its models while they are deployed and rolled back.
Predictions == [Base EXCEPT
    !.procs = {"p1"},
    !.kinds = "c1" :> {"promote"} @@ "c2" :> {"promote", "rollback"}
        @@ "c3" :> {"predict", "model_predict", "infer"},
    !.models = {"m1", "m2"}, !.owner = "m2" :> "j",
    !.keys = "k" :> Key("i", {"inference", "models"}), !.crashes = 1]

Example(t, l) == [text |-> t, label |-> l, split |-> "train", review |-> None]

HeldOut(t) == [Example(t, "x") EXCEPT !.split = "validation"]

Stores == [Base EXCEPT
    !.datasets = "d1" :> {Example("a", "x"), HeldOut("c")}, !.permit = {"d1"},
    !.owner = "d1" :> "i" @@ "r1" :> "i" @@ "r2" :> "j",
    !.reviews = "r1" :> [text |-> "b", label |-> "x"] @@ "r2" :> [text |-> "b", label |-> "y"],
    !.keys = "k" :> Key("i", {"datasets", "reviews"}),
    !.examples = {{Example("b", "y"), Example("c", "y")},
                  {Example("b", "y"), Example("d", "x"), Example("e", "y")}}]

\* Models are trained, where this is allowed, while a dataset grows to more than
\* the limit, is purged and is deleted, in two processes and in one.
Training == [Stores EXCEPT
    !.datasets = @ @@ "d2" :> {Example("a", "x")}, !.owner = @ @@ "d2" :> "i",
    !.kinds = "c1" :> {"train"} @@ "c2" :> {"add", "import", "delete_dataset"}]

TrainingAlone == [Training EXCEPT !.procs = {"p1"}, !.faults = {"purge"}]

\* Datasets are created and filled with resolved reviews.
Reviewing == [Stores EXCEPT
    !.procs = {"p1"},
    !.kinds = "c1" :> {"create_dataset"} @@ "c2" :> {"import"} @@ "c3" :> {"create_review", "resolve_review"},
    !.reviews = "r1" :> [text |-> "b", label |-> None],
    !.owner = "d1" :> "i" @@ "r1" :> "i",
    !.keys = "k" :> Key("i", {"datasets", "reviews"}) @@ "l" :> Key("j", {"datasets"}),
    !.answers = {Example("b", "x"), Example(None, None)}]

\* A project is disabled, or a process ends, while a dataset is created.
Disabling == [Reviewing EXCEPT
    !.procs = {"p1", "p2"},
    !.kinds = "c1" :> {"create_dataset"} @@ "c2" :> {"update", "create_review"} @@ "c3" :> {"update"},
    !.keys = "k" :> Key("i", {"datasets", "reviews"}),
    !.changes = {[enabled |-> FALSE]}, !.crashes = 1]

\* Operators create a project and its key.
Setup == [Base EXCEPT
    !.procs = {"p1"}, !.kinds = "c1" :> {"infer"}, !.projects = "j" :> Row(1),
    !.created = {Row(1), [enabled |-> FALSE, quota |-> 1]},
    !.issued = {{"inference"}, {"reviews"}}, !.faults = {"keys"}]

Races == {Promotions, Disabling}

AllScopes == {Traffic, TrafficAlone, Promotions, Predictions, Training, TrainingAlone,
              Reviewing, Disabling, Setup}

=============================================================================
