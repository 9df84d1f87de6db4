------------------------------ MODULE TenantData ------------------------------
(***************************************************************************)
(* The project API for datasets, reviews and models: app/tenant_api.py     *)
(* over app/dataset_store.py, app/review_store.py and DatasetServices of   *)
(* app/dataset_api.py, together with the control plane.                    *)
(*                                                                         *)
(* Datasets and reviews live in SQLite files of their own, so that a row   *)
(* there and its owner are written by two transactions.                    *)
(***************************************************************************)
EXTENDS ControlPlane

CONSTANTS
    Texts, Labels,
    MinExamples,  \* the fewest rows a model is trained on
    TrainLimit    \* and the most, the LIMIT of the SELECT that reads them

Splits == {"train", "validation", "test"}

\* A row of a dataset, with the review it comes from; a row of a review.
ExampleRows == [text : Texts, label : Labels, split : Splits, review : Reviews \cup {None}]

ReviewRows == [text : Texts \cup {None}, label : Labels \cup {None}]

\* What a client sends to add an example, or to create or resolve a review.
SentRows == [text : Texts \cup {None}, label : Labels \cup {None}, split : Splits,
             review : {None}]

\* UNIQUE(dataset_id, text_sha256)
OncePerText(rows) == \A x, y \in rows : x.text = y.text => x = y

\* What is stored at the start belongs to somebody, and to one project with the
\* reviews it was made from; what is owned is known.  permit: the datasets whose
\* governance allows training, which is set when they are created.
ASSUME DataAssumption ==
    /\ {MinExamples, TrainLimit} \subseteq Nat /\ None \notin Texts \cup Labels
    /\ \A s \in Scopes :
         /\ DOMAIN s.datasets \subseteq Datasets /\ DOMAIN s.reviews \subseteq Reviews
         /\ s.permit \subseteq Datasets
         /\ \A d \in DOMAIN s.datasets :
              /\ s.datasets[d] \subseteq ExampleRows /\ OncePerText(s.datasets[d])
              /\ d \in DOMAIN s.owner
              /\ \A x \in s.datasets[d] : x.review # None =>
                   x.review \in DOMAIN s.owner /\ s.owner[x.review] = s.owner[d]
         /\ \A r \in DOMAIN s.reviews : s.reviews[r] \in ReviewRows
         /\ DOMAIN s.owner \cap (Datasets \cup Reviews) \subseteq DOMAIN s.datasets \cup DOMAIN s.reviews
         /\ s.examples \subseteq SUBSET {x \in SentRows : None \notin {x.text, x.label}}
         /\ s.answers \subseteq SentRows

VARIABLES
    datasets,   \* None, or the examples of the dataset
    reviews,    \* the row of each review: None, or its label and retained text
    used,       \* the ids given out to datasets and reviews
    lineage     \* dataset_models

dataVars == <<datasets, reviews, used, lineage>>

Live(d) == datasets[d] # None

OnlyControl == UNCHANGED <<scope, projects, owner, models, crashes, controlVars>>

OnlyGoto(c, pc) == Goto(c, pc) /\ OnlyControl /\ UNCHANGED dataVars

Ends(c, status) == Answer(c, status) /\ OnlyControl /\ UNCHANGED dataVars

-----------------------------------------------------------------------------
(* Requests *)

\* A new dataset or review has an id nobody has used.
Fresh(kind, r) ==
    /\ r \notin used
    /\ \A c \in Calls : call[c].kind = kind => call[c].res # r

Target(kind) == CASE kind \in {"create_review", "resolve_review"} -> Reviews
                  [] OTHER -> Datasets

\* rows: the examples of add_examples, or the row of a new or resolved review.
DataRequest(c, p, kind, k, r, rows) ==
    /\ Arrives(c, p, kind)
    /\ r \in Target(kind)
    /\ kind \in {"create_dataset", "create_review"} => Fresh(kind, r)
    /\ call' = [call EXCEPT ![c] = [NoCall EXCEPT !.kind = kind, !.proc = p, !.pc = "row",
                                                  !.key = k, !.res = r, !.rows = rows]]
    /\ OnlyControl /\ UNCHANGED dataVars

\* _owned
AssertOwner(c) ==
    LET a == call[c]
        next == CASE a.kind = "delete_dataset" -> "delete"
                  [] a.kind = "resolve_review" -> "resolve"
                  [] OTHER -> "exists"
    IN  /\ At(c, "owned") /\ a.kind \notin Counted
        /\ IF Owns(a.proj, a.res) THEN OnlyGoto(c, next) ELSE Ends(c, "failed")

-----------------------------------------------------------------------------
(* Datasets *)

\* DatasetStore.create; register_resource follows.
CreateDataset(c) ==
    /\ At(c, "create") /\ call[c].kind = "create_dataset"
    /\ datasets' = [datasets EXCEPT ![call[c].res] = {}]
    /\ used' = used \cup {call[c].res}
    /\ Goto(c, "require")
    /\ OnlyControl /\ UNCHANGED <<reviews, lineage>>

\* DELETE: its examples and lineage records go with it.
DropDataset(d) ==
    /\ datasets' = [datasets EXCEPT ![d] = None]
    /\ lineage' = {rec \in lineage : rec.dataset # d}
    /\ UNCHANGED <<reviews, used>>

\* Mutant: the dataset that could not be registered is kept.
KeepDataset(c) ==
    /\ At(c, "undo")
    /\ Ends(c, "failed")

UndoDataset(c) ==
    /\ At(c, "undo")
    /\ DropDataset(call[c].res)
    /\ Answer(c, "failed")
    /\ OnlyControl

DeleteDataset(c) ==
    /\ At(c, "delete")
    /\ DropDataset(call[c].res)
    /\ Goto(c, "unregister")
    /\ OnlyControl

UnregisterDataset(c) ==
    LET a == call[c]
    IN  /\ At(c, "unregister")
        /\ owner' = [owner EXCEPT ![a.res] = IF @ = a.proj THEN None ELSE @]
        /\ Answer(c, "ok")
        /\ UNCHANGED <<scope, projects, models, crashes, controlVars, dataVars>>

\* DatasetStore.get of add_examples, import_project_reviews and train; train
\* takes the fingerprint from it.
GetDataset(c) ==
    LET a == call[c]
    IN  /\ At(c, "exists")
        /\ IF ~ Live(a.res) \/ (a.kind = "train" /\ a.res \notin scope.permit)
           THEN Ends(c, "failed")
           ELSE /\ call' = [call EXCEPT
                        ![c].pc = CASE a.kind = "train" -> "rows"
                                    [] a.kind = "import" -> "list"
                                    [] OTHER -> "add",
                        ![c].print = IF a.kind = "train" THEN datasets[a.res] ELSE @]
                /\ OnlyControl /\ UNCHANGED dataVars

\* A text is in a dataset once: the first label and split stay.
NewRows(d, rows) == {x \in rows : \A y \in datasets[d] : y.text # x.text}

OneEach(rows) == {S \in SUBSET rows : /\ OncePerText(S)
                                      /\ \A x \in rows : \E y \in S : y.text = x.text}

\* add_examples inserts what is not a duplicate, of two rows with one text the
\* first in the list; nothing when the dataset is gone.
AddExamples(c) ==
    LET d == call[c].res
    IN  /\ At(c, "add")
        /\ IF Live(d)
           THEN \E S \in OneEach(NewRows(d, call[c].rows)) :
                  datasets' = [datasets EXCEPT ![d] = @ \cup S]
           ELSE UNCHANGED datasets
        /\ Answer(c, "ok")
        /\ OnlyControl /\ UNCHANGED <<reviews, used, lineage>>

\* The example a review becomes when it was resolved and its input retained.
Examples(R, split) ==
    {[text |-> reviews[r].text, label |-> reviews[r].label, split |-> split, review |-> r] :
       r \in {r \in R : reviews[r] # None /\ None \notin {reviews[r].text, reviews[r].label}}}

\* list_ids of the project's reviews, and then the resolved ones of the decision
\* (one step for these reads), all for the split of the request.
ListReviews(c) ==
    LET a == call[c]
        R == {r \in Reviews : Owns(a.proj, r) /\ Decision[r] = Decision[a.res]}
    IN  /\ At(c, "list")
        /\ IF Enabled(a.proj)
           THEN /\ \E split \in {"train", "validation"} :
                     call' = [call EXCEPT ![c].pc = "add", ![c].rows = Examples(R, split)]
                /\ OnlyControl /\ UNCHANGED dataVars
           ELSE Ends(c, "failed")

-----------------------------------------------------------------------------
(* DatasetServices.train *)

Part(rows, split) == {x \in rows : x.split = split}

\* What the SELECT returns of the rows it finds.
Limited(rows) == IF Cardinality(rows) <= TrainLimit THEN {rows}
                 ELSE {S \in SUBSET rows : Cardinality(S) = TrainLimit}

\* list_examples of the training split
ReadExamples(c) ==
    LET d == call[c].res
    IN  /\ At(c, "rows")
        /\ \/ ~ Live(d) /\ Ends(c, "failed")
           \/ /\ Live(d)
              /\ \E S \in Limited(Part(datasets[d], "train")) :
                   IF Cardinality(S) < MinExamples THEN Ends(c, "failed")
                   ELSE /\ call' = [call EXCEPT ![c].pc = "training", ![c].rows = S]
                        /\ OnlyControl /\ UNCHANGED dataVars

\* The thread that trains leaves a new model, or fails; the model is evaluated
\* on a held-out split when the client asks for it.
Train(c) ==
    LET a == call[c]
    IN  /\ At(c, "training")
        /\ \/ Answer(c, "failed") /\ UNCHANGED models
           \/ \E m \in Models \ models, next \in {"evaluate", "record"} :
                /\ Decision[m] = Decision[a.res]
                /\ models' = models \cup {m}
                /\ call' = [call EXCEPT ![c].pc = next, ![c].from = a.res, ![c].res = m]
        /\ UNCHANGED <<scope, projects, owner, crashes, controlVars, dataVars>>

\* list_examples of the held-out split; the benchmark runs in a thread when there
\* are any.
ReadHeldOut(c) ==
    LET d == call[c].from
    IN  /\ At(c, "evaluate")
        /\ IF Live(d)
           THEN \E split \in {"validation", "test"} :
                  OnlyGoto(c, IF Part(datasets[d], split) = {} THEN "record" ELSE "benchmark")
           ELSE Ends(c, "failed")

\* When it raises, the model stays, without lineage and without an owner.
Benchmark(c) ==
    /\ At(c, "benchmark")
    /\ OnlyGoto(c, "record") \/ Ends(c, "failed")

\* Mutant: the fingerprint is that of the dataset when the model is recorded.
RecordLater(c) ==
    LET a == call[c]
    IN  /\ At(c, "record")
        /\ IF Live(a.from)
           THEN /\ lineage' = lineage \cup {[model |-> a.res, dataset |-> a.from,
                                             print |-> datasets[a.from], rows |-> a.rows]}
                /\ Goto(c, "require")
           ELSE Answer(c, "failed") /\ UNCHANGED lineage
        /\ OnlyControl /\ UNCHANGED <<datasets, reviews, used>>

\* record_model; the foreign key refuses a dataset that is gone.
RecordModel(c) ==
    LET a == call[c]
    IN  /\ At(c, "record")
        /\ IF Live(a.from)
           THEN /\ lineage' = lineage \cup {[model |-> a.res, dataset |-> a.from,
                                             print |-> a.print, rows |-> a.rows]}
                /\ Goto(c, "require")
           ELSE Answer(c, "failed") /\ UNCHANGED lineage
        /\ OnlyControl /\ UNCHANGED <<datasets, reviews, used>>

-----------------------------------------------------------------------------
(* Reviews *)

\* ReviewStore.create; the input is kept when the client asks for it.
CreateReview(c) ==
    LET a == call[c]
    IN  /\ At(c, "create") /\ a.kind = "create_review"
        /\ \E x \in a.rows :
             reviews' = [reviews EXCEPT ![a.res] = [text |-> x.text, label |-> None]]
        /\ used' = used \cup {a.res}
        /\ Goto(c, "require")
        /\ OnlyControl /\ UNCHANGED <<datasets, lineage>>

\* resolve: a review that was resolved already is resolved again.
ResolveReview(c) ==
    LET a == call[c]
    IN  /\ At(c, "resolve")
        /\ IF reviews[a.res] # None
           THEN /\ \E x \in a.rows : reviews' = [reviews EXCEPT ![a.res].label = x.label]
                /\ Answer(c, "ok")
           ELSE Answer(c, "failed") /\ UNCHANGED reviews
        /\ OnlyControl /\ UNCHANGED <<datasets, used, lineage>>

\* purge_expired of the two stores: the rows of project_resources stay.
PurgeDataset(d) ==
    /\ "purge" \in scope.faults
    /\ Live(d)
    /\ DropDataset(d)
    /\ UNCHANGED <<registryVars, controlVars>>

PurgeReview(r) ==
    /\ "purge" \in scope.faults
    /\ reviews[r] # None
    /\ reviews' = [reviews EXCEPT ![r] = None]
    /\ UNCHANGED <<registryVars, controlVars, datasets, used, lineage>>

-----------------------------------------------------------------------------
Init ==
    /\ ControlInit
    /\ datasets = [d \in Datasets |-> IF d \in DOMAIN scope.datasets THEN scope.datasets[d]
                                      ELSE None]
    /\ reviews = [r \in Reviews |-> IF r \in DOMAIN scope.reviews THEN scope.reviews[r] ELSE None]
    /\ used = DOMAIN scope.datasets \cup DOMAIN scope.reviews
    /\ lineage = {}

DataStep(c) ==
    \/ AssertOwner(c)
    \/ CreateDataset(c) \/ UndoDataset(c) \/ DeleteDataset(c) \/ UnregisterDataset(c)
    \/ GetDataset(c) \/ AddExamples(c) \/ ListReviews(c)
    \/ ReadExamples(c) \/ Train(c) \/ ReadHeldOut(c) \/ Benchmark(c) \/ RecordModel(c)
    \/ CreateReview(c) \/ ResolveReview(c)

NewDataCall(c, p) ==
    \E k \in Keys :
        \/ \E d \in Datasets, kind \in {"create_dataset", "delete_dataset", "import", "train"} :
             DataRequest(c, p, kind, k, d, {})
        \/ \E d \in Datasets, rows \in scope.examples : DataRequest(c, p, "add", k, d, rows)
        \/ \E r \in Reviews, kind \in {"create_review", "resolve_review"}, x \in scope.answers :
             DataRequest(c, p, kind, k, r, {x})

DataNext ==
    \/ \E c \in Calls : DataStep(c)
    \/ \E c \in Calls, p \in Procs : NewDataCall(c, p)
    \/ \E d \in Datasets : PurgeDataset(d)
    \/ \E r \in Reviews : PurgeReview(r)

vars == <<registryVars, controlVars, dataVars>>

Next == (ControlNext /\ UNCHANGED dataVars) \/ DataNext

Spec == Init /\ [][Next]_vars

-----------------------------------------------------------------------------
(* Properties *)

DataTypeOK ==
    /\ datasets \in [Datasets -> (SUBSET ExampleRows) \cup {None}]
    /\ reviews \in [Reviews -> ReviewRows \cup {None}]
    /\ used \subseteq Reviews \cup Datasets
    /\ \A rec \in lineage : rec.model \in models /\ rec.dataset \in Datasets

\* Every variable has its type.
TypeOK == ControlTypeOK /\ DataTypeOK

Making(kind, r) == \E c \in Calls : /\ call[c].kind = kind /\ call[c].res = r
                                    /\ call[c].pc \in {"require", "select", "insert", "undo",
                                                       "crashed"}

\* A dataset without an owner is one whose creation is going on or was cut off
\* by a crash, and what reviews put into a dataset are the project's own
\* (create_project_dataset, import_project_reviews).
TenantIsolation ==
    \A d \in Datasets : Live(d) =>
        /\ owner[d] = None => Making("create_dataset", d)
        /\ \A x \in datasets[d] : x.review # None => owner[x.review] = owner[d]

\* The model of a lineage record was trained, with the permission of its dataset,
\* on training examples: on all that the fingerprint covers unless there were more
\* than the limit, on no text that it covers as held out, and on no others when
\* one process serves the store (train, record_model).
LineageExact ==
    \A rec \in lineage :
        /\ rec.dataset \in scope.permit
        /\ rec.rows = Part(rec.rows, "train")
        /\ Part(rec.print, "train") \subseteq rec.rows \/ Cardinality(rec.rows) = TrainLimit
        /\ \A x \in rec.rows, y \in rec.print : x.text = y.text => y.split = "train"
        /\ Cardinality(scope.procs) = 1 => rec.rows \subseteq rec.print

\* Every review a client created is owned.  Violated: see TenancyRaces.cfg.
ReviewsOwned ==
    \A r \in Reviews : reviews[r] # None /\ owner[r] = None => Making("create_review", r)

=============================================================================
