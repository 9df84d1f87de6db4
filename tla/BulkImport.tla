------------------------------ MODULE BulkImport ------------------------------
(***************************************************************************)
(* Durable bulk imports into candidate catalogs:                           *)
(* app/candidate_bulk_import.py and its API.                               *)
(*                                                                         *)
(* Each server process has one worker thread that claims a job, takes the  *)
(* pre-import snapshot, reads the source row by row, upserts full batches  *)
(* into the catalog and checkpoints its counters in the job's row.  The    *)
(* event loops pause, resume, cancel and retry jobs meanwhile.  A method   *)
(* of the store is one transaction; a worker runs between them without     *)
(* holding any lock.                                                       *)
(***************************************************************************)
EXTENDS Naturals, FiniteSets, FiniteSetsExt

CONSTANTS
    Jobs,        \* import jobs, numbered in the order of created_at
    Procs,       \* server processes
    Catalogs,    \* candidate catalogs of the project
    CatalogOf,   \* the catalog a job imports into
    BatchSize,
    Scopes,      \* the deployments explored: the processes, the number of
                 \* logical rows of the source, those that do not parse or
                 \* validate, max_rows and on_error of each job, the control
                 \* requests operators send, the faults, and the bound on
                 \* process crashes
    None

ASSUME JobAssumption ==
    /\ Jobs \subseteq Nat
    /\ CatalogOf \in [Jobs -> Catalogs]
    /\ BatchSize \in Nat \ {0}
    /\ \A s \in Scopes :
         /\ s.procs \subseteq Procs
         /\ {s.rows, s.crashes} \subseteq Nat
         /\ s.bad \subseteq 1 .. s.rows
         /\ s.maxRows \in [Jobs -> Nat]
         /\ s.onError \in [Jobs -> {"continue", "stop"}]
         /\ s.controls \subseteq {"pause", "resume", "cancel", "retry"}
         /\ s.faults \subseteq {"slow", "io", "delete"}

ASSUME NoneApart ==
    /\ None \notin Jobs
    /\ None \notin Procs
    /\ None \notin {"live", "expired", "clean", "dirty"}

VARIABLES
    scope,       \* chosen at the start
    job,         \* the rows of candidate_import_jobs
    failures,    \* candidate_import_failures: [row, retryable] of each job
    written,     \* rows of each job that were upserted into its catalog
    catalogs,    \* the catalogs that exist
    work,        \* the worker thread of each process
    crashes

vars == <<scope, job, failures, written, catalogs, work, crashes>>

-----------------------------------------------------------------------------
(* The deployment *)

SourceRows == scope.rows

Rows == 1 .. SourceRows

Bad == scope.bad

MaxRows == scope.maxRows

OnError == scope.onError

Controls == scope.controls

\* slow: a live worker may be too slow to renew its lease
\* io: an upsert, or a statement of the job store, may fail
\* delete: a catalog may be deleted while it has jobs
Faults == scope.faults

MaxCrashes == scope.crashes

-----------------------------------------------------------------------------
(* Data *)

JobStatus == {"queued", "running", "paused", "completed",
              "completed_with_errors", "failed", "cancelled"}

Terminal == {"completed", "completed_with_errors", "failed", "cancelled"}

\* snap tells whether the snapshot of snapshot_id was taken before the job's
\* first write ("clean") or after one ("dirty").  processed_rows is ok + bad:
\* the code writes the three columns together.
JobRow == [status : JobStatus \cup {"none"}, worker : Procs \cup {None},
           lease : {"live", "expired", None}, cursor : Nat, ok : Nat, bad : Nat,
           snap : {"clean", "dirty", None}, parent : Jobs \cup {None}]

FreeRow == [status |-> "none", worker |-> None, lease |-> None, cursor |-> 0,
            ok |-> 0, bad |-> 0, snap |-> None, parent |-> None]

WorkPcs == {"idle", "claimed", "open", "snapshot", "set_snapshot", "row",
            "bad_record", "bad_checkpoint", "check", "flush", "record",
            "checkpoint", "status", "finish_check", "finish", "fail", "dead"}

\* The local variables of process_job: rows still to read, the batch, the
\* rows of the batch still to be recorded as failures, the counters, the
\* cursor of the next checkpoint.
WorkState == [pc : WorkPcs, job : Jobs \cup {None}, todo : SUBSET Rows,
              batch : SUBSET Rows, left : SUBSET Rows, cursor : Nat,
              ok : Nat, bad : Nat,
              snap : {"clean", "dirty", None}, stop : BOOLEAN]

NoWork == [pc |-> "idle", job |-> None, todo |-> {}, batch |-> {},
           left |-> {}, cursor |-> 0, ok |-> 0, bad |-> 0, snap |-> None, stop |-> FALSE]

Processed(r) == r.ok + r.bad

Retryable(j) == {f.row : f \in {x \in failures[j] : x.retryable}}

IsRetry(j) == job[j].parent # None

\* record_failure: one row per job and source row, the last one wins.
WithFailure(j, r, retryable) ==
    {f \in failures[j] : f.row # r} \cup {[row |-> r, retryable |-> retryable]}

Step(p, pc) == work' = [work EXCEPT ![p].pc = pc]

Quit(p) == work' = [work EXCEPT ![p] = NoWork]

Init ==
    /\ scope \in Scopes
    /\ job = [j \in Jobs |-> FreeRow]
    /\ failures = [j \in Jobs |-> {}]
    /\ written = [j \in Jobs |-> {}]
    /\ catalogs = Catalogs
    /\ work = [p \in Procs |-> NoWork]
    /\ crashes = 0

-----------------------------------------------------------------------------
(* The API *)

NextFree(j) ==
    /\ job[j].status = "none"
    /\ \A older \in Jobs : older < j => job[older].status # "none"

Create(j) ==
    /\ NextFree(j)
    /\ CatalogOf[j] \in catalogs
    /\ job' = [job EXCEPT ![j].status = "queued"]
    /\ UNCHANGED <<failures, written, catalogs, work, crashes>>

\* create_retry_job: a child job for the retryable failures of its parent.
CreateRetry(j, parent) ==
    /\ "retry" \in Controls
    /\ NextFree(j)
    /\ CatalogOf[j] = CatalogOf[parent] /\ OnError[j] = OnError[parent]
    /\ job[parent].status \in {"completed_with_errors", "failed"}
    /\ Retryable(parent) # {}
    /\ job' = [job EXCEPT ![j].status = "queued", ![j].parent = parent]
    /\ UNCHANGED <<failures, written, catalogs, work, crashes>>

\* A control request releases the lease whatever the worker is doing.
Release(j, status) ==
    job' = [job EXCEPT ![j] = [@ EXCEPT !.status = status, !.worker = None,
                                        !.lease = None]]

Pause(j) ==
    /\ "pause" \in Controls
    /\ job[j].status \in {"queued", "running"}
    /\ Release(j, "paused")
    /\ UNCHANGED <<failures, written, catalogs, work, crashes>>

Resume(j) ==
    /\ "resume" \in Controls
    /\ job[j].status = "paused"
    /\ job' = [job EXCEPT ![j].status = "queued"]
    /\ UNCHANGED <<failures, written, catalogs, work, crashes>>

Cancel(j) ==
    /\ "cancel" \in Controls
    /\ job[j].status \in {"queued", "running", "paused"}
    /\ Release(j, "cancelled")
    /\ UNCHANGED <<failures, written, catalogs, work, crashes>>

-----------------------------------------------------------------------------
(* claim_next and process_job *)

\* Mutant: claim_next without its NOT EXISTS.
ClaimableAlone(j) ==
    \/ job[j].status = "queued"
    \/ job[j].status = "running" /\ job[j].lease = "expired"

\* Mutant: claim_next does not take over an expired lease.
ClaimableQueued(j) ==
    /\ job[j].status = "queued"
    /\ ~ \E k \in Jobs \ {j} : /\ CatalogOf[k] = CatalogOf[j]
                              /\ job[k].status = "running"
                              /\ job[k].lease = "live"

Claimable(j) ==
    /\ \/ job[j].status = "queued"
       \/ job[j].status = "running" /\ job[j].lease = "expired"
    /\ ~ \E k \in Jobs \ {j} : /\ CatalogOf[k] = CatalogOf[j]
                              /\ job[k].status = "running"
                              /\ job[k].lease = "live"

Claim(p) ==
    /\ work[p].pc = "idle"
    /\ \E j \in Jobs :
          /\ Claimable(j)
          /\ \A older \in Jobs : Claimable(older) => j <= older
          /\ job' = [job EXCEPT ![j] = [@ EXCEPT !.status = "running",
                                                 !.worker = p, !.lease = "live"]]
          /\ work' = [work EXCEPT ![p] = [NoWork EXCEPT !.pc = "claimed", !.job = j]]
    /\ UNCHANGED <<failures, written, catalogs, crashes>>

\* get_job_row: the worker's copy of the row, and the rows it will read.  A
\* retry starts from nothing, over the failures its parent has now.
ReadJob(p) ==
    LET j == work[p].job
        r == job[j]
    IN  /\ work[p].pc = "claimed"
        /\ work' = [work EXCEPT ![p] =
              IF IsRetry(j)
              THEN [@ EXCEPT !.pc = "open", !.todo = Retryable(r.parent)]
              ELSE [@ EXCEPT !.pc = "open", !.cursor = r.cursor,
                             !.todo = {n \in Rows : n > r.cursor},
                             !.ok = r.ok, !.bad = r.bad, !.snap = r.snap]]
        /\ UNCHANGED <<job, failures, written, catalogs, crashes>>

\* Mutant: a takeover takes a snapshot although the row names one.
OpenJobSnapshotsAgain(p) ==
    LET j == work[p].job
    IN  /\ work[p].pc = "open"
        /\ IF CatalogOf[j] \notin catalogs
           THEN Step(p, "dead") /\ UNCHANGED job
           ELSE /\ Step(p, IF IsRetry(j) THEN "row" ELSE "snapshot")
                /\ job' = IF job[j].worker = p /\ job[j].status = "running"
                          THEN [job EXCEPT ![j].lease = "live"] ELSE job
        /\ UNCHANGED <<failures, written, catalogs, crashes>>

\* get_catalog, then heartbeat.  The exception for a catalog that is gone is
\* not caught: it ends _run_loop.
OpenJob(p) ==
    LET j == work[p].job
    IN  /\ work[p].pc = "open"
        /\ IF CatalogOf[j] \notin catalogs
           THEN Step(p, "dead") /\ UNCHANGED job
           ELSE /\ Step(p, IF IsRetry(j) \/ work[p].snap # None
                           THEN "row" ELSE "snapshot")
                /\ job' = IF job[j].worker = p /\ job[j].status = "running"
                          THEN [job EXCEPT ![j].lease = "live"] ELSE job
        /\ UNCHANGED <<failures, written, catalogs, crashes>>

TakeSnapshot(p) ==
    LET j == work[p].job
    IN  /\ work[p].pc = "snapshot"
        /\ work' = [work EXCEPT ![p] =
              IF CatalogOf[j] \notin catalogs THEN [@ EXCEPT !.pc = "dead"]
              ELSE [@ EXCEPT !.pc = "set_snapshot",
                             !.snap = IF written[j] = {} THEN "clean" ELSE "dirty"]]
        /\ UNCHANGED <<job, failures, written, catalogs, crashes>>

\* set_snapshot names no worker in its WHERE clause.
SetSnapshot(p) ==
    /\ work[p].pc = "set_snapshot"
    /\ job' = [job EXCEPT ![work[p].job].snap = work[p].snap]
    /\ Step(p, "row")
    /\ UNCHANGED <<failures, written, catalogs, crashes>>

-----------------------------------------------------------------------------
(* The rows of the source *)

\* Before each row a retry looks whether it was paused or cancelled.
Interrupted(p) == IsRetry(work[p].job)
                  /\ job[work[p].job].status \in {"paused", "cancelled"}

TooMany(p, r) == ~ IsRetry(work[p].job) /\ r > MaxRows[work[p].job]

\* A row that parses joins the batch; a full batch is flushed.
ReadRow(p) ==
    LET w == work[p]
        r == Min(w.todo)
        batch == w.batch \cup {r}
    IN  /\ w.pc = "row"
        /\ w.todo # {}
        /\ IF Interrupted(p) THEN Quit(p)
           ELSE IF TooMany(p, r) THEN Step(p, "fail")
           ELSE work' = [work EXCEPT ![p] =
              IF r \in Bad
              THEN [w EXCEPT !.pc = "bad_record", !.todo = w.todo \ {r}, !.cursor = r,
                             !.bad = w.bad + 1]
              ELSE [w EXCEPT !.todo = w.todo \ {r}, !.batch = batch,
                             !.pc = IF Cardinality(batch) < BatchSize THEN "row"
                                    ELSE IF IsRetry(w.job) THEN "flush" ELSE "check"]]
        /\ UNCHANGED <<job, failures, written, catalogs, crashes>>

\* Mutant: the end of the source drops the partial batch.
EndOfSourceDropsBatch(p) ==
    /\ work[p].pc = "row"
    /\ work[p].todo = {}
    /\ Step(p, "finish_check")
    /\ UNCHANGED <<job, failures, written, catalogs, crashes>>

\* The end of the source: the last batch, or the end of the job.
EndOfSource(p) ==
    /\ work[p].pc = "row"
    /\ work[p].todo = {}
    /\ Step(p, IF work[p].batch = {} THEN "finish_check"
               ELSE IF IsRetry(work[p].job) THEN "flush" ELSE "check")
    /\ UNCHANGED <<job, failures, written, catalogs, crashes>>

BadRecord(p) ==
    LET j == work[p].job
    IN  /\ work[p].pc = "bad_record"
        /\ failures' = [failures EXCEPT ![j] = WithFailure(j, work[p].cursor, FALSE)]
        /\ Step(p, "bad_checkpoint")
        /\ UNCHANGED <<job, written, catalogs, crashes>>

\* Mutant: the checkpoint adds the counters to those of the row.
SaveCountersAdded(p) ==
    LET j == work[p].job
    IN  job' = IF job[j].worker = p
               THEN [job EXCEPT ![j] = [@ EXCEPT !.cursor = work[p].cursor,
                                                 !.ok = @ + work[p].ok,
                                                 !.bad = @ + work[p].bad,
                                                 !.lease = "live"]]
               ELSE job

\* checkpoint: the counters, if the row still names this worker.
SaveCounters(p) ==
    LET j == work[p].job
    IN  job' = IF job[j].worker = p
               THEN [job EXCEPT ![j] = [@ EXCEPT !.cursor = work[p].cursor,
                                                 !.ok = work[p].ok, !.bad = work[p].bad,
                                                 !.lease = "live"]]
               ELSE job

\* The cursor goes past rows that are still in the batch.
BadCheckpoint(p) ==
    /\ work[p].pc = "bad_checkpoint"
    /\ SaveCounters(p)
    /\ Step(p, IF OnError[work[p].job] = "stop" THEN "fail" ELSE "row")
    /\ UNCHANGED <<failures, written, catalogs, crashes>>

CheckCancelled(p) ==
    /\ work[p].pc = "check"
    /\ IF job[work[p].job].status = "cancelled" THEN Quit(p) ELSE Step(p, "flush")
    /\ UNCHANGED <<job, failures, written, catalogs, crashes>>

\* The cursor of the checkpoint that follows a batch: the last row of the
\* batch, or the number of payloads a retry has done.
NextCursor(p) ==
    IF IsRetry(work[p].job) THEN work[p].ok + work[p].bad + Cardinality(work[p].batch)
    ELSE Max(work[p].batch)

\* upsert_items: one transaction for the whole batch.
Flush(p) ==
    LET w == work[p]
    IN  /\ w.pc = "flush"
        /\ CatalogOf[w.job] \in catalogs
        /\ written' = [written EXCEPT ![w.job] = @ \cup w.batch]
        /\ work' = [work EXCEPT ![p] =
              [w EXCEPT !.pc = "checkpoint", !.ok = w.ok + Cardinality(w.batch),
                        !.cursor = NextCursor(p)]]
        /\ UNCHANGED <<job, failures, catalogs, crashes>>

FlushFails(p) ==
    /\ work[p].pc = "flush"
    /\ "io" \in Faults \/ CatalogOf[work[p].job] \notin catalogs
    /\ work' = [work EXCEPT ![p].pc = "record", ![p].left = work[p].batch]
    /\ UNCHANGED <<job, failures, written, catalogs, crashes>>

\* Every row of the batch is recorded as a failure that may be retried, each
\* in a transaction of its own.
RecordRow(p) ==
    LET j == work[p].job
        r == Min(work[p].left)
    IN  /\ work[p].pc = "record"
        /\ work[p].left # {}
        /\ failures' = [failures EXCEPT ![j] = WithFailure(j, r, TRUE)]
        /\ work' = [work EXCEPT ![p].left = @ \ {r}]
        /\ UNCHANGED <<job, written, catalogs, crashes>>

BatchRecorded(p) ==
    LET w == work[p]
    IN  /\ w.pc = "record"
        /\ w.left = {}
        /\ work' = [work EXCEPT ![p] =
              [w EXCEPT !.pc = "checkpoint", !.bad = w.bad + Cardinality(w.batch),
                        !.cursor = NextCursor(p), !.stop = (OnError[w.job] = "stop")]]
        /\ UNCHANGED <<job, failures, written, catalogs, crashes>>

\* A full batch is followed by the next row, a partial one was the last.
Checkpoint(p) ==
    LET full == Cardinality(work[p].batch) = BatchSize
    IN  /\ work[p].pc = "checkpoint"
        /\ SaveCounters(p)
        /\ work' = [work EXCEPT ![p] =
              [@ EXCEPT !.batch = {},
                        !.pc = IF work[p].stop THEN "fail"
                               ELSE IF ~ full THEN "finish_check"
                               ELSE IF IsRetry(work[p].job) THEN "row"
                               ELSE "status"]]
        /\ UNCHANGED <<failures, written, catalogs, crashes>>

\* The batch boundary at which a pause or a cancellation takes effect.
CheckStatus(p) ==
    /\ work[p].pc = "status"
    /\ IF job[work[p].job].status \in {"paused", "cancelled"} THEN Quit(p)
       ELSE Step(p, "row")
    /\ UNCHANGED <<job, failures, written, catalogs, crashes>>

FinishCheck(p) ==
    /\ work[p].pc = "finish_check"
    /\ IF job[work[p].job].status = "running" THEN Step(p, "finish") ELSE Quit(p)
    /\ UNCHANGED <<job, failures, written, catalogs, crashes>>

\* Mutant: the job completes whatever failed.
FinishClean(p) ==
    /\ work[p].pc = "finish"
    /\ Release(work[p].job, "completed")
    /\ Quit(p)
    /\ UNCHANGED <<failures, written, catalogs, crashes>>

\* finish and fail name neither the worker nor the status in their WHERE clauses.
Finish(p) ==
    /\ work[p].pc = "finish"
    /\ Release(work[p].job, IF work[p].bad = 0 THEN "completed"
                            ELSE "completed_with_errors")
    /\ Quit(p)
    /\ UNCHANGED <<failures, written, catalogs, crashes>>

Fail(p) ==
    /\ work[p].pc = "fail"
    /\ Release(work[p].job, "failed")
    /\ Quit(p)
    /\ UNCHANGED <<failures, written, catalogs, crashes>>

-----------------------------------------------------------------------------
(* Faults, crashes and the clock *)

\* The steps whose exceptions process_job turns into a failed job, and those
\* whose exceptions end _run_loop.
Caught == {"row", "bad_record", "bad_checkpoint", "check", "record",
           "checkpoint", "status", "finish_check", "finish"}

Uncaught == {"idle", "claimed", "open", "snapshot", "set_snapshot", "fail"}

IoFails(p) ==
    /\ "io" \in Faults
    /\ \/ work[p].pc \in Caught /\ Step(p, "fail")
       \/ work[p].pc \in Uncaught /\ Step(p, "dead")
    /\ UNCHANGED <<job, failures, written, catalogs, crashes>>

\* The worker that holds the lease of j has left the job.
Abandoned(j) ==
    ~ \E p \in Procs : /\ work[p].job = j
                      /\ work[p].pc # "dead"
                      /\ job[j].worker = p

\* A lease expires when its holder is gone, or too slow to renew it.
Expire(j) ==
    /\ job[j].lease = "live"
    /\ "slow" \in Faults \/ Abandoned(j)
    /\ job' = [job EXCEPT ![j].lease = "expired"]
    /\ UNCHANGED <<failures, written, catalogs, work, crashes>>

DeleteCatalog(c) ==
    /\ "delete" \in Faults
    /\ c \in catalogs
    /\ catalogs' = catalogs \ {c}
    /\ UNCHANGED <<job, failures, written, work, crashes>>

\* A process dies and starts again with an idle worker.
Crash(p) ==
    /\ crashes < MaxCrashes
    /\ work[p].pc # "idle"
    /\ Quit(p)
    /\ crashes' = crashes + 1
    /\ UNCHANGED <<job, failures, written, catalogs>>

-----------------------------------------------------------------------------
(* The specification *)

Work(p) ==
    \/ Claim(p) \/ ReadJob(p) \/ OpenJob(p)
    \/ TakeSnapshot(p) \/ SetSnapshot(p)
    \/ ReadRow(p) \/ EndOfSource(p) \/ BadRecord(p) \/ BadCheckpoint(p)
    \/ CheckCancelled(p) \/ Flush(p) \/ FlushFails(p)
    \/ RecordRow(p) \/ BatchRecorded(p) \/ Checkpoint(p) \/ CheckStatus(p)
    \/ FinishCheck(p) \/ Finish(p) \/ Fail(p)

Request(j) ==
    \/ Create(j)
    \/ \E parent \in Jobs : CreateRetry(j, parent)
    \/ Pause(j) \/ Resume(j) \/ Cancel(j)

Next ==
    /\ \/ \E p \in scope.procs : Work(p) \/ IoFails(p) \/ Crash(p)
       \/ \E j \in Jobs : Request(j) \/ Expire(j)
       \/ \E c \in Catalogs : DeleteCatalog(c)
    /\ UNCHANGED scope

Spec == Init /\ [][Next]_vars

\* Worker threads run, also when statements of theirs fail, and the clock
\* passes the lease of a worker that is gone.  Nobody has to send a request,
\* and no statement has to fail.
FairSpec ==
    /\ Spec
    /\ \A p \in Procs : WF_vars(p \in scope.procs /\ Work(p) /\ UNCHANGED scope)
    /\ \A j \in Jobs : WF_vars(Abandoned(j) /\ Expire(j) /\ UNCHANGED scope)

-----------------------------------------------------------------------------
(* Properties *)

\* The rows, the failures and the workers' locals have their types.
TypeOK ==
    /\ scope \in Scopes
    /\ job \in [Jobs -> JobRow]
    /\ failures \in [Jobs -> SUBSET [row : Rows, retryable : BOOLEAN]]
    /\ written \in [Jobs -> SUBSET Rows]
    /\ catalogs \subseteq Catalogs
    /\ work \in [Procs -> WorkState]
    /\ crashes \in 0 .. MaxCrashes

Failed(j) == {f.row : f \in failures[j]}

Feeding(p) == work[p].pc \notin {"idle", "dead"}

\* No request and no slow worker takes a job from a worker that goes on with it.
Undisturbed == Controls \subseteq {"retry"} /\ "slow" \notin Faults

\* One worker, which is never started again.
Solo == (\A p, q \in scope.procs : p = q) /\ MaxCrashes = 0

\* No worker goes on from a checkpoint that passed buffered rows: there is no bad
\* row whose checkpoint does, or nobody to take over.
NothingPassed == Bad = {} \/ Solo

\* Two workers never feed the same catalog at the same time: the NOT EXISTS of
\* claim_next and the lease exclude each other's jobs.  A pause releases the
\* lease of a worker that still writes: see ImportTwoFeeds.cfg.
AlwaysOneFeed ==
    \A p, q \in Procs :
        p # q /\ Feeding(p) /\ Feeding(q)
           => CatalogOf[work[p].job] # CatalogOf[work[q].job]

OneFeed == Undisturbed => AlwaysOneFeed

\* A job that completed has written, or recorded as failed, every row of its
\* source, whatever crash, replay or pause came in between.  The checkpoint of
\* a bad row passes rows that a crash then loses: see ImportLostRow.cfg.
AllRowsAccounted ==
    \A j \in Jobs :
        /\ job[j].status \in {"completed", "completed_with_errors"}
        /\ ~ IsRetry(j)
        => Rows \subseteq written[j] \cup Failed(j)

RowsAccounted == NothingPassed => AllRowsAccounted

\* The counters of a completed import add up to the rows of its source: a
\* replayed batch is not counted twice and none is left out, as long as no bad
\* row moves the cursor past rows that are counted later and no late worker
\* finishes the job of another.
CountersExact ==
    Undisturbed /\ Bad = {} =>
        \A j \in Jobs :
            /\ job[j].status \in {"completed", "completed_with_errors"}
            /\ ~ IsRetry(j)
            => Processed(job[j]) = SourceRows

\* The pre-import snapshot that a job's row names was taken before the job
\* wrote anything, after any number of takeovers; after a pause a second worker
\* may take it later: see ImportControls.cfg.
SnapshotAlwaysClean == \A j \in Jobs : job[j].snap # "dirty"

SnapshotClean == Undisturbed => SnapshotAlwaysClean

\* A retry that completed without errors has written every row its parent
\* recorded as retryable, when no late worker of the parent records more.
RetryResolves ==
    Undisturbed =>
        \A j \in Jobs :
            IsRetry(j) /\ job[j].status = "completed"
               => Retryable(job[j].parent) \subseteq written[j]

\* A terminal status is final: no late worker changes it.  The worker of a
\* cancelled job may: see ImportControls.cfg.
AlwaysFinal ==
    [][\A j \in Jobs : job[j].status \in Terminal
                          => job'[j].status = job[j].status]_vars

\* Every job that is queued or running ends or is paused, whichever worker
\* crashes, is slow or meets a failing statement, whatever operators pause or
\* cancel and whichever catalog they delete, while one worker's loop is left: an
\* exception outside process_job's try ends a loop, and jobs wait for ever when
\* it was the last.  A job may also wait behind an older one that operators
\* resume for ever.
JobSettles ==
    <>[][\A k \in Jobs : ~ Resume(k)]_vars =>
        \A j \in Jobs :
            job[j].status \in {"queued", "running"}
               ~> \/ job[j].status \in Terminal \cup {"paused"}
                  \/ \A p \in scope.procs : work[p].pc = "dead"
=============================================================================
