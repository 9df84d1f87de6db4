----------------------------- MODULE MCBulkImport -----------------------------
(***************************************************************************)
(* Small instances of BulkImport for TLC.                                  *)
(***************************************************************************)
EXTENDS BulkImport

CONSTANTS p1, p2, c1

OneJob == {1}
TwoJobs == {1, 2}

SameCatalog == [j \in Jobs |-> c1]

\* The first job stops at the first bad row, or neither does.
FirstStops == [j \in Jobs |-> IF j = 1 THEN "stop" ELSE "continue"]
AllContinue == [j \in Jobs |-> "continue"]

\* Two processes, a source without bad rows, nothing that goes wrong.
Base == [procs |-> {p1, p2}, rows |-> 3, bad |-> {}, maxRows |-> [j \in Jobs |-> 3],
         onError |-> AllContinue, controls |-> {}, faults |-> {}, crashes |-> 0]

\* Two workers and failing statements; the second job may be a retry.
Workers == [Base EXCEPT !.controls = {"retry"}, !.faults = {"io"}]

\* The same with a worker that is started again: the only one, or one of two
\* that import one batch.
Restarted == [Workers EXCEPT !.procs = {p1}, !.crashes = 1]
RestartedOfTwo == [Workers EXCEPT !.rows = 2, !.crashes = 1]

\* Two workers whose jobs operators pause, resume and cancel and whose catalog
\* they delete, while all statements succeed; the second source is too long.
Operated == [Base EXCEPT
    !.rows = 2, !.maxRows = [j \in Jobs |-> IF j = 1 THEN 2 ELSE 0],
    !.controls = {"pause", "resume", "cancel"}, !.faults = {"delete"}]

\* One worker, bad rows, control requests, failing statements and the deletion
\* of the catalog.
Controlled == [Base EXCEPT
    !.procs = {p1}, !.rows = 4, !.bad = {2, 4}, !.maxRows = [j \in Jobs |-> 4],
    !.onError = FirstStops, !.controls = {"pause", "resume", "cancel"},
    !.faults = {"io", "delete"}]

\* Two workers that may be slow, and a crash; the second source is too long.
Slow == [Base EXCEPT
    !.bad = {2}, !.maxRows = [j \in Jobs |-> IF j = 1 THEN 3 ELSE 2],
    !.onError = FirstStops, !.faults = {"slow"}, !.crashes = 1]

AllScopes == {Workers, Restarted, RestartedOfTwo, Operated, Controlled, Slow}

\* The scopes of the behaviours the README describes.
BadRowCrash == {[Base EXCEPT !.procs = {p1}, !.bad = {2}, !.crashes = 1]}
CancelledOrPaused == {[Base EXCEPT !.procs = {p1}, !.controls = {"cancel"}],
                      [Base EXCEPT !.controls = {"pause", "resume"}]}
Paused == {[Base EXCEPT !.controls = {"pause"}]}
=============================================================================
