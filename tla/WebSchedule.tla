------------------------------ MODULE WebSchedule ------------------------------
(***************************************************************************)
(* Scheduled audits: the connectors, the schedules and the scheduler loop  *)
(* of app/web_change_management.py, started by app/web_intelligence_api.py.*)
(*                                                                         *)
(* Each server process may run one scheduler loop on its event loop.  The  *)
(* loop claims due schedules in one transaction, reads each of them again, *)
(* and then audits them one after the other.  It awaits while an audit     *)
(* runs and between two polls; requests of its process come in only then,  *)
(* and the other processes at any statement.  What an audit stages is      *)
(* modelled in WebChange: here it ends well or it does not.  The names are *)
(* others than there: WebChangeProofs extends both modules.                *)
(***************************************************************************)
EXTENDS Naturals, Sequences, SequencesExt

CONSTANTS
    Servers,     \* server processes that share the database
    Connectors,
    Schedules,
    Interval,    \* the interval of a schedule, in units of the clock
    ClaimLimit,  \* the limit of claim_due_schedules
    Scopes,      \* the deployments explored: the processes and those with a
                 \* scheduler, the statements that may fail, the requests
                 \* operators send, and the bound on crashes and restarts
    Null

ASSUME ScheduleAssumption ==
    /\ IsFiniteSet(Schedules)
    /\ Interval \in [Schedules -> Nat \ {0}]
    /\ ClaimLimit \in Nat \ {0}
    /\ \A s \in Scopes : /\ s.procs \subseteq Servers
                         /\ s.schedulers \subseteq s.procs
                         /\ s.faults \subseteq {"busy"}
                         /\ s.requests \subseteq {"disabled", "test", "delete", "stop"}
                         /\ s.crashes \in Nat

VARIABLES
    scope,       \* chosen at the start
    connector,   \* web_connectors: the enabled flag and the last test
    schedule,    \* the schedules made so far; due is the time to next_run_at
    order,       \* web_audit_schedules, by next_run_at
    latest,      \* the newest row of web_audit_runs of each schedule
    writer,      \* the process whose transaction holds the write lock
    dangling,    \* processes whose connection was left in a transaction
    loop,        \* the scheduler of each process
    stops

scheduleVars == <<scope, connector, schedule, order, latest, writer, dangling, loop, stops>>

-----------------------------------------------------------------------------
(* Data *)

Connector == [enabled : BOOLEAN, test : {"ok", "failed", Null}]

LastStatus == {"running", "completed", "failed", Null}

Schedule == [conn : Connectors, enabled : BOOLEAN, due : Nat, last : LastStatus]

Exists(s) == s \in ToSet(order)

LoopPcs == {"off", "poll", "write", "refresh", "next", "audit", "ended", "finish",
            "sleep", "dead"}

\* rows: selected by the claim; todo: claimed and not audited yet; mine: the
\* run of the audit is the newest of its schedule.
LoopState == [pc : LoopPcs, rows : Seq(Schedules), todo : Seq(Schedules),
              cur : Schedules \cup {Null}, mine : BOOLEAN,
              out : {"completed", "failed", Null}]

NoLoop == [pc |-> "off", rows |-> << >>, todo |-> << >>, cur |-> Null,
           mine |-> FALSE, out |-> Null]

ASSUME NullAssumption == Null \notin Servers \cup Schedules \cup Connector \cup Schedule

ScheduleInit ==
    /\ scope \in Scopes
    /\ connector = [c \in Connectors |-> Null]
    /\ schedule = [s \in Schedules |-> Null]
    /\ order = << >>
    /\ latest = [s \in Schedules |-> Null]
    /\ writer = Null
    /\ dangling = {}
    /\ loop = [p \in Servers |-> NoLoop]
    /\ stops = 0

\* The event loop of p is free: no handler runs between two awaits.
NotInLoop(p) == p \in scope.procs /\ loop[p].pc \in {"off", "audit", "sleep", "dead"}

\* A statement of p that writes waits for the lock of another process.
CanWrite(p) == writer \in {Null, p}

\* With the lock held for too long it raises instead.
MayFail == "busy" \in scope.faults

\* commit() ends whatever transaction the connection of p was in.
Committed(p) == dangling' = dangling \ {p}

LoopGoto(p, pc) == loop' = [loop EXCEPT ![p].pc = pc]

Before(s, t) == \E i, j \in DOMAIN order : i < j /\ order[i] = s /\ order[j] = t

\* S by next_run_at.  It has microseconds: schedules due at the same unit keep
\* the order they have, and those whose time was just set may be either way.
Arranged(S, moved, table) ==
    {seq \in SetToSeqs(S) :
        \A i, j \in DOMAIN seq : i < j =>
            /\ table[seq[i]].due <= table[seq[j]].due
            /\ {seq[i], seq[j]} \cap moved = {} => Before(seq[i], seq[j])}

-----------------------------------------------------------------------------
(* Requests *)

CreateConnector(p, c) ==
    /\ NotInLoop(p) /\ CanWrite(p)
    /\ connector[c] = Null
    /\ \E on \in {TRUE} \cup (IF "disabled" \in scope.requests THEN {FALSE} ELSE {}) :
         connector' = [connector EXCEPT ![c] = [enabled |-> on, test |-> Null]]
    /\ Committed(p)
    /\ UNCHANGED <<scope, schedule, order, latest, writer, loop, stops>>

\* An INSERT whose lock does not come leaves the transaction that sqlite3 has
\* begun for it open.
InsertFails(p) ==
    /\ NotInLoop(p) /\ MayFail
    /\ p \notin dangling
    /\ dangling' = dangling \cup {p}
    /\ UNCHANGED <<scope, connector, schedule, order, latest, writer, loop, stops>>

\* A connector is never deleted, so that its test can only record its outcome.
TestConnector(p, c) ==
    /\ NotInLoop(p) /\ CanWrite(p)
    /\ "test" \in scope.requests
    /\ connector[c] # Null
    /\ \E outcome \in {"ok", "failed"} : connector' = [connector EXCEPT ![c].test = outcome]
    /\ Committed(p)
    /\ UNCHANGED <<scope, schedule, order, latest, writer, loop, stops>>

CreateSchedule(p, s, c) ==
    /\ NotInLoop(p) /\ CanWrite(p)
    /\ schedule[s] = Null
    /\ connector[c] # Null
    /\ \E on \in {TRUE} \cup (IF "disabled" \in scope.requests THEN {FALSE} ELSE {}) :
         schedule' = [schedule EXCEPT ![s] =
            [conn |-> c, enabled |-> on, due |-> Interval[s], last |-> Null]]
    /\ order' \in Arranged(ToSet(order) \cup {s}, {s}, schedule')
    /\ Committed(p)
    /\ UNCHANGED <<scope, connector, latest, writer, loop, stops>>

DeleteSchedule(p, s) ==
    /\ NotInLoop(p) /\ CanWrite(p)
    /\ "delete" \in scope.requests
    /\ Exists(s)
    /\ order' \in Arranged(ToSet(order) \ {s}, {}, schedule)
    /\ schedule' = [schedule EXCEPT ![s].last = Null]
    /\ Committed(p)
    /\ UNCHANGED <<scope, connector, latest, writer, loop, stops>>

-----------------------------------------------------------------------------
(* The scheduler loop *)

StartScheduler(p) ==
    /\ p \in scope.schedulers
    /\ loop[p].pc = "off"
    /\ LoopGoto(p, "poll")
    /\ UNCHANGED <<scope, connector, schedule, order, latest, writer, dangling, stops>>

Due(s) == Exists(s) /\ schedule[s].enabled /\ schedule[s].due = 0

\* Mutant: the due schedules are taken in any order.
SelectAny == SetToSeqs({s \in ToSet(order) : Due(s)})

\* ORDER BY next_run_at
SelectDue == Arranged({s \in ToSet(order) : Due(s)}, {}, schedule)

Limited(seq) == SubSeq(seq, 1, IF Len(seq) < ClaimLimit THEN Len(seq) ELSE ClaimLimit)

\* Mutant: the schedules are read before the transaction begins.
LockNone(p) == UNCHANGED writer

LockDatabase(p) == writer = Null /\ writer' = p

\* BEGIN IMMEDIATE and the SELECT of claim_due_schedules
ClaimBegin(p) ==
    /\ loop[p].pc = "poll"
    /\ p \notin dangling
    /\ LockDatabase(p)
    /\ \E due \in SelectDue :
         loop' = [loop EXCEPT ![p] = [loop[p] EXCEPT !.pc = "write", !.rows = Limited(due)]]
    /\ UNCHANGED <<scope, connector, schedule, order, latest, dangling, stops>>

\* BEGIN IMMEDIATE raises, in an open transaction or without the lock, and
\* nothing in the loop catches it.
ClaimFails(p) ==
    /\ loop[p].pc = "poll"
    /\ p \in dangling \/ MayFail
    /\ loop' = [loop EXCEPT ![p] = [NoLoop EXCEPT !.pc = "dead"]]
    /\ UNCHANGED <<scope, connector, schedule, order, latest, writer, dangling, stops>>

\* The UPDATEs and the commit; the schedules claimed at one moment keep the
\* order of their intervals.
ClaimWrite(p) ==
    LET rows == loop[p].rows
        claimed == ToSet(rows)
    IN  /\ loop[p].pc = "write"
        /\ CanWrite(p)
        /\ schedule' = [s \in Schedules |->
             IF s \in claimed /\ Exists(s)
             THEN [schedule[s] EXCEPT !.due = Interval[s], !.last = "running"]
             ELSE schedule[s]]
        /\ order' \in Arranged(ToSet(order), claimed, schedule')
        /\ writer' = Null
        /\ loop' = [loop EXCEPT ![p].pc = IF rows = << >> THEN "sleep" ELSE "refresh"]
        /\ Committed(p)
        /\ UNCHANGED <<scope, connector, latest, stops>>

\* A schedule is read again after the commit; if it has been deleted, the
\* conversion of None raises and ends the loop.
Refresh(p) ==
    LET rows == loop[p].rows
        s == Head(rows)
    IN  /\ loop[p].pc = "refresh"
        /\ loop' = [loop EXCEPT ![p] =
             IF Exists(s)
             THEN [loop[p] EXCEPT !.rows = Tail(rows), !.todo = Append(@, s),
                            !.pc = IF Len(rows) = 1 THEN "next" ELSE "refresh"]
             ELSE [NoLoop EXCEPT !.pc = "dead"]]
        /\ UNCHANGED <<scope, connector, schedule, order, latest, writer, dangling, stops>>

Auditable(s) == connector[schedule[s].conn].enabled

\* stage_audit: the connector is read and the run is inserted.  The claimed
\* copy of the schedule is used, also when the schedule has been deleted since.
BeginAudit(p, s) ==
    /\ CanWrite(p)
    /\ latest' = [latest EXCEPT ![s] = "running"]
    /\ loop' = [q \in Servers |->
         IF q = p THEN [loop[p] EXCEPT !.pc = "audit", !.todo = Tail(@), !.cur = s,
                                       !.mine = TRUE]
         ELSE IF loop[q].cur = s THEN [loop[q] EXCEPT !.mine = FALSE] ELSE loop[q]]
    /\ Committed(p)

\* A disabled connector, or an INSERT that raises, fails the audit at once.
RefuseAudit(p, s) ==
    /\ loop' = [loop EXCEPT ![p] = [loop[p] EXCEPT !.pc = "finish", !.todo = Tail(@),
                                             !.cur = s, !.mine = FALSE, !.out = "failed"]]
    /\ UNCHANGED <<latest, dangling>>

NextAudit(p) ==
    /\ loop[p].pc = "next"
    /\ loop[p].todo # << >>
    /\ LET s == Head(loop[p].todo)
       IN  \/ Auditable(s) /\ BeginAudit(p, s)
           \/ (~ Auditable(s) \/ MayFail) /\ RefuseAudit(p, s)
    /\ UNCHANGED <<scope, connector, schedule, order, writer, stops>>

AllAudited(p) ==
    /\ loop[p].pc = "next"
    /\ loop[p].todo = << >>
    /\ LoopGoto(p, "sleep")
    /\ UNCHANGED <<scope, connector, schedule, order, latest, writer, dangling, stops>>

\* The crawl, the discovery and the staging have ended, or have raised.
AuditEnds(p) ==
    /\ loop[p].pc = "audit"
    /\ \E out \in {"completed", "failed"} :
         loop' = [loop EXCEPT ![p] = [loop[p] EXCEPT !.pc = "ended", !.out = out]]
    /\ UNCHANGED <<scope, connector, schedule, order, latest, writer, dangling, stops>>

FinishRun(p) ==
    LET s == loop[p].cur
    IN  /\ loop[p].pc = "ended"
        /\ CanWrite(p)
        /\ latest' = IF loop[p].mine THEN [latest EXCEPT ![s] = loop[p].out] ELSE latest
        /\ LoopGoto(p, "finish")
        /\ Committed(p)
        /\ UNCHANGED <<scope, connector, schedule, order, writer, stops>>

\* Mutant: a failed audit leaves the schedule's status as it is.
FinishCompleted(p) ==
    LET s == loop[p].cur
    IN  /\ loop[p].pc = "finish"
        /\ CanWrite(p)
        /\ schedule' = IF Exists(s) /\ loop[p].out = "completed"
                       THEN [schedule EXCEPT ![s].last = "completed"] ELSE schedule
        /\ loop' = [loop EXCEPT ![p] = [loop[p] EXCEPT !.pc = "next", !.cur = Null,
                                                 !.mine = FALSE, !.out = Null]]
        /\ Committed(p)
        /\ UNCHANGED <<scope, connector, order, latest, writer, stops>>

FinishSchedule(p) ==
    LET s == loop[p].cur
    IN  /\ loop[p].pc = "finish"
        /\ CanWrite(p)
        /\ schedule' = IF Exists(s) THEN [schedule EXCEPT ![s].last = loop[p].out] ELSE schedule
        /\ loop' = [loop EXCEPT ![p] = [loop[p] EXCEPT !.pc = "next", !.cur = Null,
                                                 !.mine = FALSE, !.out = Null]]
        /\ Committed(p)
        /\ UNCHANGED <<scope, connector, order, latest, writer, stops>>

\* finish_schedule raises in the loop's own handler of exceptions.
FinishFails(p) ==
    /\ loop[p].pc = "finish"
    /\ MayFail
    /\ loop' = [loop EXCEPT ![p] = [NoLoop EXCEPT !.pc = "dead"]]
    /\ dangling' = dangling \cup {p}
    /\ UNCHANGED <<scope, connector, schedule, order, latest, writer, stops>>

Wake(p) ==
    /\ loop[p].pc = "sleep"
    /\ LoopGoto(p, "poll")
    /\ UNCHANGED <<scope, connector, schedule, order, latest, writer, dangling, stops>>

\* Shutdown cancels the loop where it awaits.  CancelledError is no Exception:
\* neither the run nor the schedule is finished.
StopScheduler(p) ==
    /\ stops < scope.crashes
    /\ "stop" \in scope.requests
    /\ loop[p].pc \in {"audit", "sleep"}
    /\ stops' = stops + 1
    /\ loop' = [loop EXCEPT ![p] = NoLoop]
    /\ dangling' = dangling \ {p}
    /\ UNCHANGED <<scope, connector, schedule, order, latest, writer>>

ServerCrash(p) ==
    /\ stops < scope.crashes
    /\ loop[p].pc # "off"
    /\ stops' = stops + 1
    /\ loop' = [loop EXCEPT ![p] = NoLoop]
    /\ writer' = IF writer = p THEN Null ELSE writer
    /\ dangling' = dangling \ {p}
    /\ UNCHANGED <<scope, connector, schedule, order, latest>>

\* The clock passes; due schedules stay due, in the order they became due.
Tick ==
    /\ \E s \in Schedules : Exists(s) /\ schedule[s].due > 0
    /\ schedule' = [s \in Schedules |->
         IF Exists(s) /\ schedule[s].due > 0 THEN [schedule[s] EXCEPT !.due = @ - 1]
         ELSE schedule[s]]
    /\ UNCHANGED <<scope, connector, order, latest, writer, dangling, loop, stops>>

-----------------------------------------------------------------------------

SchedulerLoop(p) ==
    \/ ClaimBegin(p) \/ ClaimFails(p) \/ ClaimWrite(p) \/ Refresh(p)
    \/ NextAudit(p) \/ AllAudited(p) \/ AuditEnds(p) \/ FinishRun(p)
    \/ FinishSchedule(p) \/ FinishFails(p) \/ Wake(p)

ScheduleRequest(p) ==
    \/ \E c \in Connectors : CreateConnector(p, c) \/ TestConnector(p, c)
    \/ \E s \in Schedules, c \in Connectors : CreateSchedule(p, s, c)
    \/ \E s \in Schedules : DeleteSchedule(p, s)
    \/ InsertFails(p)

ScheduleNext ==
    \/ \E p \in Servers : \/ ScheduleRequest(p) \/ StartScheduler(p) \/ SchedulerLoop(p)
                          \/ StopScheduler(p) \/ ServerCrash(p)
    \/ Tick

ScheduleSpec == ScheduleInit /\ [][ScheduleNext]_scheduleVars

\* Every loop goes on: statements end, an audit ends or times out, and the
\* poll is a timeout.  A process that stopped is started again.  The lock of a
\* transaction is free again and again.
ScheduleFairness ==
    /\ \A p \in Servers : SF_scheduleVars(SchedulerLoop(p)) /\ WF_scheduleVars(StartScheduler(p))
    /\ WF_scheduleVars(Tick)

FairScheduleSpec == ScheduleSpec /\ ScheduleFairness

-----------------------------------------------------------------------------
(* Properties *)

\* Every variable has its type, and the order is that of the schedules' times.
ScheduleTypeOK ==
    /\ scope \in Scopes
    /\ connector \in [Connectors -> Connector \cup {Null}]
    /\ schedule \in [Schedules -> Schedule \cup {Null}]
    /\ latest \in [Schedules -> LastStatus]
    /\ writer \in Servers \cup {Null}
    /\ dangling \subseteq Servers
    /\ loop \in [Servers -> LoopState]
    /\ stops \in Nat
    /\ order \in Seq(Schedules) /\ IsInjective(order)
    /\ \A s \in ToSet(order) : schedule[s] # Null
    /\ \A i, j \in DOMAIN order : i < j => schedule[order[i]].due <= schedule[order[j]].due

\* An occurrence is claimed by one process: what a claim writes is still due,
\* enabled and there when it is written, although it was read by an earlier
\* statement (claim_due_schedules, "atomic SQLite schedule claiming").
ClaimsAreDue ==
    \A p \in Servers : loop[p].pc = "write" => \A s \in ToSet(loop[p].rows) : Due(s)

Pending(s) ==
    \E p \in Servers : \/ s \in ToSet(loop[p].rows) \cup ToSet(loop[p].todo)
                     \/ loop[p].cur = s

\* A loop ended or a process did.
Broken == stops > 0 \/ \E p \in scope.procs : loop[p].pc = "dead"

\* With one scheduler the last status of a schedule is what became of its newest
\* run, once no audit of it is under way: a failure without a run is that of a
\* connector or a statement, and "running" for nobody is left by a loop that
\* ended (finish_run and finish_schedule are two transactions).
StatusTrue ==
    (\E p \in Servers : scope.schedulers = {p}) =>
        \A s \in Schedules : Exists(s) /\ ~ Pending(s) =>
            LET last == schedule[s].last
            IN  \/ last = latest[s]
                \/ last = "failed" /\ (~ Auditable(s) \/ MayFail)
                \/ last = "running" /\ Broken

\* A schedule that is due is claimed, however many are due and however long
\* audits take, and an audit that was claimed ends and is reported, unless a
\* scheduler is stopped or has ended.
ScheduleSettles ==
    \A s \in Schedules :
        /\ Due(s) /\ scope.schedulers # {} ~> ~ Due(s) \/ Broken
        /\ (Exists(s) /\ schedule[s].last = "running")
              ~> (~ Exists(s) \/ schedule[s].last # "running" \/ Broken)

\* The scheduler of a process goes on for ever.  Violated: see ScheduleEnds.cfg.
LoopGoesOn == \A p \in Servers : loop[p].pc # "dead"

=============================================================================
