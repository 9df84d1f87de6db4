--------------------------- MODULE WebChangeProofs ---------------------------
(***************************************************************************)
(* Theorems about WebChange, for any number of processes, tasks, proposals *)
(* and pages.  They follow from one inductive invariant: what a task knows *)
(* about its proposal at each program point (TaskInv), and what the tables *)
(* say of reviews and publications (LedgerInv).                            *)
(*                                                                         *)
(* The second part is about WebSchedule, the other half of the same source *)
(* file, for any number of processes, schedulers and schedules: who holds  *)
(* the lock, what a loop has in hand (Hands), and what the only scheduler  *)
(* makes of the statuses (StatusInv).                                      *)
(***************************************************************************)
EXTENDS WebChange, WebSchedule, FiniteSetTheorems, TLAPS

\* Program points at which the task works on a stored proposal.
ProposalPcs == {"approve_write", "approve_apply_write", "apply_read",
                "reject_write"} \cup ApplyPcs

RunPcs == AuditPcs \cup {"stage", "insert"}

\* What task t has established by the time it is at its program point.
TaskFacts(t) ==
    /\ task[t].pc \in ProposalPcs =>
          task[t].prop \in Proposals /\ row[task[t].prop] \in Row
    /\ task[t].pc \in ApplyPcs =>
          /\ task[t].prop \in approved
          /\ row[task[t].prop].auto
          /\ row[task[t].prop].page \in Pages
          /\ row[task[t].prop].hash \in Content
    /\ task[t].pc \in {"got", "post"} => task[t].obj \in Object
    /\ task[t].pc = "post" => task[t].obj.raw = row[task[t].prop].hash
    /\ task[t].pc = "posted" => published[task[t].prop] # {}
    /\ task[t].pc \in RunPcs => task[t].run \in Runs
    /\ task[t].pc = "insert" => task[t].cur \in Suggestion

TaskInv == \A t \in Tasks : TaskFacts(t)

\* An approved status goes back to a review, and a reviewed proposal is never
\* pending again.
LedgerInv ==
    /\ \A p \in Proposals : status[p] = "approved" => p \in approved
    /\ \A p \in approved : row[p] \in Row /\ status[p] # "pending"

IInv == /\ TypeOK
        /\ TaskInv
        /\ LedgerInv
        /\ ReviewedContentOnly
        /\ PublishNeedsApproval
        /\ AppliedWasPublished

-----------------------------------------------------------------------------
\* Inserting a link in a page content gives a page content.
LEMMA WithLinkType ==
    ASSUME NEW c \in Content, NEW g \in Targets
    PROVE  WithLink(c, g) \in Content
BY DEF WithLink, Content

\* The row staged for a suggestion has the type of a row.
LEMMA StagedRowType ==
    ASSUME NEW s \in Suggestion, NEW found \in [Slugs -> Object \cup {None}]
    PROVE  StagedRow(s, found) \in Row
<1>1. s.slug \in Slugs /\ s.target \in Targets
  BY DEF Suggestion
<1>2. found[s.slug] \in Object \cup {None}
  BY <1>1
<1> DEFINE o == found[s.slug]
           raw == IF o = None THEN None ELSE o.raw
           g == IF o = None THEN None ELSE o.page
<1>3. raw \in Content \cup {None} /\ g \in Pages \cup {None}
  BY <1>2 DEF Object
<1>4. (raw # None /\ CanInsert(raw, s.target)) \in BOOLEAN
  OBVIOUS
<1> HIDE DEF raw, g
<1>5. [slug |-> s.slug, target |-> s.target, page |-> g, hash |-> raw,
       auto |-> raw # None /\ CanInsert(raw, s.target)] \in Row
  BY <1>1, <1>3, <1>4 DEF Row
<1> QED
  BY <1>5 DEF StagedRow, raw, g

\* An idle task has the type of a task.
LEMMA IdleTaskType == IdleTask \in TaskState
BY DEF IdleTask, TaskState, NothingFound, Pcs

\* Row values are told apart from the absence of a row.
LEMMA RowNotNone == None \notin Row /\ None \notin Content /\ None \notin Object
BY NoneAssumption

LEMMA InitInv == Init => IInv
<1> SUFFICES ASSUME Init PROVE IInv
  OBVIOUS
<1>1. TypeOK
  BY IdleTaskType DEF Init, TypeOK, ProposalStatus
<1>2. TaskInv
  BY DEF Init, TaskInv, TaskFacts, IdleTask, ProposalPcs, ApplyPcs, RunPcs, AuditPcs
<1>3. LedgerInv /\ ReviewedContentOnly /\ PublishNeedsApproval /\ AppliedWasPublished
  BY DEF Init, LedgerInv, ReviewedContentOnly, PublishNeedsApproval, AppliedWasPublished
<1> QED
  BY <1>1, <1>2, <1>3 DEF IInv

-----------------------------------------------------------------------------
\* Rows are never rewritten, reviews and publications never forgotten.
Grows ==
    /\ \A p \in Proposals : row[p] \in Row => row'[p] = row[p]
    /\ approved \subseteq approved'
    /\ \A p \in Proposals : published[p] # {} => published'[p] # {}

\* What a task knows stays true while the task does not move.
LEMMA TaskFrame ==
    ASSUME NEW u \in Tasks, TaskFacts(u), task'[u] = task[u], Grows
    PROVE  TaskFacts(u)'
BY DEF TaskFacts, Grows, ProposalPcs, ApplyPcs

\* So a step of task t preserves TaskInv if t's new facts hold.
LEMMA TaskStep ==
    ASSUME NEW t \in Tasks, NEW s \in TaskState, TypeOK, TaskInv, Grows,
           task' = [task EXCEPT ![t] = s],
           TaskFacts(t)'
    PROVE  task' \in [Tasks -> TaskState] /\ TaskInv'
<1>1. task' \in [Tasks -> TaskState]
  BY DEF TypeOK
<1>2. ASSUME NEW u \in Tasks, u # t PROVE TaskFacts(u)'
  <2>1. task'[u] = task[u]
    BY <1>2 DEF TypeOK
  <2> QED
    BY <2>1, TaskFrame DEF TaskInv
<1> QED
  BY <1>1, <1>2 DEF TaskInv

\* A task that returns knows nothing.
LEMMA ReturnStep ==
    ASSUME NEW t \in Tasks, TypeOK, TaskInv, Grows, Return(t)
    PROVE  task' \in [Tasks -> TaskState] /\ TaskInv'
<1>1. task' = [task EXCEPT ![t] = IdleTask]
  BY DEF Return
<1>2. task'[t] = IdleTask
  BY <1>1 DEF TypeOK
<1>3. TaskFacts(t)'
  BY <1>2 DEF TaskFacts, IdleTask, ProposalPcs, ApplyPcs, RunPcs, AuditPcs
<1> QED
  BY <1>1, <1>3, TaskStep, IdleTaskType

\* A task that only moves to another program point.
LEMMA GotoStep ==
    ASSUME NEW t \in Tasks, NEW pc \in Pcs, TypeOK, TaskInv, Grows, Goto(t, pc),
           [task[t] EXCEPT !.pc = pc] = task'[t] => TaskFacts(t)'
    PROVE  task' \in [Tasks -> TaskState] /\ TaskInv'
<1>1. task[t] \in TaskState
  BY DEF TypeOK
<1>2. [task[t] EXCEPT !.pc = pc] \in TaskState
  BY <1>1 DEF TaskState
<1>3. task' = [task EXCEPT ![t] = [task[t] EXCEPT !.pc = pc]]
  BY DEF Goto
<1>4. task'[t] = [task[t] EXCEPT !.pc = pc]
  BY <1>3 DEF TypeOK
<1> QED
  BY <1>2, <1>3, <1>4, TaskStep

\* A task that takes up proposal p.
LEMMA BeginStep ==
    ASSUME NEW t \in Tasks, NEW p \in Proposals, NEW pc \in Pcs,
           TypeOK, TaskInv, Grows, Begin(t, p, pc),
           [task[t] EXCEPT !.pc = pc, !.prop = p] = task'[t] => TaskFacts(t)'
    PROVE  task' \in [Tasks -> TaskState] /\ TaskInv'
<1>1. task[t] \in TaskState
  BY DEF TypeOK
<1>2. [task[t] EXCEPT !.pc = pc, !.prop = p] \in TaskState
  BY <1>1 DEF TaskState
<1>3. task' = [task EXCEPT ![t] = [task[t] EXCEPT !.pc = pc, !.prop = p]]
  BY DEF Begin
<1>4. task'[t] = [task[t] EXCEPT !.pc = pc, !.prop = p]
  BY <1>3 DEF TypeOK
<1> QED
  BY <1>2, <1>3, <1>4, TaskStep

-----------------------------------------------------------------------------
\* Steps that only move one task: the tables and the site stay as they are.
Tables == <<page, status, row, appliedAt, runs, approved, published>>

LEMMA QuietGrows == UNCHANGED Tables => Grows
BY DEF Tables, Grows

LEMMA QuietStep ==
    ASSUME IInv, UNCHANGED <<Tables, edits, crashes, unrecorded>>,
           task' \in [Tasks -> TaskState], TaskInv'
    PROVE  IInv'
<1> USE DEF IInv, Tables
<1>1. TypeOK'
  BY DEF TypeOK
<1>2. LedgerInv' /\ ReviewedContentOnly' /\ PublishNeedsApproval' /\ AppliedWasPublished'
  BY DEF LedgerInv, ReviewedContentOnly, PublishNeedsApproval, AppliedWasPublished
<1> QED
  BY <1>1, <1>2

\* approve, approve_and_apply and reject take up a stored proposal.
LEMMA ReviewReadInv ==
    ASSUME NEW t \in Tasks, NEW p \in Proposals, IInv,
           Approve(t, p) \/ ApproveAndApply(t, p) \/ Reject(t, p)
    PROVE  IInv'
<1> USE DEF IInv
<1> DEFINE pcs == {"approve_write", "approve_apply_write", "reject_write"}
<1>1. PICK pc \in pcs : /\ Begin(t, p, pc)
                        /\ status[p] # "none"
                        /\ UNCHANGED <<Tables, edits, crashes, unrecorded>>
  BY DEF Approve, ApproveAndApply, ApproveRead, Reject, Open, Tables
<1>2. row[p] \in Row /\ row' = row
  BY <1>1 DEF TypeOK, Tables
<1>3. pc \in Pcs /\ Grows
  BY <1>1, QuietGrows DEF Pcs, SyncPcs
<1>4. ASSUME task'[t] = [task[t] EXCEPT !.pc = pc, !.prop = p] PROVE TaskFacts(t)'
  <2>1. task'[t].pc = pc /\ task'[t].prop = p
    BY <1>4 DEF TypeOK, TaskState
  <2> QED
    BY <1>2, <2>1 DEF TaskFacts, ProposalPcs, ApplyPcs, RunPcs, AuditPcs
<1>5. task' \in [Tasks -> TaskState] /\ TaskInv'
  BY <1>1, <1>3, <1>4, BeginStep
<1> QED
  BY <1>1, <1>5, QuietStep

LEMMA AppliableFacts ==
    ASSUME NEW p \in Proposals, IInv, Appliable(p)
    PROVE  /\ p \in approved /\ row[p] \in Row /\ row[p].auto
           /\ row[p].page \in Pages /\ row[p].hash \in Content
BY DEF Appliable, IInv, TypeOK, LedgerInv, Row

\* apply passes its checks and waits for the page.
LEMMA ApplyInv ==
    ASSUME NEW t \in Tasks, NEW p \in Proposals, IInv, Apply(t, p)
    PROVE  IInv'
<1> USE DEF IInv
<1>1. Begin(t, p, "get") /\ UNCHANGED <<Tables, edits, crashes, unrecorded>> /\ Appliable(p)
  BY DEF Apply, Tables
<1>2. Grows /\ row' = row /\ approved' = approved /\ "get" \in Pcs
  BY <1>1, QuietGrows DEF Tables, Pcs, ApplyPcs
<1>3. ASSUME task'[t] = [task[t] EXCEPT !.pc = "get", !.prop = p] PROVE TaskFacts(t)'
  <2>1. task'[t].pc = "get" /\ task'[t].prop = p
    BY <1>3 DEF TypeOK, TaskState
  <2> QED
    BY <1>1, <1>2, <2>1, AppliableFacts
    DEF TaskFacts, ProposalPcs, ApplyPcs, RunPcs, AuditPcs
<1>4. task' \in [Tasks -> TaskState] /\ TaskInv'
  BY <1>1, <1>2, <1>3, BeginStep
<1> QED
  BY <1>1, <1>4, QuietStep

LEMMA ApplyReadInv ==
    ASSUME NEW t \in Tasks, IInv, ApplyRead(t)
    PROVE  IInv'
<1> USE DEF IInv
<1>1. task[t].pc = "apply_read" /\ UNCHANGED <<Tables, edits, crashes, unrecorded>>
  BY DEF ApplyRead, Tables
<1>2. Grows /\ row' = row /\ approved' = approved /\ "get" \in Pcs
  BY <1>1, QuietGrows DEF Tables, Pcs, ApplyPcs
<1>3. task[t].prop \in Proposals
  BY <1>1 DEF TaskInv, TaskFacts, ProposalPcs
<1>4. CASE Appliable(task[t].prop)
  <2>1. Goto(t, "get")
    BY <1>4 DEF ApplyRead
  <2>2. ASSUME task'[t] = [task[t] EXCEPT !.pc = "get"] PROVE TaskFacts(t)'
    <3>1. task'[t].pc = "get" /\ task'[t].prop = task[t].prop
      BY <2>2 DEF TypeOK, TaskState
    <3> QED
      BY <1>2, <1>3, <1>4, <3>1, AppliableFacts
      DEF TaskFacts, ProposalPcs, ApplyPcs, RunPcs, AuditPcs
  <2> QED
    BY <1>1, <1>2, <2>1, <2>2, GotoStep, QuietStep
<1>5. CASE ~Appliable(task[t].prop)
  BY <1>1, <1>2, <1>5, ReturnStep, QuietStep DEF ApplyRead
<1> QED
  BY <1>4, <1>5

\* The page a task asks for is one of the site, and the task asks for a
\* proposal a reviewer approved.
LEMMA ApplyFacts ==
    ASSUME NEW t \in Tasks, IInv, task[t].pc \in ApplyPcs
    PROVE  /\ task[t].prop \in Proposals \cap approved
           /\ row[task[t].prop] \in Row
           /\ row[task[t].prop].page \in Pages
           /\ row[task[t].prop].target \in Targets
           /\ row[task[t].prop].auto
           /\ row[task[t].prop].hash \in Content
           /\ status[task[t].prop] # "none"
<1>1. TaskFacts(t)
  BY DEF IInv, TaskInv
<1>2. task[t].prop \in Proposals /\ row[task[t].prop] \in Row
  BY <1>1 DEF TaskFacts, ProposalPcs
<1>3. status[task[t].prop] # "none"
  BY <1>2, RowNotNone DEF IInv, TypeOK
<1> QED
  BY <1>1, <1>2, <1>3 DEF TaskFacts, Row

LEMMA GetObjectInv ==
    ASSUME NEW t \in Tasks, IInv, GetObject(t)
    PROVE  IInv'
<1> USE DEF IInv
<1> DEFINE g == row[task[t].prop].page
<1>1. task[t].pc = "get" /\ UNCHANGED <<Tables, edits, crashes, unrecorded>>
  BY DEF GetObject, Tables
<1>2. Grows /\ row' = row /\ approved' = approved
  BY <1>1, QuietGrows DEF Tables
<1>3. g \in Pages
  BY <1>1, ApplyFacts DEF ApplyPcs
<1>4. PICK raw \in {page[g].raw, None} :
          task' = [task EXCEPT ![t] = [@ EXCEPT !.pc = "got",
                                  !.obj = [page |-> g, raw |-> raw,
                                           slug |-> page[g].slug]]]
  BY DEF GetObject
<1> DEFINE o == [page |-> g, raw |-> raw, slug |-> page[g].slug]
           s == [task[t] EXCEPT !.pc = "got", !.obj = o]
<1>5. o \in Object
  BY <1>3 DEF TypeOK, Object
<1>6. s \in TaskState
  BY <1>5, ZenonT(60) DEF TypeOK, TaskState, Pcs, ApplyPcs
<1>7. TaskFacts(t)'
  <2>1. task'[t].pc = "got" /\ task'[t].prop = task[t].prop /\ task'[t].obj = o
    BY <1>4 DEF TypeOK, TaskState
  <2> QED
    BY <1>1, <1>2, <1>5, <2>1 DEF TaskInv, TaskFacts, ProposalPcs, ApplyPcs, RunPcs, AuditPcs
<1>8. task' \in [Tasks -> TaskState] /\ TaskInv'
  BY <1>2, <1>4, <1>6, <1>7, TaskStep
<1> QED
  BY <1>1, <1>8, QuietStep

LEMMA RequestFailsInv ==
    ASSUME NEW t \in Tasks, IInv, RequestFails(t)
    PROVE  IInv'
<1> USE DEF IInv
<1>1. task[t].pc \in {"get", "post"} /\ UNCHANGED <<Tables, edits, crashes, unrecorded>>
      /\ Goto(t, "error")
  BY DEF RequestFails, Tables
<1>2. Grows /\ row' = row /\ approved' = approved /\ "error" \in Pcs
  BY <1>1, QuietGrows DEF Tables, Pcs, ApplyPcs
<1>3. ASSUME task'[t] = [task[t] EXCEPT !.pc = "error"] PROVE TaskFacts(t)'
  <2>1. task'[t].pc = "error" /\ task'[t].prop = task[t].prop
    BY <1>3 DEF TypeOK, TaskState
  <2> QED
    BY <1>1, <1>2, <2>1 DEF TaskInv, TaskFacts, ProposalPcs, ApplyPcs, RunPcs, AuditPcs
<1> QED
  BY <1>1, <1>2, <1>3, GotoStep, QuietStep

-----------------------------------------------------------------------------
\* Status updates: the row exists, so the status of a used id is replaced by
\* another status of a used id.
LEMMA SetStatusType ==
    ASSUME NEW p \in Proposals, NEW s \in ProposalStatus, TypeOK,
           row[p] \in Row, row' = row, SetStatus(p, s)
    PROVE  /\ status' \in [Proposals -> ProposalStatus \cup {"none"}]
           /\ appliedAt' \in [Proposals -> BOOLEAN]
           /\ \A q \in Proposals : status'[q] = "none" <=> row'[q] = None
BY RowNotNone DEF SetStatus, TypeOK, ProposalStatus

\* Only "approved" and "applied" have a claim to answer for.
LEMMA SetStatusInv ==
    ASSUME NEW p \in Proposals, NEW s \in ProposalStatus, IInv,
           row[p] \in Row, SetStatus(p, s),
           UNCHANGED <<page, row, runs, published, edits, crashes, unrecorded>>,
           approved' \in {approved, approved \cup {p}},
           s # "pending",
           s = "approved" => p \in approved',
           s = "applied" => published[p] # {},
           task' \in [Tasks -> TaskState], TaskInv'
    PROVE  IInv'
<1> USE DEF IInv
<1>1. TypeOK'
  BY SetStatusType DEF TypeOK
<1>2. LedgerInv'
  BY DEF LedgerInv, SetStatus, TypeOK
<1>3. ReviewedContentOnly' /\ PublishNeedsApproval'
  BY DEF ReviewedContentOnly, PublishNeedsApproval
<1>4. AppliedWasPublished'
  BY DEF AppliedWasPublished, SetStatus, TypeOK
<1> QED
  BY <1>1, <1>2, <1>3, <1>4

LEMMA ApproveWriteInv ==
    ASSUME NEW t \in Tasks, IInv, ApproveWrite(t)
    PROVE  IInv'
<1> USE DEF IInv
<1> DEFINE p == task[t].prop
<1>1. p \in Proposals /\ row[p] \in Row
  BY DEF ApproveWrite, TaskInv, TaskFacts, ProposalPcs
<1>2. SetStatus(p, "approved") /\ approved' = approved \cup {p}
      /\ UNCHANGED <<page, row, runs, published, edits, crashes, unrecorded>>
  BY DEF ApproveWrite
<1>3. Grows
  BY <1>2 DEF Grows
<1>4. task' \in [Tasks -> TaskState] /\ TaskInv'
  <2>1. CASE task[t].pc = "approve_write"
    BY <1>3, <2>1, ReturnStep DEF ApproveWrite
  <2>2. CASE task[t].pc = "approve_apply_write"
    <3>1. Goto(t, "apply_read") /\ "apply_read" \in Pcs
      BY <2>2 DEF ApproveWrite, Pcs, SyncPcs
    <3>2. ASSUME task'[t] = [task[t] EXCEPT !.pc = "apply_read"] PROVE TaskFacts(t)'
      <4>1. task'[t].pc = "apply_read" /\ task'[t].prop = p
        BY <3>2 DEF TypeOK, TaskState
      <4> QED
        BY <1>1, <1>2, <4>1 DEF TaskFacts, ProposalPcs, ApplyPcs, RunPcs, AuditPcs
    <3> QED
      BY <1>3, <3>1, <3>2, GotoStep
  <2> QED
    BY <2>1, <2>2 DEF ApproveWrite
<1> QED
  BY <1>1, <1>2, <1>4, SetStatusInv DEF ProposalStatus

LEMMA RejectWriteInv ==
    ASSUME NEW t \in Tasks, IInv, RejectWrite(t)
    PROVE  IInv'
<1> USE DEF IInv
<1>1. task[t].prop \in Proposals /\ row[task[t].prop] \in Row
  BY DEF RejectWrite, TaskInv, TaskFacts, ProposalPcs
<1>2. Grows
  BY DEF RejectWrite, Grows
<1>3. task' \in [Tasks -> TaskState] /\ TaskInv'
  BY <1>2, ReturnStep DEF RejectWrite
<1> QED
  BY <1>1, <1>3, SetStatusInv DEF RejectWrite, ProposalStatus

LEMMA ApplyFinishInv ==
    ASSUME NEW t \in Tasks, IInv, ApplyFinish(t)
    PROVE  IInv'
<1> USE DEF IInv
<1>1. task[t].prop \in Proposals /\ row[task[t].prop] \in Row
  BY ApplyFacts DEF ApplyFinish, ApplyPcs
<1>2. Grows
  BY DEF ApplyFinish, Grows
<1>3. task' \in [Tasks -> TaskState] /\ TaskInv'
  BY <1>2, ReturnStep DEF ApplyFinish
<1>4. task[t].pc = "posted" => published[task[t].prop] # {}
  BY DEF TaskInv, TaskFacts
<1>5. CASE task[t].pc = "posted"
  BY <1>1, <1>3, <1>4, <1>5, SetStatusInv DEF ApplyFinish, ProposalStatus
<1>6. CASE task[t].pc = "error"
  BY <1>1, <1>3, <1>6, SetStatusInv DEF ApplyFinish, ProposalStatus
<1> QED
  BY <1>5, <1>6 DEF ApplyFinish

LEMMA ApplyCheckInv ==
    ASSUME NEW t \in Tasks, IInv, ApplyCheck(t)
    PROVE  IInv'
<1> USE DEF IInv
<1> DEFINE p == task[t].prop
<1>1. task[t].pc = "got" /\ UNCHANGED <<page, row, runs, approved, published, edits, crashes, unrecorded>>
  BY DEF ApplyCheck
<1>2. p \in Proposals /\ row[p] \in Row
  BY <1>1, ApplyFacts DEF ApplyPcs
<1>3. Grows
  BY <1>1 DEF Grows
<1>4. CASE SnapshotMatches(task[t].obj, row[p])
  <2>1. Goto(t, "post") /\ UNCHANGED <<status, appliedAt>>
    BY <1>4 DEF ApplyCheck
  <2>2. "post" \in Pcs
    BY DEF Pcs, ApplyPcs
  <2>3. ASSUME task'[t] = [task[t] EXCEPT !.pc = "post"] PROVE TaskFacts(t)'
    <3>1. task'[t].pc = "post" /\ task'[t].prop = p /\ task'[t].obj = task[t].obj
      BY <2>3 DEF TypeOK, TaskState
    <3>2. task[t].obj.raw = row[p].hash
      BY <1>4 DEF SnapshotMatches
    <3> QED
      BY <1>1, <3>1, <3>2 DEF TaskInv, TaskFacts, ProposalPcs, ApplyPcs, RunPcs, AuditPcs
  <2> QED
    BY <1>1, <1>3, <2>1, <2>2, <2>3, GotoStep, QuietStep DEF Tables
<1>5. CASE ~SnapshotMatches(task[t].obj, row[p])
  <2>1. Return(t) /\ SetStatus(p, "stale")
    BY <1>5 DEF ApplyCheck
  <2>2. task' \in [Tasks -> TaskState] /\ TaskInv'
    BY <1>3, <2>1, ReturnStep
  <2> QED
    BY <1>1, <1>2, <2>1, <2>2, SetStatusInv DEF ProposalStatus
<1> QED
  BY <1>4, <1>5

\* The write: what WordPress accepts is the reviewed content and one link.
LEMMA UpdateContentInv ==
    ASSUME NEW t \in Tasks, IInv, UpdateContent(t)
    PROVE  IInv'
<1> USE DEF IInv
<1> DEFINE p == task[t].prop
           w == row[p]
           patched == WithLink(task[t].obj.raw, w.target)
<1>1. /\ task[t].pc = "post"
      /\ page' = [page EXCEPT ![w.page].raw = patched]
      /\ published' = [published EXCEPT ![p] = @ \cup {patched}]
      /\ UNCHANGED <<status, row, appliedAt, runs, approved, edits, crashes, unrecorded>>
  BY DEF UpdateContent
<1>2. /\ p \in Proposals /\ p \in approved /\ w \in Row /\ w.page \in Pages
      /\ w.target \in Targets /\ w.auto /\ w.hash \in Content
  BY <1>1, ApplyFacts DEF ApplyPcs
<1>3. patched = WithLink(w.hash, w.target) /\ patched \in Content
  BY <1>1, <1>2, WithLinkType DEF TaskInv, TaskFacts
<1>4. Grows
  BY <1>1, <1>2 DEF Grows, TypeOK
<1>5. task' \in [Tasks -> TaskState] /\ TaskInv'
  <2>1. PICK pc \in {"posted", "error"} : Goto(t, pc)
    BY DEF UpdateContent
  <2>2. pc \in Pcs
    BY DEF Pcs, ApplyPcs
  <2>3. ASSUME task'[t] = [task[t] EXCEPT !.pc = pc] PROVE TaskFacts(t)'
    <3>1. task'[t].pc = pc /\ task'[t].prop = p
      BY <2>3 DEF TypeOK, TaskState
    <3>2. published'[p] # {}
      BY <1>1, <1>2 DEF TypeOK
    <3> QED
      BY <1>1, <1>2, <3>1, <3>2 DEF TaskFacts, ProposalPcs, ApplyPcs, RunPcs, AuditPcs
  <2> QED
    BY <1>4, <2>1, <2>2, <2>3, GotoStep
<1>6. TypeOK'
  <2>1. page' \in [Pages -> [raw : Content, slug : Slugs]]
    BY <1>1, <1>2, <1>3 DEF TypeOK
  <2>2. published' \in [Proposals -> SUBSET Content]
    BY <1>1, <1>2, <1>3 DEF TypeOK
  <2> QED
    BY <1>1, <1>5, <2>1, <2>2 DEF TypeOK
<1>7. ReviewedContentOnly'
  BY <1>1, <1>2, <1>3 DEF ReviewedContentOnly, TypeOK
<1>8. PublishNeedsApproval' /\ AppliedWasPublished' /\ LedgerInv'
  BY <1>1, <1>2 DEF PublishNeedsApproval, AppliedWasPublished, LedgerInv, TypeOK
<1> QED
  BY <1>5, <1>6, <1>7, <1>8

-----------------------------------------------------------------------------
\* Steps of an audit up to the staging loop move the task and a run's status.
LEMMA AuditStep ==
    ASSUME IInv, UNCHANGED <<page, status, row, appliedAt, approved, published, edits, crashes>>,
           runs' \in [Runs -> {"none", "running", "completed", "failed"}],
           unrecorded' \subseteq Runs,
           task' \in [Tasks -> TaskState], TaskInv'
    PROVE  IInv'
<1> USE DEF IInv
<1>1. TypeOK'
  BY DEF TypeOK
<1> QED
  BY <1>1 DEF LedgerInv, ReviewedContentOnly, PublishNeedsApproval, AppliedWasPublished

LEMMA StartAuditInv ==
    ASSUME NEW t \in Tasks, NEW r \in Runs, IInv, StartAudit(t, r)
    PROVE  IInv'
<1> USE DEF IInv
<1> DEFINE s == [task[t] EXCEPT !.pc = "crawl", !.run = r]
<1>1. s \in TaskState
  <2>1. task[t] \in TaskState
    BY DEF TypeOK
  <2> QED
    BY <2>1 DEF TaskState, Pcs, AuditPcs
<1>2. Grows
  BY DEF StartAudit, Grows
<1>3. /\ UNCHANGED <<page, status, row, appliedAt, approved, published, edits, crashes>>
      /\ runs' \in [Runs -> {"none", "running", "completed", "failed"}]
      /\ unrecorded' \subseteq Runs
  BY DEF StartAudit, TypeOK
<1>4. CASE task' = [task EXCEPT ![t] = s]
  <2>1. task'[t].pc = "crawl" /\ task'[t].run = r
    BY <1>4 DEF TypeOK, TaskState
  <2>2. TaskFacts(t)'
    BY <2>1 DEF TaskFacts, ProposalPcs, ApplyPcs, RunPcs, AuditPcs
  <2>3. task' \in [Tasks -> TaskState] /\ TaskInv'
    BY <1>1, <1>2, <1>4, <2>2, TaskStep
  <2> QED
    BY <1>3, <2>3, AuditStep
<1>5. CASE task' = task
  <2>1. TaskInv'
    BY <1>2, <1>5, TaskFrame DEF TaskInv
  <2> QED
    BY <1>3, <1>5, <2>1, AuditStep DEF TypeOK
<1> QED
  BY <1>4, <1>5 DEF StartAudit

\* The other audit steps of a task that keeps its run.
LEMMA AuditMoveInv ==
    ASSUME NEW t \in Tasks, IInv,
           task[t].pc \in RunPcs, UNCHANGED <<Tables, edits, crashes, unrecorded>>,
           NEW s \in TaskState, task' = [task EXCEPT ![t] = s],
           s.run = task[t].run, s.pc \in RunPcs,
           s.pc = "insert" => s.cur \in Suggestion
    PROVE  IInv'
<1> USE DEF IInv
<1>1. Grows
  BY QuietGrows DEF Tables
<1>2. task'[t] = s
  BY DEF TypeOK
<1>3. TaskFacts(t)'
  BY <1>2 DEF TaskInv, TaskFacts, ProposalPcs, ApplyPcs, RunPcs, AuditPcs
<1> QED
  BY <1>1, <1>3, TaskStep, QuietStep

LEMMA CrawlInv ==
    ASSUME NEW t \in Tasks, IInv, Crawl(t)
    PROVE  IInv'
<1>1. PICK S \in SUBSET Suggestion :
          task' = [task EXCEPT ![t] = [@ EXCEPT !.pc = "discover", !.todo = S]]
  BY DEF Crawl
<1> DEFINE s == [task[t] EXCEPT !.pc = "discover", !.todo = S]
<1>2. s \in TaskState /\ s.run = task[t].run /\ s.pc = "discover"
  BY ZenonT(60) DEF IInv, TypeOK, TaskState, Pcs, AuditPcs
<1> QED
  BY <1>1, <1>2, AuditMoveInv DEF Crawl, Tables, RunPcs, AuditPcs

LEMMA DiscoverInv ==
    ASSUME NEW t \in Tasks, IInv, Discover(t)
    PROVE  IInv'
<1>1. PICK found \in [Slugs -> Object \cup {None}] :
          task' = [task EXCEPT ![t] = [@ EXCEPT !.pc = "discovered", !.found = found]]
  BY DEF Discover
<1> DEFINE s == [task[t] EXCEPT !.pc = "discovered", !.found = found]
<1>2. s \in TaskState /\ s.run = task[t].run /\ s.pc = "discovered"
  BY ZenonT(60) DEF IInv, TypeOK, TaskState, Pcs, AuditPcs
<1> QED
  BY <1>1, <1>2, AuditMoveInv DEF Discover, Tables, RunPcs, AuditPcs

LEMMA BeginStagingInv ==
    ASSUME NEW t \in Tasks, IInv, BeginStaging(t)
    PROVE  IInv'
<1> DEFINE s == [task[t] EXCEPT !.pc = "stage"]
<1>1. s \in TaskState /\ s.run = task[t].run /\ s.pc = "stage"
  BY ZenonT(60) DEF IInv, TypeOK, TaskState, Pcs, SyncPcs
<1> QED
  BY <1>1, AuditMoveInv DEF BeginStaging, Goto, Tables, RunPcs, AuditPcs

LEMMA StageLookupInv ==
    ASSUME NEW t \in Tasks, NEW c \in Suggestion, IInv, StageLookup(t, c)
    PROVE  IInv'
<1>1. task[t].pc = "stage" /\ task[t] \in TaskState
      /\ UNCHANGED <<Tables, edits, crashes, unrecorded>>
  BY DEF StageLookup, IInv, TypeOK, Tables
<1>4. task[t].todo \ {c} \in SUBSET Suggestion
  BY <1>1 DEF TaskState
<1>2. CASE Existing(c)
  <2> DEFINE s == [task[t] EXCEPT !.todo = task[t].todo \ {c}]
  <2>1. task' = [task EXCEPT ![t] = s]
    BY <1>2 DEF StageLookup
  <2>2. s \in TaskState /\ s.run = task[t].run /\ s.pc = "stage"
    BY <1>1, <1>4 DEF TaskState
  <2> QED
    BY <1>1, <2>1, <2>2, AuditMoveInv DEF RunPcs
<1>3. CASE ~Existing(c)
  <2> DEFINE s == [task[t] EXCEPT !.todo = task[t].todo \ {c}, !.cur = c, !.pc = "insert"]
  <2>1. task' = [task EXCEPT ![t] = s]
    BY <1>3 DEF StageLookup
  <2>2. s \in TaskState /\ s.run = task[t].run /\ s.pc = "insert" /\ s.cur = c
    BY <1>1, <1>4 DEF TaskState, Pcs, SyncPcs
  <2> QED
    BY <1>1, <2>1, <2>2, AuditMoveInv DEF RunPcs
<1> QED
  BY <1>2, <1>3

LEMMA EndAuditInv ==
    ASSUME NEW t \in Tasks, IInv, AuditFails(t) \/ FinishAudit(t)
    PROVE  IInv'
<1> USE DEF IInv
<1>1. task[t].run \in Runs
  BY DEF AuditFails, FinishAudit, TaskInv, TaskFacts, RunPcs, AuditPcs
<1>2. Return(t) /\ UNCHANGED <<page, status, row, appliedAt, approved, published, edits, crashes>>
  BY DEF AuditFails, FinishAudit
<1>3. /\ runs' \in [Runs -> {"none", "running", "completed", "failed"}]
      /\ unrecorded' \subseteq Runs
  BY <1>1 DEF AuditFails, FinishAudit, TypeOK
<1>4. Grows
  BY <1>2 DEF Grows
<1> QED
  BY <1>2, <1>3, <1>4, ReturnStep, AuditStep

LEMMA StageInsertInv ==
    ASSUME NEW t \in Tasks, NEW p \in Proposals, IInv, StageInsert(t, p)
    PROVE  IInv'
<1> USE DEF IInv
<1> DEFINE s == [task[t] EXCEPT !.pc = "stage", !.cur = None]
           w == StagedRow(task[t].cur, task[t].found)
<1>1. /\ task[t].pc = "insert" /\ status[p] = "none"
      /\ status' = [status EXCEPT ![p] = "pending"]
      /\ row' = [row EXCEPT ![p] = w]
      /\ task' = [task EXCEPT ![t] = s]
      /\ UNCHANGED <<page, appliedAt, runs, approved, published, edits, crashes, unrecorded>>
  BY DEF StageInsert
<1>2. w \in Row /\ w # None
  <2>1. task[t].cur \in Suggestion
    BY <1>1 DEF TaskInv, TaskFacts
  <2>2. task[t].found \in [Slugs -> Object \cup {None}]
    BY DEF TypeOK, TaskState
  <2> QED
    BY <2>1, <2>2, StagedRowType, RowNotNone
<1> HIDE DEF w
<1>3. row[p] = None /\ p \notin approved /\ published[p] = {} /\ ~appliedAt[p]
  BY <1>1, RowNotNone DEF TypeOK, LedgerInv, PublishNeedsApproval, AppliedWasPublished
<1>4. Grows
  BY <1>1, <1>3, RowNotNone DEF Grows, TypeOK
<1>5. s \in TaskState
  BY ZenonT(60) DEF TypeOK, TaskState, Pcs, SyncPcs
<1>6. TaskFacts(t)'
  <2>1. task'[t].pc = "stage" /\ task'[t].run = task[t].run
    BY <1>1 DEF TypeOK, TaskState
  <2> QED
    BY <1>1, <2>1 DEF TaskInv, TaskFacts, ProposalPcs, ApplyPcs, RunPcs, AuditPcs
<1>7. task' \in [Tasks -> TaskState] /\ TaskInv'
  BY <1>1, <1>4, <1>5, <1>6, TaskStep
<1>8. TypeOK'
  BY <1>1, <1>2, <1>7, RowNotNone DEF TypeOK, ProposalStatus
<1>9. LedgerInv'
  BY <1>1, <1>3 DEF LedgerInv, TypeOK
<1>10. ReviewedContentOnly' /\ PublishNeedsApproval' /\ AppliedWasPublished'
  BY <1>1, <1>3 DEF ReviewedContentOnly, PublishNeedsApproval, AppliedWasPublished, TypeOK
<1> QED
  BY <1>7, <1>8, <1>9, <1>10

-----------------------------------------------------------------------------
(* The environment *)

LEMMA EditInv ==
    ASSUME NEW g \in Pages, IInv, Edit(g)
    PROVE  IInv'
<1> USE DEF IInv
<1>1. PICK o \in [raw : Content, slug : Slugs] : page' = [page EXCEPT ![g] = o]
  BY DEF Edit
<1>2. /\ UNCHANGED <<status, row, appliedAt, runs, task, approved, published, crashes,
                  unrecorded>>
      /\ edits' = edits + 1
  BY DEF Edit
<1>3. TypeOK'
  <2>1. page' \in [Pages -> [raw : Content, slug : Slugs]]
    BY <1>1 DEF TypeOK
  <2>2. edits' \in Nat
    BY <1>2 DEF TypeOK
  <2> QED
    BY <1>2, <2>1, <2>2 DEF TypeOK
<1>4. TaskInv'
  BY <1>2 DEF TaskInv, TaskFacts
<1> QED
  BY <1>2, <1>3, <1>4 DEF LedgerInv, ReviewedContentOnly, PublishNeedsApproval,
                          AppliedWasPublished

LEMMA CrashInv ==
    ASSUME NEW proc \in Procs, IInv, Crash(proc)
    PROVE  IInv'
<1> USE DEF IInv
<1>1. /\ UNCHANGED <<page, status, row, appliedAt, runs, approved, published, edits,
                  unrecorded>>
      /\ crashes' = crashes + 1
      /\ task' = [t \in Tasks |-> IF ProcOf[t] = proc THEN IdleTask ELSE task[t]]
  BY DEF Crash
<1>2. task' \in [Tasks -> TaskState]
  BY <1>1, IdleTaskType DEF TypeOK
<1>3. TypeOK'
  <2>1. crashes' \in Nat
    BY <1>1 DEF TypeOK
  <2> QED
    BY <1>1, <1>2, <2>1 DEF TypeOK
<1>4. Grows
  BY <1>1 DEF Grows
<1>5. ASSUME NEW t \in Tasks PROVE TaskFacts(t)'
  <2>1. CASE ProcOf[t] = proc
    <3>1. task'[t] = IdleTask
      BY <1>1, <2>1
    <3> QED
      BY <3>1 DEF TaskFacts, IdleTask, ProposalPcs, ApplyPcs, RunPcs, AuditPcs
  <2>2. CASE ProcOf[t] # proc
    <3>1. task'[t] = task[t]
      BY <1>1, <2>2
    <3> QED
      BY <1>4, <3>1, TaskFrame DEF TaskInv
  <2> QED
    BY <2>1, <2>2
<1>6. TaskInv'
  BY <1>5 DEF TaskInv
<1> QED
  BY <1>1, <1>3, <1>6 DEF LedgerInv, ReviewedContentOnly, PublishNeedsApproval,
                          AppliedWasPublished

-----------------------------------------------------------------------------
\* Every step of the system preserves the invariant.
LEMMA NextInv == IInv /\ [Next]_vars => IInv'
<1> SUFFICES ASSUME IInv, [Next]_vars PROVE IInv'
  OBVIOUS
<1>1. CASE Next
  <2>1. ASSUME NEW t \in Tasks, Request(t) PROVE IInv'
    BY <2>1, ReviewReadInv, ApplyInv, StartAuditInv DEF Request
  <2>2. ASSUME NEW t \in Tasks, Continue(t) PROVE IInv'
    <3>1. CASE ApproveWrite(t) \/ RejectWrite(t) \/ ApplyRead(t)
      BY <3>1, ApproveWriteInv, RejectWriteInv, ApplyReadInv
    <3>2. CASE \/ GetObject(t) \/ ApplyCheck(t) \/ UpdateContent(t)
               \/ RequestFails(t) \/ ApplyFinish(t)
      BY <3>2, GetObjectInv, ApplyCheckInv, UpdateContentInv, RequestFailsInv,
         ApplyFinishInv
    <3>3. CASE Crawl(t) \/ AuditFails(t) \/ Discover(t) \/ BeginStaging(t) \/ FinishAudit(t)
      BY <3>3, CrawlInv, EndAuditInv, DiscoverInv, BeginStagingInv
    <3>4. CASE \E s \in Suggestion : StageLookup(t, s)
      BY <3>4, StageLookupInv
    <3>5. CASE \E p \in Proposals : StageInsert(t, p)
      BY <3>5, StageInsertInv
    <3> QED
      BY <2>2, <3>1, <3>2, <3>3, <3>4, <3>5 DEF Continue
  <2>3. ASSUME Environment PROVE IInv'
    BY <2>3, EditInv, CrashInv DEF Environment
  <2> QED
    BY <1>1, <2>1, <2>2, <2>3 DEF Next
<1>2. CASE UNCHANGED vars
  BY <1>2 DEF vars, IInv, TypeOK, TaskInv, TaskFacts, LedgerInv, ReviewedContentOnly,
              PublishNeedsApproval, AppliedWasPublished
<1> QED
  BY <1>1, <1>2

\* The inductive invariant holds in every reachable state.
THEOREM Invariant == Spec => []IInv
BY InitInv, NextInv, PTL DEF Spec

\* The tables, the tasks and the history keep their types.
THEOREM TypeCorrect == Spec => []TypeOK
BY Invariant, PTL DEF IInv

\* WordPress is only ever given a reviewed snapshot and its reviewed link.
THEOREM OnlyReviewedContent == Spec => []ReviewedContentOnly
BY Invariant, PTL DEF IInv

\* Nothing is published without a review.
THEOREM NoUnreviewedPublication == Spec => []PublishNeedsApproval
BY Invariant, PTL DEF IInv

\* applied_at answers for a publication.
THEOREM AppliedImpliesPublished == Spec => []AppliedWasPublished
BY Invariant, PTL DEF IInv

-----------------------------------------------------------------------------
\* The steps that can change a status.
LEMMA StatusWriters ==
    ASSUME [Next]_vars, status' # status
    PROVE  \E t \in Tasks :
              \/ ApproveWrite(t) \/ RejectWrite(t) \/ ApplyCheck(t) \/ ApplyFinish(t)
              \/ \E q \in Proposals : StageInsert(t, q)
<1>1. Next /\ ~Environment
  BY DEF vars, Environment, Edit, Crash
<1>2. PICK t \in Tasks : Request(t) \/ Continue(t)
  BY <1>1 DEF Next
<1>3. ~Request(t)
  BY DEF Request, Approve, ApproveAndApply, ApproveRead, Reject, Apply, StartAudit
<1>4. ~(ApplyRead(t) \/ GetObject(t) \/ UpdateContent(t) \/ RequestFails(t))
  BY DEF ApplyRead, GetObject, UpdateContent, RequestFails
<1>5. ~(Crawl(t) \/ AuditFails(t) \/ Discover(t) \/ BeginStaging(t) \/ FinishAudit(t))
  BY DEF Crawl, AuditFails, Discover, BeginStaging, FinishAudit
<1>6. ~\E c \in Suggestion : StageLookup(t, c)
  BY DEF StageLookup
<1> QED
  BY <1>2, <1>3, <1>4, <1>5, <1>6 DEF Continue

\* One step of a stored, pending proposal: only a review changes its status.
LEMMA PendingStep ==
    IInv /\ [Next]_vars =>
        \A p \in Proposals :
            status[p] = "pending" => status'[p] \in {"pending", "approved", "rejected"}
<1> SUFFICES ASSUME IInv, [Next]_vars, NEW p \in Proposals, status[p] = "pending",
                    status'[p] # "pending"
             PROVE  status'[p] \in {"approved", "rejected"}
  OBVIOUS
<1> USE DEF IInv
<1>1. status # status'
  OBVIOUS
<1>2. PICK t \in Tasks : \/ ApproveWrite(t) \/ RejectWrite(t) \/ ApplyCheck(t)
                         \/ ApplyFinish(t) \/ \E q \in Proposals : StageInsert(t, q)
  BY <1>1, StatusWriters
<1>3. CASE ApproveWrite(t) \/ RejectWrite(t)
  BY <1>3 DEF ApproveWrite, RejectWrite, SetStatus, TypeOK
<1>4. CASE ApplyCheck(t) \/ ApplyFinish(t)
  <2>1. task[t].prop \in Proposals \cap approved
    BY <1>4, ApplyFacts DEF ApplyCheck, ApplyFinish, ApplyPcs
  <2>2. p # task[t].prop
    BY <2>1 DEF LedgerInv
  <2> QED
    BY <1>1, <1>4, <2>1, <2>2 DEF ApplyCheck, ApplyFinish, SetStatus, TypeOK
<1>5. CASE \E q \in Proposals : StageInsert(t, q)
  BY <1>5 DEF StageInsert, TypeOK
<1> QED
  BY <1>2, <1>3, <1>4, <1>5

\* A pending proposal leaves that state by a review only.
THEOREM OnlyReviewEndsPending == Spec => PendingOnlyReviewed
<1>1. IInv /\ [Next]_vars =>
        [\A p \in Proposals :
           status[p] = "pending" => status'[p] \in {"pending", "approved", "rejected"}]_vars
  BY PendingStep
<1> QED
  BY <1>1, Invariant, PTL DEF Spec, PendingOnlyReviewed

-----------------------------------------------------------------------------
(* Refinement: the workflow implements ReviewGate. *)

\* What is published is what the gate calls the reviewed page.
LEMMA ReviewedIsWithLink ==
    ASSUME NEW w \in Row, w.hash \in Content
    PROVE  Gate!Reviewed(w) = WithLink(w.hash, w.target)
BY DEF Gate!Reviewed, WithLink, Content

LEMMA GateInit == Init => Gate!Init
BY DEF Init, Gate!Init, Content, Gate!Content

LEMMA GateStep == IInv /\ [Next]_vars => [Gate!Next]_(Gate!vars)
<1> SUFFICES ASSUME IInv, [Next]_vars, ~UNCHANGED <<page, row, approved, published>>
             PROVE  Gate!Next
  BY DEF Gate!vars
<1> USE DEF IInv
<1>1. ASSUME Environment PROVE Gate!Next
  <2>1. PICK g \in Pages : Edit(g)
    BY <1>1 DEF Environment, Crash
  <2> QED
    BY <2>1 DEF Edit, Gate!Next, Gate!EditedByOthers, Content, Gate!Content
<1>2. ASSUME ~Environment
      PROVE  \E t \in Tasks : \/ ApproveWrite(t) \/ UpdateContent(t)
                              \/ \E p \in Proposals : StageInsert(t, p)
  <2>1. PICK t \in Tasks : Request(t) \/ Continue(t)
    BY <1>2 DEF Next, vars
  <2>3. ~Request(t)
    BY DEF Request, Approve, ApproveAndApply, ApproveRead, Reject, Apply, StartAudit
  <2>4. ~(RejectWrite(t) \/ ApplyRead(t) \/ GetObject(t) \/ ApplyCheck(t)
          \/ RequestFails(t) \/ ApplyFinish(t))
    BY DEF RejectWrite, ApplyRead, GetObject, ApplyCheck, RequestFails, ApplyFinish
  <2>5. ~(Crawl(t) \/ AuditFails(t) \/ Discover(t) \/ BeginStaging(t) \/ FinishAudit(t))
    BY DEF Crawl, AuditFails, Discover, BeginStaging, FinishAudit
  <2>6. ~\E c \in Suggestion : StageLookup(t, c)
    BY DEF StageLookup
  <2> QED
    BY <2>1, <2>3, <2>4, <2>5, <2>6 DEF Continue
<1>3. ASSUME NEW t \in Tasks, ApproveWrite(t) PROVE Gate!Next
  <2>1. task[t].prop \in Proposals /\ row[task[t].prop] # None
    BY <1>3, RowNotNone DEF ApproveWrite, TaskInv, TaskFacts, ProposalPcs
  <2>2. Gate!Approve(task[t].prop)
    BY <1>3, <2>1 DEF ApproveWrite, Gate!Approve
  <2> QED
    BY <2>1, <2>2 DEF Gate!Next
<1>4. ASSUME NEW t \in Tasks, UpdateContent(t) PROVE Gate!Next
  <2> DEFINE p == task[t].prop
             w == row[p]
             patched == WithLink(task[t].obj.raw, w.target)
  <2>1. /\ task[t].pc = "post"
        /\ page' = [page EXCEPT ![w.page].raw = patched]
        /\ published' = [published EXCEPT ![p] = @ \cup {patched}]
        /\ UNCHANGED <<row, approved>>
    BY <1>4 DEF UpdateContent
  <2>2. /\ p \in Proposals /\ p \in approved /\ w \in Row /\ w.auto /\ w.hash \in Content
    BY <2>1, ApplyFacts DEF ApplyPcs
  <2>3. patched = WithLink(w.hash, w.target)
    BY <2>1 DEF TaskInv, TaskFacts
  <2>4. patched = Gate!Reviewed(w)
    BY <2>2, <2>3, ReviewedIsWithLink
  <2>5. published[p] \cup {patched} = {patched}
    BY <2>2, <2>3 DEF ReviewedContentOnly
  <2>6. Gate!Publish(p)
    BY <2>1, <2>2, <2>4, <2>5 DEF Gate!Publish
  <2> QED
    BY <2>2, <2>6 DEF Gate!Next
<1>5. ASSUME NEW t \in Tasks, NEW p \in Proposals, StageInsert(t, p) PROVE Gate!Next
  <2> DEFINE w == StagedRow(task[t].cur, task[t].found)
  <2>1. w \in Row
    <3>1. task[t].cur \in Suggestion
      BY <1>5 DEF StageInsert, TaskInv, TaskFacts
    <3>2. task[t].found \in [Slugs -> Object \cup {None}]
      BY DEF TypeOK, TaskState
    <3> QED
      BY <3>1, <3>2, StagedRowType
  <2>2. w \in Gate!Change
    BY <2>1 DEF Gate!Change, Gate!Content, Row, Content
  <2>3. Gate!Propose(p, w)
    BY <1>5 DEF StageInsert, Gate!Propose, TypeOK
  <2> QED
    BY <2>2, <2>3 DEF Gate!Next
<1> QED
  BY <1>1, <1>2, <1>3, <1>4, <1>5

\* The workflow implements the review gate for every number of processes,
\* handlers and proposals.
THEOREM Implements == Spec => ImplementsGate
<1>1. Spec => Gate!Spec
  BY GateInit, GateStep, Invariant, PTL DEF Spec, Gate!Spec
<1> QED
  BY <1>1 DEF ImplementsGate
-----------------------------------------------------------------------------
(* One server process: its event loop makes the sections atomic. *)

\* All request handlers run in one process.
OneProcess == \A t, u \in Tasks : ProcOf[t] = ProcOf[u]

\* At most one handler is between two statements of a section.
OneSection ==
    \A t, u \in Tasks :
        task[t].pc \in SyncPcs /\ task[u].pc \in SyncPcs => t = u

\* Program points between a read of the proposals and the write it justifies.
HoldingPcs == {"insert", "approve_write", "approve_apply_write"}

\* What a section has read from the store is still so when it writes.
SectionFacts(t) ==
    /\ task[t].pc = "insert" => ~Existing(task[t].cur)
    /\ task[t].pc \in {"approve_write", "approve_apply_write"} =>
          status[task[t].prop] \in Open

SectionInv ==
    /\ OneSection
    /\ \A t \in Tasks : SectionFacts(t)
    /\ OneOpenProposal

LEMMA SectionInit == Init => SectionInv
BY DEF Init, SectionInv, OneSection, SectionFacts, OneOpenProposal, Open, IdleTask, SyncPcs

\* Only task t moves.
OnlyMoves(t) == \A u \in Tasks \ {t} : task'[u] = task[u]

\* A step of task t keeps the handlers apart when t enters a section only
\* while the loop is free, and keeps what the others have read when it writes
\* the store only while the loop is free.
LEMMA SectionStep ==
    ASSUME NEW t \in Tasks, OneProcess, SectionInv, OnlyMoves(t),
           task'[t].pc \in SyncPcs => task[t].pc \in SyncPcs \/ LoopFree(t),
           UNCHANGED <<status, row>> \/ LoopFree(t),
           SectionFacts(t)', OneOpenProposal'
    PROVE  SectionInv'
<1>1. OneSection'
  BY DEF OneSection, SectionInv, LoopFree, OneProcess, OnlyMoves
<1>2. ASSUME NEW u \in Tasks, u # t PROVE SectionFacts(u)'
  <2>1. task'[u] = task[u] /\ SectionFacts(u)
    BY <1>2 DEF SectionInv, OnlyMoves
  <2>2. CASE UNCHANGED <<status, row>>
    BY <2>1, <2>2 DEF SectionFacts, Existing
  <2>3. CASE LoopFree(t)
    <3>1. task[u].pc \notin SyncPcs
      BY <1>2, <2>3 DEF LoopFree, OneProcess
    <3> QED
      BY <2>1, <3>1 DEF SectionFacts, SyncPcs
  <2> QED
    BY <2>2, <2>3
<1> QED
  BY <1>1, <1>2 DEF SectionInv

\* Steps that leave the proposals alone and do not end between a read and its
\* write.
LEMMA SectionQuiet ==
    ASSUME NEW t \in Tasks, OneProcess, SectionInv, OnlyMoves(t),
           task'[t].pc \in SyncPcs => task[t].pc \in SyncPcs \/ LoopFree(t),
           task'[t].pc \notin HoldingPcs,
           UNCHANGED <<status, row>>
    PROVE  SectionInv'
<1>1. SectionFacts(t)'
  BY DEF SectionFacts, HoldingPcs
<1>2. OneOpenProposal'
  BY DEF SectionInv, OneOpenProposal
<1> QED
  BY <1>1, <1>2, SectionStep

\* What the helpers do to the tasks.
LEMMA GotoMoves ==
    ASSUME NEW t \in Tasks, NEW pc, TypeOK, Goto(t, pc)
    PROVE  OnlyMoves(t) /\ task'[t].pc = pc
BY DEF Goto, OnlyMoves, TypeOK, TaskState

LEMMA ReturnMoves ==
    ASSUME NEW t \in Tasks, TypeOK, Return(t)
    PROVE  OnlyMoves(t) /\ task'[t].pc = "idle"
BY DEF Return, OnlyMoves, TypeOK, IdleTask

LEMMA BeginMoves ==
    ASSUME NEW t \in Tasks, NEW p, NEW pc, TypeOK, Begin(t, p, pc)
    PROVE  OnlyMoves(t) /\ task'[t].pc = pc /\ task'[t].prop = p
BY DEF Begin, OnlyMoves, TypeOK, TaskState

\* approve, approve_and_apply and reject start a section, after their check.
LEMMA ReviewReadSection ==
    ASSUME NEW t \in Tasks, NEW p \in Proposals, OneProcess, TypeOK, SectionInv,
           Approve(t, p) \/ ApproveAndApply(t, p) \/ Reject(t, p)
    PROVE  SectionInv'
<1>1. PICK pc \in {"approve_write", "approve_apply_write", "reject_write"} :
          /\ Begin(t, p, pc) /\ LoopFree(t)
          /\ pc # "reject_write" => status[p] \in Open
          /\ UNCHANGED <<status, row>>
  BY DEF Approve, ApproveAndApply, ApproveRead, Reject
<1>2. OnlyMoves(t) /\ task'[t].pc = pc /\ task'[t].prop = p
  BY <1>1, BeginMoves
<1>3. SectionFacts(t)'
  BY <1>1, <1>2 DEF SectionFacts
<1>4. OneOpenProposal'
  BY <1>1 DEF SectionInv, OneOpenProposal
<1> QED
  BY <1>1, <1>2, <1>3, <1>4, SectionStep

\* A step that opens no proposal leaves at most one open per link.
LEMMA StillOneOpen ==
    ASSUME OneOpenProposal, row' = row,
           \A p \in Proposals : status'[p] \in Open => status[p] \in Open
    PROVE  OneOpenProposal'
BY DEF OneOpenProposal

\* The status writes open no proposal: approve writes to one that is open.
LEMMA WritesOpenNothing ==
    ASSUME NEW t \in Tasks, IInv, SectionInv,
           ApproveWrite(t) \/ RejectWrite(t) \/ ApplyCheck(t) \/ ApplyFinish(t)
    PROVE  \A q \in Proposals : status'[q] \in Open => status[q] \in Open
<1> USE DEF IInv
<1>1. CASE ApproveWrite(t)
  <2>1. status[task[t].prop] \in Open
    BY <1>1 DEF ApproveWrite, SectionInv, SectionFacts
  <2> QED
    BY <1>1, <2>1 DEF ApproveWrite, SetStatus, TypeOK
<1>2. CASE RejectWrite(t)
  BY <1>2 DEF RejectWrite, SetStatus, TypeOK, Open
<1>3. CASE ApplyCheck(t)
  BY <1>3 DEF ApplyCheck, SetStatus, TypeOK, Open
<1>4. CASE ApplyFinish(t)
  BY <1>4 DEF ApplyFinish, SetStatus, TypeOK, Open
<1> QED
  BY <1>1, <1>2, <1>3, <1>4

LEMMA StatusWriteSection ==
    ASSUME NEW t \in Tasks, OneProcess, IInv, SectionInv,
           ApproveWrite(t) \/ RejectWrite(t) \/ ApplyCheck(t) \/ ApplyFinish(t)
    PROVE  SectionInv'
<1> USE DEF IInv
<1>1. Return(t) \/ Goto(t, "apply_read") \/ Goto(t, "post")
  BY DEF ApproveWrite, RejectWrite, ApplyCheck, ApplyFinish
<1>2. OnlyMoves(t) /\ task'[t].pc \in {"idle", "apply_read", "post"}
  BY <1>1, ReturnMoves, GotoMoves
<1>3. SectionFacts(t)'
  BY <1>2 DEF SectionFacts
<1>4. LoopFree(t) /\ row' = row
  BY DEF ApproveWrite, RejectWrite, ApplyCheck, ApplyFinish
<1>5. OneOpenProposal'
  BY <1>4, WritesOpenNothing, StillOneOpen DEF SectionInv
<1> QED
  BY <1>2, <1>3, <1>4, <1>5, SectionStep

\* The staging loop: what the lookup did not find is still missing when the
\* row is inserted.
LEMMA LookupSection ==
    ASSUME NEW t \in Tasks, NEW c \in Suggestion, OneProcess, TypeOK, SectionInv,
           StageLookup(t, c)
    PROVE  SectionInv'
<1>1. /\ task[t].pc = "stage" /\ LoopFree(t) /\ task[t] \in TaskState
      /\ UNCHANGED <<status, row>>
  BY DEF StageLookup, TypeOK
<1>2. OnlyMoves(t)
  BY DEF StageLookup, OnlyMoves, TypeOK
<1>3. CASE Existing(c)
  <2>1. task'[t].pc = "stage"
    BY <1>1, <1>3 DEF StageLookup, TypeOK, TaskState
  <2> QED
    BY <1>1, <1>2, <2>1, SectionQuiet DEF HoldingPcs
<1>4. CASE ~Existing(c)
  <2>1. task'[t].pc = "insert" /\ task'[t].cur = c
    BY <1>1, <1>4 DEF StageLookup, TypeOK, TaskState
  <2>2. SectionFacts(t)'
    BY <1>1, <1>4, <2>1 DEF SectionFacts, Existing
  <2>3. OneOpenProposal'
    BY <1>1 DEF SectionInv, OneOpenProposal
  <2> QED
    BY <1>1, <1>2, <2>2, <2>3, SectionStep
<1> QED
  BY <1>3, <1>4

LEMMA InsertSection ==
    ASSUME NEW t \in Tasks, NEW p \in Proposals, OneProcess, TypeOK, SectionInv,
           StageInsert(t, p)
    PROVE  SectionInv'
<1> DEFINE c == task[t].cur
           w == StagedRow(c, task[t].found)
<1>1. /\ task[t].pc = "insert" /\ LoopFree(t)
      /\ status' = [status EXCEPT ![p] = "pending"]
      /\ row' = [row EXCEPT ![p] = w]
  BY DEF StageInsert
<1>2. OnlyMoves(t) /\ task'[t].pc = "stage"
  BY DEF StageInsert, OnlyMoves, TypeOK, TaskState
<1>3. SectionFacts(t)'
  BY <1>2 DEF SectionFacts
<1>4. w.slug = c.slug /\ w.target = c.target
  BY DEF StagedRow
<1>5. ~Existing(c)
  BY <1>1 DEF SectionInv, SectionFacts
<1>6. OneOpenProposal'
  <2> HIDE DEF c, w
  <2>1. \A q \in Proposals : q # p => status'[q] = status[q] /\ row'[q] = row[q]
    BY <1>1 DEF TypeOK
  <2>2. row'[p] = w
    BY <1>1 DEF TypeOK
  <2>3. \A q \in Proposals : q # p /\ status'[q] \in Open =>
            ~(row'[q].slug = row'[p].slug /\ row'[q].target = row'[p].target)
    BY <1>4, <1>5, <2>1, <2>2 DEF Existing
  <2> QED
    BY <2>1, <2>3 DEF SectionInv, OneOpenProposal
<1> QED
  BY <1>1, <1>2, <1>3, <1>6, SectionStep

\* Requests that start no section, and steps between two awaits.
LEMMA OtherSection ==
    ASSUME NEW t \in Tasks, OneProcess, TypeOK, SectionInv,
           \/ \E p \in Proposals : Apply(t, p)
           \/ \E r \in Runs : StartAudit(t, r)
           \/ ApplyRead(t) \/ GetObject(t) \/ UpdateContent(t) \/ RequestFails(t)
           \/ Crawl(t) \/ AuditFails(t) \/ Discover(t) \/ BeginStaging(t)
           \/ FinishAudit(t)
    PROVE  SectionInv'
<1>1. UNCHANGED <<status, row>>
  BY DEF Apply, StartAudit, ApplyRead, GetObject, UpdateContent, RequestFails, Crawl,
         AuditFails, Discover, BeginStaging, FinishAudit
<1>2. OnlyMoves(t) /\ (task'[t].pc \in SyncPcs => LoopFree(t))
      /\ task'[t].pc \notin HoldingPcs
  <2>0. task \in [Tasks -> TaskState] /\ \A pc \in ApplyPcs \cup AuditPcs \cup {"idle"} :
            pc \notin SyncPcs /\ pc \notin HoldingPcs
    BY DEF TypeOK, ApplyPcs, AuditPcs, SyncPcs, HoldingPcs
  <2> USE DEF OnlyMoves, TaskState, ApplyPcs, AuditPcs
  <2>1. CASE \E p \in Proposals : Apply(t, p)
    BY <2>0, <2>1, BeginMoves DEF Apply
  <2>2. CASE \E r \in Runs : StartAudit(t, r)
    <3>1. PICK r \in Runs : StartAudit(t, r)
      BY <2>2
    <3>2. CASE task' = [task EXCEPT ![t] = [@ EXCEPT !.pc = "crawl", !.run = r]]
      <4>1. OnlyMoves(t) /\ task'[t].pc = "crawl"
        BY <2>0, <3>2
      <4> QED
        BY <2>0, <4>1
    <3>3. CASE task' = task
      <4>1. task'[t].pc = "idle"
        BY <3>1, <3>3 DEF StartAudit
      <4> QED
        BY <2>0, <3>3, <4>1
    <3> QED
      BY <3>1, <3>2, <3>3 DEF StartAudit
  <2>3. CASE ApplyRead(t)
    BY <2>0, <2>3, GotoMoves, ReturnMoves DEF ApplyRead
  <2>4. CASE GetObject(t)
    BY <2>0, <2>4, SMTT(30) DEF GetObject
  <2>5. CASE UpdateContent(t)
    BY <2>0, <2>5, GotoMoves DEF UpdateContent
  <2>6. CASE RequestFails(t)
    BY <2>0, <2>6, GotoMoves DEF RequestFails
  <2>7. CASE AuditFails(t) \/ FinishAudit(t)
    BY <2>0, <2>7, ReturnMoves DEF AuditFails, FinishAudit
  <2>8. CASE Crawl(t)
    <3>1. PICK S : task' = [task EXCEPT ![t] = [@ EXCEPT !.pc = "discover", !.todo = S]]
      BY <2>8 DEF Crawl
    <3>2. OnlyMoves(t) /\ task'[t].pc = "discover"
      BY <2>0, <3>1
    <3> QED
      BY <2>0, <3>2
  <2>9. CASE Discover(t)
    <3>1. PICK f : task' = [task EXCEPT ![t] = [@ EXCEPT !.pc = "discovered", !.found = f]]
      BY <2>9 DEF Discover
    <3>2. OnlyMoves(t) /\ task'[t].pc = "discovered"
      BY <2>0, <3>1
    <3> QED
      BY <2>0, <3>2
  <2>10. CASE BeginStaging(t)
    <3>1. OnlyMoves(t) /\ task'[t].pc = "stage" /\ LoopFree(t)
      BY <2>10, GotoMoves DEF BeginStaging
    <3> QED
      BY <3>1 DEF HoldingPcs
  <2> QED
    BY <2>1, <2>2, <2>3, <2>4, <2>5, <2>6, <2>7, <2>8, <2>9, <2>10
<1> QED
  BY <1>1, <1>2, SectionQuiet

\* A crash ends handlers, an edit touches none.
LEMMA EnvironmentSection ==
    ASSUME SectionInv, Environment
    PROVE  SectionInv'
<1>1. UNCHANGED <<status, row>>
  BY DEF Environment, Edit, Crash
<1>2. \A t \in Tasks : task'[t] \in {task[t], IdleTask}
  BY DEF Environment, Edit, Crash
<1>3. IdleTask.pc = "idle"
  BY DEF IdleTask
<1>4. OneSection'
  BY <1>2, <1>3 DEF SectionInv, OneSection, SyncPcs
<1>5. \A t \in Tasks : SectionFacts(t)'
  BY <1>1, <1>2, <1>3 DEF SectionInv, SectionFacts, Existing
<1> QED
  BY <1>1, <1>4, <1>5 DEF SectionInv, OneOpenProposal

LEMMA SectionNext ==
    ASSUME OneProcess
    PROVE  IInv /\ SectionInv /\ [Next]_vars => SectionInv'
<1> SUFFICES ASSUME IInv, SectionInv, [Next]_vars PROVE SectionInv'
  OBVIOUS
<1>1. CASE UNCHANGED vars
  BY <1>1 DEF vars, SectionInv, OneSection, SectionFacts, Existing, OneOpenProposal
<1>2. ASSUME NEW t \in Tasks, Request(t) PROVE SectionInv'
  BY <1>2, ReviewReadSection, OtherSection DEF Request, IInv
<1>3. ASSUME NEW t \in Tasks, Continue(t) PROVE SectionInv'
  <2>1. CASE ApproveWrite(t) \/ RejectWrite(t) \/ ApplyCheck(t) \/ ApplyFinish(t)
    BY <2>1, StatusWriteSection
  <2>2. CASE \E c \in Suggestion : StageLookup(t, c)
    BY <2>2, LookupSection DEF IInv
  <2>3. CASE \E p \in Proposals : StageInsert(t, p)
    BY <2>3, InsertSection DEF IInv
  <2> QED
    BY <1>3, <2>1, <2>2, <2>3, OtherSection DEF Continue, IInv
<1> QED
  BY <1>1, <1>2, <1>3, EnvironmentSection DEF Next

LEMMA SectionInvariant ==
    ASSUME OneProcess
    PROVE  Spec => [](IInv /\ SectionInv)
<1>1. IInv /\ SectionInv /\ [Next]_vars => SectionInv'
  BY SectionNext
<1> QED
  BY <1>1, SectionInit, Invariant, PTL DEF Spec

\* One server process never has two open proposals for one link, although
\* create_proposal looks and inserts in two statements.
THEOREM NoDuplicateProposal ==
    ASSUME OneProcess
    PROVE  Spec => []OneOpenProposal
<1>1. SectionInv => OneOpenProposal
  BY DEF SectionInv
<1> QED
  BY <1>1, SectionInvariant, PTL

LEMMA ReopenStep ==
    IInv /\ SectionInv /\ [Next]_vars =>
        \A p \in Proposals :
            status[p] \notin Open \cup {"none"} => status'[p] \notin Open
<1> SUFFICES ASSUME IInv, SectionInv, [Next]_vars, NEW p \in Proposals,
                    status[p] \notin Open \cup {"none"}, status' # status
             PROVE  status'[p] \notin Open
  OBVIOUS
<1>1. PICK t \in Tasks :
              \/ ApproveWrite(t) \/ RejectWrite(t) \/ ApplyCheck(t) \/ ApplyFinish(t)
              \/ \E q \in Proposals : StageInsert(t, q)
  BY StatusWriters
<1>2. CASE ApproveWrite(t) \/ RejectWrite(t) \/ ApplyCheck(t) \/ ApplyFinish(t)
  BY <1>2, WritesOpenNothing
<1>3. CASE \E q \in Proposals : StageInsert(t, q)
  BY <1>3 DEF StageInsert, IInv, TypeOK
<1> QED
  BY <1>1, <1>2, <1>3

\* In one server process a late approve does not undo a rejection, nor an
\* approval the end of an apply.
THEOREM LeftReviewForGood ==
    ASSUME OneProcess
    PROVE  Spec => NeverReopened
<1>1. IInv /\ SectionInv /\ [Next]_vars =>
        [\A p \in Proposals :
           status[p] \notin Open \cup {"none"} => status'[p] \notin Open]_vars
  BY ReopenStep
<1> QED
  BY <1>1, SectionInvariant, PTL DEF Spec, NeverReopened

-----------------------------------------------------------------------------
(* Scheduled audits *)

\* What a loop has in hand at each program point.
Hands(l) ==
    /\ l \in LoopState
    /\ l.pc \notin {"write", "refresh"} => l.rows = << >>
    /\ l.pc = "refresh" => l.rows # << >>
    /\ l.pc \in {"off", "poll", "write", "sleep", "dead"} => l.todo = << >>
    /\ IF l.pc \in {"audit", "ended", "finish"} THEN l.cur \in Schedules ELSE l.cur = Null
    /\ IsInjective(l.rows) /\ IsInjective(l.todo)
    /\ ToSet(l.rows) \cap ToSet(l.todo) = {}
    /\ l.cur \notin ToSet(l.todo)

HandsInv == \A p \in Servers : Hands(loop[p])

\* A schedule that was never made has no run and nobody has it in hand; one
\* that was has a connector.
MadeInv ==
    \A s \in Schedules :
        /\ schedule[s] = Null => latest[s] = Null /\ ~ Pending(s)
        /\ schedule[s] # Null => connector[schedule[s].conn] # Null

\* A loop between BEGIN IMMEDIATE and the commit holds the lock.
LockInv == \A p \in Servers : loop[p].pc = "write" => writer = p

\* The loop of p has marked s "running" and not reported it yet.
Taken(p, s) ==
    \/ loop[p].pc # "write" /\ s \in ToSet(loop[p].rows)
    \/ s \in ToSet(loop[p].todo)
    \/ loop[p].cur = s

\* An outcome of s that its newest run explains, or a refusal.
Explained(s, last) ==
    \/ last = latest[s]
    \/ last = "failed" /\ (~ Auditable(s) \/ MayFail)

Settled(s) == Explained(s, schedule[s].last) \/ (schedule[s].last = "running" /\ Broken)

\* A schedule of the table is marked "running" while it is taken, and settled
\* otherwise.
StatusFact(p, s) ==
    Exists(s) => IF Taken(p, s) THEN schedule[s].last = "running" ELSE Settled(s)

\* The outcome about to be written to the schedule is explained.
FinishFact(p) ==
    loop[p].pc = "finish" /\ Exists(loop[p].cur) => Explained(loop[p].cur, loop[p].out)

\* What the only scheduler p makes of the schedules: an audit under way is the newest
\* run of its schedule.
StatusInv(p) ==
    /\ \A s \in Schedules : StatusFact(p, s)
    /\ loop[p].pc \in {"audit", "ended"} => loop[p].mine
    /\ FinishFact(p)

\* p runs the only scheduler.
Only(p) == scope.schedulers = {p}

\* The loops of the other processes never start.
SingleInv ==
    \A p \in Servers : Only(p) =>
        /\ \A q \in Servers \ {p} : loop[q] = NoLoop
        /\ StatusInv(p)

\* The inductive invariant: the lock and the hands for any number of schedulers,
\* the statuses for one.
ScheduleInv == /\ ScheduleTypeOK /\ HandsInv /\ MadeInv
               /\ LockInv /\ ClaimsAreDue
               /\ SingleInv

-----------------------------------------------------------------------------
(* Rows in order *)

\* An arrangement of some schedules is a sequence of them without repetition,
\* by the time of their next run.
LEMMA ArrangedRows ==
    ASSUME ScheduleAssumption, NEW S \in SUBSET Schedules, NEW moved, NEW table,
           NEW seq \in Arranged(S, moved, table)
    PROVE  /\ seq \in Seq(Schedules)
           /\ IsInjective(seq)
           /\ ToSet(seq) \subseteq S
           /\ \A i, j \in DOMAIN seq : i < j => table[seq[i]].due <= table[seq[j]].due
<1>1. Cardinality(S) \in Nat
  BY FS_CardinalityType, FS_Subset DEF ScheduleAssumption
<1>2. /\ seq \in [1 .. Cardinality(S) -> S]
      /\ \A i, j \in 1 .. Cardinality(S) : i # j => seq[i] # seq[j]
      /\ \A i, j \in DOMAIN seq : i < j => table[seq[i]].due <= table[seq[j]].due
  BY DEF Arranged, SetToSeqs
<1>3. QED
  BY <1>1, <1>2 DEF IsInjective, ToSet

\* The limit of a claim leaves rows of the selection, without repetition.
LEMMA LimitedRows ==
    ASSUME ScheduleAssumption, NEW seq \in Seq(Schedules), IsInjective(seq)
    PROVE  /\ Limited(seq) \in Seq(Schedules)
           /\ IsInjective(Limited(seq))
           /\ ToSet(Limited(seq)) \subseteq ToSet(seq)
<1> DEFINE n == IF Len(seq) < ClaimLimit THEN Len(seq) ELSE ClaimLimit
<1>1. n \in Nat /\ n <= Len(seq)
  BY DEF ScheduleAssumption
<1> HIDE DEF n
<1>2. /\ SubSeq(seq, 1, n) \in Seq(Schedules)
      /\ Len(SubSeq(seq, 1, n)) = n
      /\ \A i \in 1 .. n : SubSeq(seq, 1, n)[i] = seq[i]
  BY <1>1
<1>3. Limited(seq) = SubSeq(seq, 1, n)
  BY DEF Limited, n
<1>4. QED
  BY <1>1, <1>2, <1>3, SMTT(30) DEF IsInjective, ToSet

\* Taking the first row.
LEMMA TailRows ==
    ASSUME NEW seq \in Seq(Schedules), IsInjective(seq), seq # << >>
    PROVE  /\ Head(seq) \in Schedules
           /\ Tail(seq) \in Seq(Schedules)
           /\ IsInjective(Tail(seq))
           /\ Head(seq) \in ToSet(seq)
           /\ ToSet(Tail(seq)) = ToSet(seq) \ {Head(seq)}
           /\ Len(seq) = 1 <=> Tail(seq) = << >>
<1>1. /\ Len(seq) \in Nat \ {0}
      /\ Head(seq) = seq[1]
      /\ Tail(seq) \in Seq(Schedules)
      /\ Len(Tail(seq)) = Len(seq) - 1
      /\ \A i \in 1 .. Len(seq) - 1 : Tail(seq)[i] = seq[i + 1]
  OBVIOUS
<1>2. Head(seq) \in Schedules /\ Head(seq) \in ToSet(seq)
  BY <1>1 DEF ToSet
<1>3. IsInjective(Tail(seq))
  BY <1>1 DEF IsInjective
<1>4. ASSUME NEW s \in ToSet(Tail(seq))
      PROVE  s \in ToSet(seq) \ {Head(seq)}
  BY <1>1, <1>4 DEF IsInjective, ToSet
<1>5. ASSUME NEW s \in ToSet(seq) \ {Head(seq)}
      PROVE  s \in ToSet(Tail(seq))
  <2>1. PICK i \in 1 .. Len(seq) : seq[i] = s
    BY DEF ToSet
  <2>2. i - 1 \in 1 .. Len(Tail(seq)) /\ Tail(seq)[i - 1] = s
    BY <1>1, <2>1
  <2>3. DOMAIN Tail(seq) = 1 .. Len(Tail(seq))
    BY <1>1
  <2>4. QED
    BY <2>2, <2>3 DEF ToSet
<1>6. Len(seq) = 1 <=> Tail(seq) = << >>
  <2>1. Tail(seq) = << >> <=> Len(Tail(seq)) = 0
    BY <1>1
  <2>2. QED
    BY <1>1, <2>1
<1>7. QED
  BY <1>1, <1>2, <1>3, <1>4, <1>5, <1>6

\* Adding a row that is not there yet.
LEMMA AppendRows ==
    ASSUME NEW seq \in Seq(Schedules), IsInjective(seq),
           NEW s \in Schedules, s \notin ToSet(seq)
    PROVE  /\ Append(seq, s) \in Seq(Schedules)
           /\ IsInjective(Append(seq, s))
           /\ ToSet(Append(seq, s)) = ToSet(seq) \cup {s}
<1>1. /\ Len(seq) \in Nat
      /\ Append(seq, s) \in Seq(Schedules)
      /\ Len(Append(seq, s)) = Len(seq) + 1
      /\ \A i \in 1 .. Len(seq) : Append(seq, s)[i] = seq[i]
      /\ Append(seq, s)[Len(seq) + 1] = s
  OBVIOUS
<1>2. \A i \in 1 .. Len(seq) : seq[i] # s
  BY DEF ToSet
<1>3. IsInjective(Append(seq, s))
  BY <1>1, <1>2 DEF IsInjective
<1>4. ToSet(Append(seq, s)) = ToSet(seq) \cup {s}
  BY <1>1 DEF ToSet
<1>5. QED
  BY <1>1, <1>3, <1>4

\* No rows.
LEMMA NoRows == << >> \in Seq(Schedules) /\ IsInjective(<< >>) /\ ToSet(<< >>) = {}
BY DEF IsInjective, ToSet

-----------------------------------------------------------------------------
(* The loops *)

\* A loop at a program point where it holds no rows may go on to another.
LEMMA HandsGoto ==
    ASSUME NEW l, Hands(l),
           NEW pc \in LoopPcs,
           \/ l.pc \in {"off", "sleep"} /\ pc = "poll"
           \/ l.pc = "next" /\ l.todo = << >> /\ pc = "sleep"
           \/ l.pc = "ended" /\ pc = "finish"
    PROVE  Hands([l EXCEPT !.pc = pc])
<1> DEFINE m == [l EXCEPT !.pc = pc]
<1>1. l \in LoopState
  BY DEF Hands
<1>2. /\ m \in LoopState /\ m.pc = pc
      /\ m.rows = l.rows /\ m.todo = l.todo /\ m.cur = l.cur
  BY <1>1 DEF LoopState
<1> HIDE DEF m
<1>3. Hands(m)
  BY <1>2 DEF Hands
<1>4. QED
  BY <1>3 DEF m

\* An idle loop has nothing in hand.
LEMMA HandsNone ==
    ASSUME NullAssumption
    PROVE  Hands(NoLoop) /\ Hands([NoLoop EXCEPT !.pc = "dead"])
<1>1. NoLoop \in LoopState /\ [NoLoop EXCEPT !.pc = "dead"] \in LoopState
  BY NoRows DEF NoLoop, LoopState, LoopPcs
<1>2. QED
  BY <1>1, NoRows DEF Hands, NoLoop

\* The rows a claim selects.
LEMMA HandsClaimed ==
    ASSUME NEW l, Hands(l), l.pc = "poll",
           NEW rows \in Seq(Schedules), IsInjective(rows)
    PROVE  Hands([l EXCEPT !.pc = "write", !.rows = rows])
<1> DEFINE m == [l EXCEPT !.pc = "write", !.rows = rows]
<1>1. l \in LoopState
  BY DEF Hands
<1>2. /\ m \in LoopState /\ m.pc = "write"
      /\ m.rows = rows /\ m.todo = l.todo /\ m.cur = l.cur
  BY <1>1 DEF LoopState, LoopPcs
<1> HIDE DEF m
<1>3. Hands(m)
  BY <1>2, NoRows DEF Hands
<1>4. QED
  BY <1>3 DEF m

\* The rows a claim has written are read again, or there are none.
LEMMA HandsWritten ==
    ASSUME NEW l, Hands(l), l.pc = "write"
    PROVE  Hands([l EXCEPT !.pc = IF l.rows = << >> THEN "sleep" ELSE "refresh"])
<1> DEFINE m == [l EXCEPT !.pc = IF l.rows = << >> THEN "sleep" ELSE "refresh"]
<1>1. l \in LoopState
  BY DEF Hands
<1>2. /\ m \in LoopState /\ m.pc = IF l.rows = << >> THEN "sleep" ELSE "refresh"
      /\ m.rows = l.rows /\ m.todo = l.todo /\ m.cur = l.cur
  BY <1>1 DEF LoopState, LoopPcs
<1> HIDE DEF m
<1>3. Hands(m)
  BY <1>2, NoRows DEF Hands
<1>4. QED
  BY <1>3 DEF m

\* A row that was read again is next to be audited.
LEMMA HandsRefreshed ==
    ASSUME NullAssumption, NEW l, Hands(l), l.pc = "refresh"
    PROVE  Hands([l EXCEPT !.rows = Tail(l.rows), !.todo = Append(@, Head(l.rows)),
                           !.pc = IF Len(l.rows) = 1 THEN "next" ELSE "refresh"])
<1> DEFINE m == [l EXCEPT !.rows = Tail(l.rows), !.todo = Append(@, Head(l.rows)),
                          !.pc = IF Len(l.rows) = 1 THEN "next" ELSE "refresh"]
<1>1. /\ l \in LoopState /\ l.rows \in Seq(Schedules) /\ l.todo \in Seq(Schedules)
      /\ l.rows # << >>
      /\ IsInjective(l.rows) /\ IsInjective(l.todo)
      /\ ToSet(l.rows) \cap ToSet(l.todo) = {}
      /\ l.cur = Null
  BY DEF Hands, LoopState
<1>2. /\ Head(l.rows) \in Schedules
      /\ Tail(l.rows) \in Seq(Schedules)
      /\ IsInjective(Tail(l.rows))
      /\ Head(l.rows) \in ToSet(l.rows)
      /\ ToSet(Tail(l.rows)) = ToSet(l.rows) \ {Head(l.rows)}
      /\ Len(l.rows) = 1 <=> Tail(l.rows) = << >>
  BY <1>1, TailRows
<1>3. Head(l.rows) \notin ToSet(l.todo)
  BY <1>1, <1>2
<1>4. /\ Append(l.todo, Head(l.rows)) \in Seq(Schedules)
      /\ IsInjective(Append(l.todo, Head(l.rows)))
      /\ ToSet(Append(l.todo, Head(l.rows))) = ToSet(l.todo) \cup {Head(l.rows)}
  BY <1>1, <1>2, <1>3, AppendRows
<1>5. /\ m \in LoopState
      /\ m.pc = IF Len(l.rows) = 1 THEN "next" ELSE "refresh"
      /\ m.rows = Tail(l.rows) /\ m.todo = Append(l.todo, Head(l.rows)) /\ m.cur = l.cur
  BY <1>1, <1>2, <1>4 DEF LoopState, LoopPcs
<1> HIDE DEF m
<1>6. ToSet(m.rows) \cap ToSet(m.todo) = {}
  BY <1>1, <1>2, <1>4, <1>5
<1>7. m.cur \notin ToSet(m.todo)
  <2>1. Null \notin ToSet(l.todo) /\ Head(l.rows) # Null
    BY <1>1, <1>2 DEF Hands, NullAssumption
  <2>2. QED
    BY <1>1, <1>4, <1>5, <2>1
<1>8. Hands(m)
  BY <1>1, <1>2, <1>4, <1>5, <1>6, <1>7 DEF Hands
<1>9. QED
  BY <1>8 DEF m

\* The next schedule is audited, or refused.
LEMMA HandsTaken ==
    ASSUME NEW l, Hands(l), l.pc = "next", l.todo # << >>,
           NEW pc \in {"audit", "finish"}, NEW mine \in BOOLEAN,
           NEW out \in {"completed", "failed", Null}
    PROVE  Hands([l EXCEPT !.pc = pc, !.todo = Tail(@), !.cur = Head(l.todo),
                           !.mine = mine, !.out = out])
<1> DEFINE m == [l EXCEPT !.pc = pc, !.todo = Tail(@), !.cur = Head(l.todo),
                          !.mine = mine, !.out = out]
<1>1. l \in LoopState /\ l.todo \in Seq(Schedules) /\ IsInjective(l.todo)
      /\ l.rows = << >>
  BY DEF Hands, LoopState
<1>2. /\ Head(l.todo) \in Schedules
      /\ Tail(l.todo) \in Seq(Schedules)
      /\ IsInjective(Tail(l.todo))
      /\ ToSet(Tail(l.todo)) = ToSet(l.todo) \ {Head(l.todo)}
  BY <1>1, TailRows
<1>3. /\ m \in LoopState /\ m.pc = pc
      /\ m.rows = << >> /\ m.todo = Tail(l.todo) /\ m.cur = Head(l.todo)
  BY <1>1, <1>2 DEF LoopState, LoopPcs
<1> HIDE DEF m
<1>4. Hands(m)
  BY <1>2, <1>3, NoRows DEF Hands
<1>5. QED
  BY <1>4 DEF m

\* The audit has an outcome.
LEMMA HandsAudited ==
    ASSUME NEW l, Hands(l), l.pc = "audit", NEW out \in {"completed", "failed"}
    PROVE  Hands([l EXCEPT !.pc = "ended", !.out = out])
<1> DEFINE m == [l EXCEPT !.pc = "ended", !.out = out]
<1>1. l \in LoopState
  BY DEF Hands
<1>2. /\ m \in LoopState /\ m.pc = "ended"
      /\ m.rows = l.rows /\ m.todo = l.todo /\ m.cur = l.cur
  BY <1>1 DEF LoopState, LoopPcs
<1> HIDE DEF m
<1>3. Hands(m)
  BY <1>2 DEF Hands
<1>4. QED
  BY <1>3 DEF m

\* The schedule is reported and out of hand.
LEMMA HandsReported ==
    ASSUME NullAssumption, NEW l, Hands(l), l.pc = "finish"
    PROVE  Hands([l EXCEPT !.pc = "next", !.cur = Null, !.mine = FALSE, !.out = Null])
<1> DEFINE m == [l EXCEPT !.pc = "next", !.cur = Null, !.mine = FALSE, !.out = Null]
<1>1. l \in LoopState
  BY DEF Hands
<1>2. /\ m \in LoopState /\ m.pc = "next"
      /\ m.rows = l.rows /\ m.todo = l.todo /\ m.cur = Null
  BY <1>1 DEF LoopState, LoopPcs
<1> HIDE DEF m
<1>3. Null \notin ToSet(l.todo)
  BY <1>1 DEF NullAssumption, LoopState, ToSet
<1>4. Hands(m)
  BY <1>2, <1>3 DEF Hands
<1>5. QED
  BY <1>4 DEF m

\* Another loop may take over the newest run of the same schedule.
LEMMA HandsOvertaken ==
    ASSUME NEW l, Hands(l)
    PROVE  Hands([l EXCEPT !.mine = FALSE])
<1> DEFINE m == [l EXCEPT !.mine = FALSE]
<1>1. l \in LoopState
  BY DEF Hands
<1>2. /\ m \in LoopState /\ m.pc = l.pc
      /\ m.rows = l.rows /\ m.todo = l.todo /\ m.cur = l.cur
  BY <1>1 DEF LoopState
<1> HIDE DEF m
<1>3. Hands(m)
  BY <1>2 DEF Hands
<1>4. QED
  BY <1>3 DEF m

\* One loop goes on.
LEMMA OneLoop ==
    ASSUME loop \in [Servers -> LoopState], HandsInv, NEW p \in Servers, NEW l, Hands(l),
           loop' = [loop EXCEPT ![p] = l]
    PROVE  loop' \in [Servers -> LoopState] /\ HandsInv'
<1>1. l \in LoopState
  BY DEF Hands
<1>2. loop' \in [Servers -> LoopState]
  BY <1>1
<1>3. ASSUME NEW q \in Servers
      PROVE  Hands(loop'[q])
  BY DEF HandsInv
<1>4. QED
  BY <1>2, <1>3 DEF HandsInv

\* The types of the loops and what they have in hand, through every step.
LEMMA HandsStep ==
    ASSUME ScheduleAssumption, NullAssumption, ScheduleTypeOK, HandsInv, ScheduleNext
    PROVE  loop' \in [Servers -> LoopState] /\ HandsInv'
<1> DEFINE Goal == loop' \in [Servers -> LoopState] /\ HandsInv'
<1> USE DEF Goal
<1>0. /\ loop \in [Servers -> LoopState]
      /\ \A p \in Servers : Hands(loop[p])
  BY DEF ScheduleTypeOK, HandsInv
<1>1. CASE UNCHANGED loop
  BY <1>1, <1>0 DEF HandsInv
<1>2. ASSUME NEW p \in Servers, StartScheduler(p) \/ AllAudited(p) \/ FinishRun(p) \/ Wake(p)
      PROVE  Goal
  <2>1. PICK pc \in LoopPcs :
           /\ \/ loop[p].pc \in {"off", "sleep"} /\ pc = "poll"
              \/ loop[p].pc = "next" /\ loop[p].todo = << >> /\ pc = "sleep"
              \/ loop[p].pc = "ended" /\ pc = "finish"
           /\ loop' = [loop EXCEPT ![p].pc = pc]
    BY <1>2 DEF StartScheduler, AllAudited, FinishRun, Wake, LoopGoto, LoopPcs
  <2>2. Hands([loop[p] EXCEPT !.pc = pc])
    BY <1>0, <2>1, HandsGoto
  <2>3. loop' = [loop EXCEPT ![p] = [loop[p] EXCEPT !.pc = pc]]
    BY <2>1
  <2>4. QED
    BY <1>0, <2>2, <2>3, OneLoop
<1>3. ASSUME NEW p \in Servers,
             ClaimFails(p) \/ FinishFails(p) \/ StopScheduler(p) \/ ServerCrash(p)
      PROVE  Goal
  <2>1. \/ loop' = [loop EXCEPT ![p] = NoLoop]
        \/ loop' = [loop EXCEPT ![p] = [NoLoop EXCEPT !.pc = "dead"]]
    BY <1>3 DEF ClaimFails, FinishFails, StopScheduler, ServerCrash
  <2>2. QED
    BY <1>0, <2>1, HandsNone, OneLoop
<1>4. ASSUME NEW p \in Servers, ClaimBegin(p)
      PROVE  Goal
  <2>1. PICK due \in SelectDue :
           loop' = [loop EXCEPT ![p] = [loop[p] EXCEPT !.pc = "write", !.rows = Limited(due)]]
    BY <1>0, <1>4 DEF ClaimBegin
  <2>2. {s \in ToSet(order) : Due(s)} \in SUBSET Schedules
    BY DEF ScheduleTypeOK, ToSet
  <2>3. due \in Seq(Schedules) /\ IsInjective(due)
    BY <2>1, <2>2, ArrangedRows DEF SelectDue
  <2>4. Limited(due) \in Seq(Schedules) /\ IsInjective(Limited(due))
    BY <2>3, LimitedRows
  <2>5. Hands([loop[p] EXCEPT !.pc = "write", !.rows = Limited(due)])
    BY <1>0, <1>4, <2>4, HandsClaimed DEF ClaimBegin
  <2>6. QED
    BY <1>0, <2>1, <2>5, OneLoop
<1>5. ASSUME NEW p \in Servers, ClaimWrite(p)
      PROVE  Goal
  <2> DEFINE l == [loop[p] EXCEPT !.pc = IF loop[p].rows = << >> THEN "sleep" ELSE "refresh"]
  <2>1. Hands(l)
    BY <1>0, <1>5, HandsWritten DEF ClaimWrite
  <2>2. loop' = [loop EXCEPT ![p] = l]
    BY <1>0, <1>5 DEF ClaimWrite
  <2>3. QED
    BY <1>0, <2>1, <2>2, OneLoop
<1>6. ASSUME NEW p \in Servers, Refresh(p)
      PROVE  Goal
  <2>1. CASE ~ Exists(Head(loop[p].rows))
    <3>1. loop' = [loop EXCEPT ![p] = [NoLoop EXCEPT !.pc = "dead"]]
      BY <1>6, <2>1 DEF Refresh
    <3>2. QED
      BY <1>0, <3>1, HandsNone, OneLoop
  <2>2. CASE Exists(Head(loop[p].rows))
    <3> DEFINE l == [loop[p] EXCEPT !.rows = Tail(loop[p].rows),
                                    !.todo = Append(@, Head(loop[p].rows)),
                                    !.pc = IF Len(loop[p].rows) = 1 THEN "next" ELSE "refresh"]
    <3>1. Hands(l)
      BY <1>0, <1>6, HandsRefreshed DEF Refresh
    <3>2. loop' = [loop EXCEPT ![p] = l]
      BY <1>0, <1>6, <2>2 DEF Refresh
    <3>3. QED
      BY <1>0, <3>1, <3>2, OneLoop
  <2>3. QED
    BY <2>1, <2>2
<1>7. ASSUME NEW p \in Servers, NextAudit(p)
      PROVE  Goal
  <2> DEFINE s == Head(loop[p].todo)
  <2>0. loop[p].pc = "next" /\ loop[p].todo # << >>
    BY <1>7 DEF NextAudit
  <2>1. CASE BeginAudit(p, s)
    <3> DEFINE l == [loop[p] EXCEPT !.pc = "audit", !.todo = Tail(@), !.cur = s,
                                    !.mine = TRUE, !.out = loop[p].out]
    <3>1. loop[p].out \in {"completed", "failed", Null}
      BY <1>0 DEF LoopState
    <3>2. Hands(l)
      BY <1>0, <2>0, <3>1, HandsTaken
    <3>3. l = [loop[p] EXCEPT !.pc = "audit", !.todo = Tail(@), !.cur = s, !.mine = TRUE]
      BY <1>0 DEF LoopState
    <3>4. ASSUME NEW q \in Servers
          PROVE  Hands(loop'[q])
      <4>1. CASE q = p
        BY <2>1, <3>2, <3>3, <4>1 DEF BeginAudit
      <4>2. CASE q # p
        BY <1>0, <2>1, <4>2, HandsOvertaken DEF BeginAudit
      <4>3. QED
        BY <4>1, <4>2
    <3>5. loop' = [q \in Servers |-> loop'[q]]
      BY <2>1 DEF BeginAudit
    <3>6. \A q \in Servers : loop'[q] \in LoopState
      BY <3>4 DEF Hands
    <3>7. QED
      BY <3>4, <3>5, <3>6 DEF HandsInv
  <2>2. CASE RefuseAudit(p, s)
    <3> DEFINE l == [loop[p] EXCEPT !.pc = "finish", !.todo = Tail(@), !.cur = s,
                                    !.mine = FALSE, !.out = "failed"]
    <3>1. Hands(l)
      BY <1>0, <2>0, HandsTaken
    <3>2. loop' = [loop EXCEPT ![p] = l]
      BY <1>0, <2>2 DEF RefuseAudit
    <3>3. QED
      BY <1>0, <3>1, <3>2, OneLoop
  <2>3. QED
    BY <1>7, <2>1, <2>2 DEF NextAudit
<1>8. ASSUME NEW p \in Servers, AuditEnds(p)
      PROVE  Goal
  <2>1. PICK out \in {"completed", "failed"} :
           loop' = [loop EXCEPT ![p] = [loop[p] EXCEPT !.pc = "ended", !.out = out]]
    BY <1>0, <1>8 DEF AuditEnds
  <2>2. Hands([loop[p] EXCEPT !.pc = "ended", !.out = out])
    BY <1>0, <1>8, HandsAudited DEF AuditEnds
  <2>3. QED
    BY <1>0, <2>1, <2>2, OneLoop
<1>9. ASSUME NEW p \in Servers, FinishSchedule(p)
      PROVE  Goal
  <2> DEFINE l == [loop[p] EXCEPT !.pc = "next", !.cur = Null, !.mine = FALSE, !.out = Null]
  <2>1. Hands(l)
    BY <1>0, <1>9, HandsReported DEF FinishSchedule
  <2>2. loop' = [loop EXCEPT ![p] = l]
    BY <1>0, <1>9 DEF FinishSchedule
  <2>3. QED
    BY <1>0, <2>1, <2>2, OneLoop
<1>10. ASSUME NEW p \in Servers, ScheduleRequest(p)
       PROVE  UNCHANGED loop
  BY <1>10
     DEF ScheduleRequest, CreateConnector, TestConnector, CreateSchedule, DeleteSchedule,
         InsertFails
<1>11. ASSUME Tick
       PROVE  UNCHANGED loop
  BY <1>11 DEF Tick
<1>12. QED
  BY <1>1, <1>2, <1>3, <1>4, <1>5, <1>6, <1>7, <1>8, <1>9, <1>10, <1>11
     DEF ScheduleNext, SchedulerLoop

-----------------------------------------------------------------------------
(* Types *)

\* The connectors keep their enabled flag.
LEMMA ConnectorStep ==
    ASSUME NullAssumption, ScheduleTypeOK, ScheduleNext
    PROVE  /\ connector' \in [Connectors -> Connector \cup {Null}]
           /\ \A c \in Connectors : connector[c] # Null =>
                 connector'[c] # Null /\ connector'[c].enabled = connector[c].enabled
<1>0. connector \in [Connectors -> Connector \cup {Null}]
  BY DEF ScheduleTypeOK
<1>1. CASE UNCHANGED connector
  BY <1>0, <1>1
<1>2. ASSUME NEW p \in Servers, NEW c \in Connectors, CreateConnector(p, c)
      PROVE  /\ connector[c] = Null
             /\ \E new \in Connector : connector' = [connector EXCEPT ![c] = new]
  BY <1>2 DEF CreateConnector, Connector
<1>3. ASSUME NEW p \in Servers, NEW c \in Connectors, TestConnector(p, c)
      PROVE  /\ connector[c] \in Connector
             /\ \E new \in Connector : /\ new.enabled = connector[c].enabled
                                       /\ connector' = [connector EXCEPT ![c] = new]
  <2>1. connector[c] \in Connector
    BY <1>0, <1>3 DEF TestConnector
  <2>2. PICK outcome \in {"ok", "failed"} :
           connector' = [connector EXCEPT ![c] = [connector[c] EXCEPT !.test = outcome]]
    BY <1>3 DEF TestConnector
  <2>3. [connector[c] EXCEPT !.test = outcome] \in Connector
        /\ [connector[c] EXCEPT !.test = outcome].enabled = connector[c].enabled
    BY <2>1 DEF Connector
  <2>4. QED
    BY <2>1, <2>2, <2>3
<1>4. CASE \E p \in Servers, c \in Connectors : CreateConnector(p, c)
  BY <1>0, <1>2, <1>4
<1>5. CASE \E p \in Servers, c \in Connectors : TestConnector(p, c)
  <2>1. PICK p \in Servers, c \in Connectors : TestConnector(p, c)
    BY <1>5
  <2>2. connector[c] \in Connector
    BY <1>3, <2>1
  <2>3. PICK new \in Connector : /\ new.enabled = connector[c].enabled
                                 /\ connector' = [connector EXCEPT ![c] = new]
    BY <1>3, <2>1
  <2>4. QED
    BY <1>0, <2>2, <2>3 DEF NullAssumption
<1>6. UNCHANGED connector \/ (\E p \in Servers, c \in Connectors : CreateConnector(p, c))
         \/ (\E p \in Servers, c \in Connectors : TestConnector(p, c))
  <2>1. ASSUME NEW p \in Servers, SchedulerLoop(p) \/ StartScheduler(p) \/ StopScheduler(p) \/ ServerCrash(p)
        PROVE  UNCHANGED connector
    BY <2>1
       DEF SchedulerLoop, ClaimBegin, ClaimFails, ClaimWrite, Refresh, NextAudit,
           AllAudited, AuditEnds, FinishRun, FinishSchedule, FinishFails, Wake,
           StartScheduler, StopScheduler, ServerCrash
  <2>2. ASSUME NEW p \in Servers, ScheduleRequest(p)
        PROVE  \/ UNCHANGED connector
               \/ \E c \in Connectors : CreateConnector(p, c) \/ TestConnector(p, c)
    BY <2>2 DEF ScheduleRequest, CreateSchedule, DeleteSchedule, InsertFails
  <2>3. Tick => UNCHANGED connector
    BY DEF Tick
  <2>4. QED
    BY <2>1, <2>2, <2>3 DEF ScheduleNext
<1>7. QED
  BY <1>1, <1>4, <1>5, <1>6

\* The table of schedules keeps its type and its order, and a schedule that was
\* made keeps its connector.
LEMMA ScheduleStep ==
    ASSUME ScheduleAssumption, NullAssumption, ScheduleTypeOK, HandsInv, ScheduleNext
    PROVE  /\ schedule' \in [Schedules -> Schedule \cup {Null}]
           /\ order' \in Seq(Schedules) /\ IsInjective(order')
           /\ \A s \in ToSet(order') : schedule'[s] # Null
           /\ \A i, j \in DOMAIN order' : i < j => schedule'[order'[i]].due <= schedule'[order'[j]].due
           /\ \A s \in Schedules : schedule[s] # Null =>
                 schedule'[s] # Null /\ schedule'[s].conn = schedule[s].conn
<1> DEFINE Goal == /\ schedule' \in [Schedules -> Schedule \cup {Null}]
                   /\ order' \in Seq(Schedules) /\ IsInjective(order')
                   /\ \A s \in ToSet(order') : schedule'[s] # Null
                   /\ \A i, j \in DOMAIN order' :
                         i < j => schedule'[order'[i]].due <= schedule'[order'[j]].due
                   /\ \A s \in Schedules : schedule[s] # Null =>
                         schedule'[s] # Null /\ schedule'[s].conn = schedule[s].conn
<1>0. /\ schedule \in [Schedules -> Schedule \cup {Null}]
      /\ order \in Seq(Schedules) /\ IsInjective(order)
      /\ \A s \in ToSet(order) : schedule[s] # Null
      /\ \A i, j \in DOMAIN order : i < j => schedule[order[i]].due <= schedule[order[j]].due
      /\ ToSet(order) \in SUBSET Schedules
      /\ Null \notin Schedule
  BY DEF ScheduleTypeOK, ToSet, NullAssumption
<1>1. CASE UNCHANGED <<schedule, order>>
  BY <1>0, <1>1
<1>2. ASSUME NEW p \in Servers, NEW s \in Schedules, NEW c \in Connectors, CreateSchedule(p, s, c)
      PROVE  Goal
  <2>1. PICK on \in BOOLEAN :
           schedule' = [schedule EXCEPT ![s] =
              [conn |-> c, enabled |-> on, due |-> Interval[s], last |-> Null]]
    BY <1>2 DEF CreateSchedule
  <2>2. [conn |-> c, enabled |-> on, due |-> Interval[s], last |-> Null] \in Schedule
    BY DEF Schedule, LastStatus, ScheduleAssumption
  <2>3. /\ schedule' \in [Schedules -> Schedule \cup {Null}]
        /\ schedule[s] = Null /\ schedule'[s] # Null
        /\ \A t \in Schedules \ {s} : schedule'[t] = schedule[t]
    BY <1>0, <1>2, <2>1, <2>2 DEF CreateSchedule
  <2>4. order' \in Arranged(ToSet(order) \cup {s}, {s}, schedule')
    BY <1>2 DEF CreateSchedule
  <2>5. ToSet(order) \cup {s} \in SUBSET Schedules
    BY <1>0
  <2>6. PICK table : table = schedule'
    OBVIOUS
  <2>7. PICK seq : seq = order'
    OBVIOUS
  <2>8. /\ seq \in Seq(Schedules)
        /\ IsInjective(seq)
        /\ ToSet(seq) \subseteq ToSet(order) \cup {s}
        /\ \A i, j \in DOMAIN seq : i < j => table[seq[i]].due <= table[seq[j]].due
    BY <2>4, <2>5, <2>6, <2>7, ArrangedRows
  <2>9. \A t \in ToSet(seq) : table[t] # Null
    BY <1>0, <2>3, <2>6, <2>8
  <2>10. QED
    BY <2>3, <2>6, <2>7, <2>8, <2>9
<1>3. ASSUME NEW p \in Servers, NEW s \in Schedules, DeleteSchedule(p, s)
      PROVE  Goal
  <2>1. schedule[s] \in Schedule
    BY <1>0, <1>3 DEF DeleteSchedule, Exists
  <2>2. schedule' = [schedule EXCEPT ![s] = [schedule[s] EXCEPT !.last = Null]]
    BY <1>3 DEF DeleteSchedule
  <2>3. [schedule[s] EXCEPT !.last = Null] \in Schedule
        /\ [schedule[s] EXCEPT !.last = Null].due = schedule[s].due
        /\ [schedule[s] EXCEPT !.last = Null].conn = schedule[s].conn
    BY <2>1 DEF Schedule, LastStatus
  <2>4. schedule' \in [Schedules -> Schedule \cup {Null}]
        /\ \A t \in Schedules : /\ schedule'[t] = Null <=> schedule[t] = Null
                                /\ schedule'[t].due = schedule[t].due
                                /\ schedule'[t].conn = schedule[t].conn
    BY <1>0, <2>1, <2>2, <2>3
  <2>5. order' \in Arranged(ToSet(order) \ {s}, {}, schedule)
    BY <1>3 DEF DeleteSchedule
  <2>6. ToSet(order) \ {s} \in SUBSET Schedules
    BY <1>0
  <2>7. PICK seq : seq = order'
    OBVIOUS
  <2>8. /\ seq \in Seq(Schedules)
        /\ IsInjective(seq)
        /\ ToSet(seq) \subseteq ToSet(order) \ {s}
        /\ \A i, j \in DOMAIN seq : i < j => schedule[seq[i]].due <= schedule[seq[j]].due
    BY <2>5, <2>6, <2>7, ArrangedRows
  <2>9. \A i \in DOMAIN seq : seq[i] \in Schedules
    BY <2>8
  <2>10. \A t \in ToSet(seq) : schedule'[t] # Null
    BY <1>0, <2>4, <2>8
  <2>11. QED
    BY <2>4, <2>7, <2>8, <2>9, <2>10
<1>4. ASSUME NEW p \in Servers, ClaimWrite(p)
      PROVE  Goal
  <2> DEFINE claimed == ToSet(loop[p].rows)
  <2>1. schedule' = [s \in Schedules |->
             IF s \in claimed /\ Exists(s)
             THEN [schedule[s] EXCEPT !.due = Interval[s], !.last = "running"]
             ELSE schedule[s]]
    BY <1>4 DEF ClaimWrite
  <2>2. ASSUME NEW s \in Schedules, Exists(s)
        PROVE  /\ [schedule[s] EXCEPT !.due = Interval[s], !.last = "running"] \in Schedule
               /\ [schedule[s] EXCEPT !.due = Interval[s], !.last = "running"].conn = schedule[s].conn
    <3>1. schedule[s] \in Schedule
      BY <1>0, <2>2 DEF Exists
    <3>2. Interval[s] \in Nat
      BY DEF ScheduleAssumption
    <3>3. QED
      BY <3>1, <3>2 DEF Schedule, LastStatus
  <2> HIDE DEF claimed
  <2>3. schedule' \in [Schedules -> Schedule \cup {Null}]
        /\ \A t \in Schedules : schedule[t] # Null =>
              schedule'[t] # Null /\ schedule'[t].conn = schedule[t].conn
    <3>1. ASSUME NEW t \in Schedules
          PROVE  /\ schedule'[t] \in Schedule \cup {Null}
                 /\ schedule[t] # Null =>
                       schedule'[t] # Null /\ schedule'[t].conn = schedule[t].conn
      <4>1. CASE t \in claimed /\ Exists(t)
        <5>1. schedule'[t] = [schedule[t] EXCEPT !.due = Interval[t], !.last = "running"]
          BY <2>1, <4>1
        <5>2. schedule'[t] \in Schedule /\ schedule'[t].conn = schedule[t].conn
          BY <2>2, <4>1, <5>1
        <5>3. QED
          BY <1>0, <5>2
      <4>2. CASE ~ (t \in claimed /\ Exists(t))
        BY <1>0, <2>1, <4>2
      <4>3. QED
        BY <4>1, <4>2
    <3>2. QED
      BY <2>1, <3>1
  <2>4. PICK table : table = schedule'
    OBVIOUS
  <2>5. PICK seq : seq = order'
    OBVIOUS
  <2>6. seq \in Arranged(ToSet(order), claimed, table)
    BY <1>4, <2>4, <2>5 DEF ClaimWrite, claimed
  <2>7. /\ seq \in Seq(Schedules)
        /\ IsInjective(seq)
        /\ ToSet(seq) \subseteq ToSet(order)
        /\ \A i, j \in DOMAIN seq : i < j => table[seq[i]].due <= table[seq[j]].due
    BY <1>0, <2>6, ArrangedRows
  <2>8. \A t \in ToSet(seq) : table[t] # Null
    BY <1>0, <2>3, <2>4, <2>7
  <2>9. QED
    BY <2>3, <2>4, <2>5, <2>7, <2>8
<1>5. ASSUME NEW p \in Servers, FinishSchedule(p)
      PROVE  Goal
  <2> DEFINE s == loop[p].cur
  <2>0. Hands(loop[p])
    BY DEF HandsInv
  <2>1. s \in Schedules /\ loop[p].out \in LastStatus
    BY <1>5, <2>0 DEF FinishSchedule, Hands, LoopState, LastStatus
  <2>2. schedule' = IF Exists(s) THEN [schedule EXCEPT ![s] = [schedule[s] EXCEPT !.last = loop[p].out]]
                    ELSE schedule
    BY <1>5 DEF FinishSchedule
  <2> HIDE DEF s
  <2>3. Exists(s) => /\ schedule[s] \in Schedule
                     /\ [schedule[s] EXCEPT !.last = loop[p].out] \in Schedule
                     /\ [schedule[s] EXCEPT !.last = loop[p].out].due = schedule[s].due
                     /\ [schedule[s] EXCEPT !.last = loop[p].out].conn = schedule[s].conn
    BY <1>0, <2>1 DEF Exists, Schedule
  <2>4. schedule' \in [Schedules -> Schedule \cup {Null}]
        /\ \A t \in Schedules : /\ schedule'[t] = Null <=> schedule[t] = Null
                                /\ schedule'[t].due = schedule[t].due
                                /\ schedule'[t].conn = schedule[t].conn
    BY <1>0, <2>1, <2>2, <2>3
  <2>5. order' = order
    BY <1>5 DEF FinishSchedule
  <2>6. \A i \in DOMAIN order : order[i] \in Schedules
    BY <1>0
  <2>7. QED
    BY <1>0, <2>4, <2>5, <2>6 DEF ToSet
<1>6. ASSUME Tick
      PROVE  Goal
  <2>1. schedule' = [s \in Schedules |->
           IF Exists(s) /\ schedule[s].due > 0 THEN [schedule[s] EXCEPT !.due = @ - 1]
           ELSE schedule[s]]
    BY <1>6 DEF Tick
  <2>2. ASSUME NEW s \in Schedules, Exists(s)
        PROVE  /\ schedule[s].due \in Nat
               /\ schedule'[s] \in Schedule
               /\ schedule'[s].due = IF schedule[s].due > 0 THEN schedule[s].due - 1 ELSE 0
               /\ schedule'[s].conn = schedule[s].conn
    <3>1. schedule[s] \in Schedule
      BY <1>0, <2>2 DEF Exists
    <3>2. QED
      BY <2>1, <2>2, <3>1 DEF Schedule
  <2>3. /\ schedule' \in [Schedules -> Schedule \cup {Null}]
        /\ \A s \in Schedules : ~ Exists(s) => schedule'[s] = schedule[s]
        /\ \A s \in Schedules : Exists(s) => schedule'[s] # Null
    BY <1>0, <2>1, <2>2, ZenonT(60)
  <2>4. order' = order
    BY <1>6 DEF Tick
  <2>5. \A i \in DOMAIN order : order[i] \in Schedules /\ Exists(order[i])
    BY <1>0 DEF Exists, ToSet
  <2>6. ASSUME NEW i \in DOMAIN order, NEW j \in DOMAIN order, i < j
        PROVE  schedule'[order[i]].due <= schedule'[order[j]].due
    <3>1. schedule[order[i]].due <= schedule[order[j]].due
      BY <1>0, <2>6
    <3>2. QED
      BY <2>2, <2>5, <3>1
  <2>7. \A s \in Schedules : schedule[s] # Null =>
           schedule'[s] # Null /\ schedule'[s].conn = schedule[s].conn
    BY <2>2, <2>3
  <2>8. QED
    BY <1>0, <2>3, <2>4, <2>6, <2>7 DEF Exists
<1>7. ASSUME NEW p \in Servers, SchedulerLoop(p) \/ StartScheduler(p) \/ StopScheduler(p) \/ ServerCrash(p)
      PROVE  ClaimWrite(p) \/ FinishSchedule(p) \/ UNCHANGED <<schedule, order>>
  BY <1>7
     DEF SchedulerLoop, ClaimBegin, ClaimFails, Refresh, NextAudit, AllAudited, AuditEnds,
         FinishRun, FinishFails, Wake, StartScheduler, StopScheduler, ServerCrash
<1>8. ASSUME NEW p \in Servers, ScheduleRequest(p)
      PROVE  \/ UNCHANGED <<schedule, order>>
             \/ \E s \in Schedules, c \in Connectors : CreateSchedule(p, s, c)
             \/ \E s \in Schedules : DeleteSchedule(p, s)
  BY <1>8 DEF ScheduleRequest, CreateConnector, TestConnector, InsertFails
<1> HIDE DEF Goal
<1>9. Goal
  BY <1>1, <1>2, <1>3, <1>4, <1>5, <1>6, <1>7, <1>8 DEF ScheduleNext, Goal
<1>10. QED
  BY <1>9 DEF Goal

\* The deployment does not change.
LEMMA ScopeStep == ScheduleNext => scope' = scope
BY DEF ScheduleNext, ScheduleRequest, CreateConnector, TestConnector, CreateSchedule,
       DeleteSchedule, InsertFails, SchedulerLoop, ClaimBegin, ClaimFails, ClaimWrite,
       Refresh, NextAudit, AllAudited, AuditEnds, FinishRun, FinishSchedule, FinishFails,
       Wake, StartScheduler, StopScheduler, ServerCrash, Tick

\* Every variable keeps its type.
LEMMA TypeStep ==
    ASSUME ScheduleAssumption, NullAssumption, ScheduleTypeOK, HandsInv, ScheduleNext
    PROVE  ScheduleTypeOK'
<1>1. scope' = scope
  BY ScopeStep
<1>2. latest' \in [Schedules -> LastStatus]
  <2>0. latest \in [Schedules -> LastStatus]
    BY DEF ScheduleTypeOK
  <2>1. ASSUME NEW p \in Servers, NEW s, BeginAudit(p, s)
        PROVE  latest' \in [Schedules -> LastStatus]
    BY <2>0, <2>1 DEF BeginAudit, LastStatus
  <2>2. ASSUME NEW p \in Servers, NextAudit(p)
        PROVE  latest' \in [Schedules -> LastStatus]
    BY <2>0, <2>1, <2>2 DEF NextAudit, RefuseAudit
  <2>3. ASSUME NEW p \in Servers, FinishRun(p)
        PROVE  latest' \in [Schedules -> LastStatus]
    <3>1. loop[p].out \in LastStatus
      BY DEF ScheduleTypeOK, LoopState, LastStatus
    <3>2. QED
      BY <2>0, <2>3, <3>1 DEF FinishRun
  <2>4. ASSUME NEW p \in Servers,
               SchedulerLoop(p) \/ ScheduleRequest(p) \/ StartScheduler(p) \/ StopScheduler(p) \/ ServerCrash(p)
        PROVE  NextAudit(p) \/ FinishRun(p) \/ UNCHANGED latest
    BY <2>4
       DEF ScheduleRequest, CreateConnector, TestConnector, CreateSchedule, DeleteSchedule,
           InsertFails, SchedulerLoop, ClaimBegin, ClaimFails, ClaimWrite, Refresh,
           AllAudited, AuditEnds, FinishSchedule, FinishFails, Wake, StartScheduler,
           StopScheduler, ServerCrash
  <2>5. Tick => UNCHANGED latest
    BY DEF Tick
  <2>6. QED
    BY <2>0, <2>2, <2>3, <2>4, <2>5 DEF ScheduleNext
<1>3. /\ writer' \in Servers \cup {Null}
      /\ dangling' \subseteq Servers
      /\ stops' \in Nat
  <2>0. writer \in Servers \cup {Null} /\ dangling \subseteq Servers /\ stops \in Nat
    BY DEF ScheduleTypeOK
  <2>1. ASSUME NEW p \in Servers, ScheduleRequest(p)
        PROVE  UNCHANGED <<writer, stops>> /\ dangling' \subseteq Servers
    BY <2>0, <2>1
       DEF ScheduleRequest, CreateConnector, TestConnector, CreateSchedule, DeleteSchedule,
           InsertFails, Committed
  <2>2. ASSUME NEW p \in Servers, NextAudit(p)
        PROVE  UNCHANGED <<writer, stops>> /\ dangling' \subseteq Servers
    BY <2>0, <2>2 DEF NextAudit, BeginAudit, RefuseAudit, Committed
  <2>3. ASSUME NEW p \in Servers, SchedulerLoop(p)
        PROVE  /\ writer' \in Servers \cup {Null}
               /\ dangling' \subseteq Servers
               /\ stops' \in Nat
    BY <2>0, <2>2, <2>3
       DEF SchedulerLoop, ClaimBegin, LockDatabase, ClaimFails, ClaimWrite, Refresh,
           AllAudited, AuditEnds, FinishRun, FinishSchedule, FinishFails, Wake, Committed
  <2>4. ASSUME NEW p \in Servers, StartScheduler(p) \/ StopScheduler(p) \/ ServerCrash(p)
        PROVE  /\ writer' \in Servers \cup {Null}
               /\ dangling' \subseteq Servers
               /\ stops' \in Nat
    BY <2>0, <2>4 DEF StartScheduler, StopScheduler, ServerCrash
  <2>5. Tick => UNCHANGED <<writer, dangling, stops>>
    BY DEF Tick
  <2>6. QED
    BY <2>0, <2>1, <2>3, <2>4, <2>5 DEF ScheduleNext
<1>4. loop' \in [Servers -> LoopState]
  BY HandsStep
<1>5. QED
  BY <1>1, <1>2, <1>3, <1>4, ConnectorStep, ScheduleStep DEF ScheduleTypeOK

-----------------------------------------------------------------------------
(* Claims *)

\* While a loop is between the SELECT and the commit of a claim, its process
\* holds the lock: nobody else changes a schedule, and a due schedule stays due.
LEMMA ClaimStep ==
    ASSUME ScheduleAssumption, NullAssumption, ScheduleTypeOK, HandsInv, LockInv,
           ClaimsAreDue, ScheduleNext
    PROVE  LockInv' /\ ClaimsAreDue'
<1> DEFINE Safe(q) == loop'[q].pc = "write" =>
                         /\ writer' = q
                         /\ \A s \in ToSet(loop'[q].rows) : Due(s)'
<1> USE DEF Safe
<1>0. /\ loop \in [Servers -> LoopState]
      /\ \A q \in Servers : loop[q].pc = "write" =>
            writer = q /\ \A s \in ToSet(loop[q].rows) : Due(s)
      /\ \A q \in Servers : ToSet(loop[q].rows) \subseteq Schedules
      /\ Null \notin Servers
  BY DEF ScheduleTypeOK, LockInv, ClaimsAreDue, LoopState, ToSet, NullAssumption
<1>1. ASSUME UNCHANGED <<writer, schedule, order>>,
             \A q \in Servers : loop'[q].pc = "write" =>
                loop[q].pc = "write" /\ loop'[q].rows = loop[q].rows
      PROVE  \A q \in Servers : Safe(q)
  BY <1>0, <1>1 DEF Due, Exists
<1>2. ASSUME NEW p \in Servers, ScheduleRequest(p)
      PROVE  \A q \in Servers : Safe(q)
  <2>1. UNCHANGED <<writer, loop>> /\ NotInLoop(p)
    BY <1>2
       DEF ScheduleRequest, CreateConnector, TestConnector, CreateSchedule, DeleteSchedule,
           InsertFails
  <2>2. UNCHANGED <<schedule, order>> \/ CanWrite(p)
    BY <1>2
       DEF ScheduleRequest, CreateConnector, TestConnector, CreateSchedule, DeleteSchedule,
           InsertFails
  <2>3. CASE UNCHANGED <<schedule, order>>
    BY <1>1, <2>1, <2>3
  <2>4. CASE CanWrite(p)
    <3>1. \A q \in Servers : loop[q].pc # "write"
      BY <1>0, <2>1, <2>4 DEF CanWrite, NotInLoop
    <3>2. QED
      BY <2>1, <3>1
  <2>5. QED
    BY <2>2, <2>3, <2>4
<1>3. ASSUME NEW p \in Servers, ClaimBegin(p)
      PROVE  \A q \in Servers : Safe(q)
  <2>1. /\ writer = Null /\ writer' = p
        /\ UNCHANGED <<schedule, order>>
        /\ \A q \in Servers : loop[q].pc # "write"
    BY <1>0, <1>3 DEF ClaimBegin, LockDatabase
  <2>2. PICK due \in SelectDue :
           loop' = [loop EXCEPT ![p] = [loop[p] EXCEPT !.pc = "write", !.rows = Limited(due)]]
    BY <1>3 DEF ClaimBegin
  <2>3. {s \in ToSet(order) : Due(s)} \in SUBSET Schedules
    BY DEF ScheduleTypeOK, ToSet
  <2>4. /\ due \in Seq(Schedules) /\ IsInjective(due)
        /\ ToSet(due) \subseteq {s \in ToSet(order) : Due(s)}
    BY <2>2, <2>3, ArrangedRows DEF SelectDue
  <2>5. ToSet(Limited(due)) \subseteq ToSet(due)
    BY <2>4, LimitedRows
  <2>6. \A s \in ToSet(Limited(due)) : Due(s)'
    BY <2>1, <2>4, <2>5 DEF Due, Exists
  <2>7. loop'[p].rows = Limited(due) /\ \A q \in Servers \ {p} : loop'[q] = loop[q]
    BY <1>0, <2>2 DEF LoopState
  <2>8. QED
    BY <2>1, <2>6, <2>7
<1>4. ASSUME NEW p \in Servers, ClaimWrite(p)
      PROVE  \A q \in Servers : Safe(q)
  <2>1. \A q \in Servers \ {p} : loop[q].pc # "write" /\ loop'[q] = loop[q]
    BY <1>0, <1>4 DEF ClaimWrite
  <2>2. loop'[p].pc # "write"
    BY <1>0, <1>4, ZenonT(60) DEF ClaimWrite, LoopState
  <2>3. QED
    BY <2>1, <2>2
<1>5. ASSUME NEW p \in Servers, FinishSchedule(p)
      PROVE  \A q \in Servers : Safe(q)
  <2>1. \A q \in Servers : loop[q].pc # "write"
    BY <1>0, <1>5 DEF FinishSchedule, CanWrite
  <2>2. \A q \in Servers : loop'[q].pc # "write"
    BY <1>0, <1>5, <2>1 DEF FinishSchedule, LoopState
  <2>3. QED
    BY <2>2
<1>6. ASSUME NEW p \in Servers,
             \/ ClaimFails(p) \/ Refresh(p) \/ AllAudited(p) \/ AuditEnds(p) \/ FinishRun(p)
             \/ FinishFails(p) \/ Wake(p) \/ StartScheduler(p) \/ StopScheduler(p)
      PROVE  \A q \in Servers : Safe(q)
  <2>1. UNCHANGED <<writer, schedule, order>>
    BY <1>6 DEF ClaimFails, Refresh, AllAudited, AuditEnds, FinishRun, FinishFails, Wake,
                StartScheduler, StopScheduler
  <2>2. /\ \A q \in Servers \ {p} : loop'[q] = loop[q]
        /\ loop'[p].pc # "write"
    <3>1. loop[p] \in LoopState
      BY <1>0
    <3>2. CASE Refresh(p)
      <4> DEFINE l == [loop[p] EXCEPT !.rows = Tail(loop[p].rows),
                                      !.todo = Append(@, Head(loop[p].rows)),
                                      !.pc = IF Len(loop[p].rows) = 1 THEN "next" ELSE "refresh"]
      <4>1. l.pc # "write" /\ [NoLoop EXCEPT !.pc = "dead"].pc # "write"
        BY <3>1 DEF NoLoop, LoopState
      <4>2. \/ loop' = [loop EXCEPT ![p] = [NoLoop EXCEPT !.pc = "dead"]]
            \/ loop' = [loop EXCEPT ![p] = l]
        BY <3>2 DEF Refresh
      <4> HIDE DEF l
      <4>3. QED
        BY <1>0, <4>1, <4>2
    <3>3. CASE ClaimFails(p) \/ FinishFails(p) \/ StopScheduler(p)
      BY <1>0, <3>3 DEF ClaimFails, FinishFails, StopScheduler, NoLoop
    <3>4. CASE AllAudited(p) \/ FinishRun(p) \/ Wake(p) \/ StartScheduler(p)
      BY <1>0, <3>1, <3>4
         DEF AllAudited, FinishRun, Wake, StartScheduler, LoopGoto, LoopState
    <3>5. CASE AuditEnds(p)
      BY <1>0, <3>1, <3>5 DEF AuditEnds, LoopState
    <3>6. QED
      BY <1>6, <3>2, <3>3, <3>4, <3>5
  <2>3. QED
    BY <1>1, <2>1, <2>2
<1>7. ASSUME NEW p \in Servers, NextAudit(p)
      PROVE  \A q \in Servers : Safe(q)
  <2>1. UNCHANGED <<writer, schedule, order>>
    BY <1>7 DEF NextAudit
  <2>2. ASSUME NEW q \in Servers, loop'[q].pc = "write"
        PROVE  loop[q].pc = "write" /\ loop'[q].rows = loop[q].rows
    <3>1. CASE BeginAudit(p, Head(loop[p].todo))
      BY <1>0, <2>2, <3>1 DEF BeginAudit, LoopState
    <3>2. CASE RefuseAudit(p, Head(loop[p].todo))
      BY <1>0, <2>2, <3>2 DEF RefuseAudit, LoopState
    <3>3. QED
      BY <1>7, <3>1, <3>2 DEF NextAudit
  <2>3. QED
    BY <1>1, <2>1, <2>2
<1>8. ASSUME NEW p \in Servers, ServerCrash(p)
      PROVE  \A q \in Servers : Safe(q)
  <2>1. UNCHANGED <<schedule, order>> /\ (writer # p => UNCHANGED writer)
    BY <1>8 DEF ServerCrash
  <2>2. /\ \A q \in Servers \ {p} : loop'[q] = loop[q]
        /\ loop'[p].pc # "write"
    BY <1>0, <1>8 DEF ServerCrash, NoLoop
  <2>3. QED
    BY <1>0, <2>1, <2>2 DEF Due, Exists
<1>9. ASSUME Tick
      PROVE  \A q \in Servers : Safe(q)
  <2>1. UNCHANGED <<loop, writer, order>>
    BY <1>9 DEF Tick
  <2>2. ASSUME NEW s \in Schedules, Due(s)
        PROVE  Due(s)'
    BY <1>9, <2>2 DEF Tick, Due, Exists
  <2>3. QED
    BY <1>0, <2>1, <2>2
<1> HIDE DEF Safe
<1>10. \A q \in Servers : Safe(q)
  BY <1>2, <1>3, <1>4, <1>5, <1>6, <1>7, <1>8, <1>9 DEF ScheduleNext, SchedulerLoop
<1>11. QED
  BY <1>10 DEF Safe, LockInv, ClaimsAreDue

-----------------------------------------------------------------------------
(* What loops have in hand was made *)

InHands(l) == ToSet(l.rows) \cup ToSet(l.todo) \cup ({l.cur} \ {Null})

\* A loop takes into its hands only schedules of the table.
LEMMA HandsFrom ==
    ASSUME ScheduleAssumption, NullAssumption, ScheduleTypeOK, HandsInv, ScheduleNext,
           NEW q \in Servers
    PROVE  InHands(loop'[q]) \subseteq InHands(loop[q]) \cup ToSet(order)
<1> DEFINE Goal == InHands(loop'[q]) \subseteq InHands(loop[q]) \cup ToSet(order)
<1>0. /\ loop \in [Servers -> LoopState]
      /\ \A p \in Servers : Hands(loop[p])
  BY DEF ScheduleTypeOK, HandsInv
<1>1. CASE loop'[q] = loop[q]
  BY <1>1
<1>2. CASE loop'[q] \in {NoLoop, [NoLoop EXCEPT !.pc = "dead"]}
  <2>1. InHands(NoLoop) = {} /\ InHands([NoLoop EXCEPT !.pc = "dead"]) = {}
    BY NoRows DEF InHands, NoLoop
  <2>2. QED
    BY <1>2, <2>1
<1>3. CASE /\ loop'[q].rows = loop[q].rows
           /\ loop'[q].todo = loop[q].todo
           /\ loop'[q].cur \in {loop[q].cur, Null}
  BY <1>3 DEF InHands
<1>4. ASSUME ClaimBegin(q)
      PROVE  Goal
  <2>1. PICK due \in SelectDue :
           loop' = [loop EXCEPT ![q] = [loop[q] EXCEPT !.pc = "write", !.rows = Limited(due)]]
    BY <1>4 DEF ClaimBegin
  <2>2. {s \in ToSet(order) : Due(s)} \in SUBSET Schedules
    BY DEF ScheduleTypeOK, ToSet
  <2>3. /\ due \in Seq(Schedules) /\ IsInjective(due)
        /\ ToSet(due) \subseteq ToSet(order)
    BY <2>1, <2>2, ArrangedRows DEF SelectDue
  <2>4. ToSet(Limited(due)) \subseteq ToSet(order)
    BY <2>3, LimitedRows
  <2>5. /\ loop'[q].rows = Limited(due)
        /\ loop'[q].todo = loop[q].todo /\ loop'[q].cur = loop[q].cur
    BY <1>0, <2>1 DEF LoopState
  <2>6. QED
    BY <2>4, <2>5 DEF InHands
<1>5. ASSUME Refresh(q)
      PROVE  Goal
  <2> DEFINE l == [loop[q] EXCEPT !.rows = Tail(loop[q].rows),
                                  !.todo = Append(@, Head(loop[q].rows)),
                                  !.pc = IF Len(loop[q].rows) = 1 THEN "next" ELSE "refresh"]
  <2>1. \/ loop'[q] = [NoLoop EXCEPT !.pc = "dead"]
        \/ loop'[q] = l
    BY <1>0, <1>5 DEF Refresh
  <2>2. /\ l.rows = Tail(loop[q].rows)
        /\ l.todo = Append(loop[q].todo, Head(loop[q].rows))
        /\ l.cur = loop[q].cur
    BY <1>0 DEF LoopState
  <2> HIDE DEF l
  <2>3. /\ loop[q].rows \in Seq(Schedules) /\ loop[q].todo \in Seq(Schedules)
        /\ IsInjective(loop[q].rows) /\ IsInjective(loop[q].todo)
        /\ loop[q].rows # << >>
        /\ ToSet(loop[q].rows) \cap ToSet(loop[q].todo) = {}
    BY <1>0, <1>5 DEF Hands, LoopState, Refresh
  <2>4. /\ Head(loop[q].rows) \in Schedules
        /\ Head(loop[q].rows) \in ToSet(loop[q].rows)
        /\ ToSet(Tail(loop[q].rows)) \subseteq ToSet(loop[q].rows)
    BY <2>3, TailRows
  <2>5. ToSet(l.todo) = ToSet(loop[q].todo) \cup {Head(loop[q].rows)}
    BY <2>2, <2>3, <2>4, AppendRows
  <2>6. InHands(l) \subseteq InHands(loop[q])
    BY <2>2, <2>4, <2>5 DEF InHands
  <2>7. QED
    BY <1>2, <2>1, <2>6
<1>6. ASSUME NEW p \in Servers, NextAudit(p)
      PROVE  Goal
  <2> DEFINE s == Head(loop[p].todo)
  <2>1. CASE q # p
    <3>1. loop'[q] = loop[q] \/ loop'[q] = [loop[q] EXCEPT !.mine = FALSE]
      BY <1>0, <1>6, <2>1 DEF NextAudit, BeginAudit, RefuseAudit
    <3>2. QED
      BY <1>0, <1>3, <3>1 DEF LoopState
  <2>2. CASE q = p
    <3>0. /\ loop[q].todo \in Seq(Schedules) /\ IsInjective(loop[q].todo)
          /\ loop[q].todo # << >>
      BY <1>0, <1>6, <2>2 DEF NextAudit, Hands, LoopState
    <3>1. /\ loop'[q].rows = loop[q].rows
          /\ loop'[q].todo = Tail(loop[q].todo)
          /\ loop'[q].cur = Head(loop[q].todo)
      <4>1. CASE BeginAudit(p, s)
        <5>1. loop'[q] = [loop[q] EXCEPT !.pc = "audit", !.todo = Tail(@),
                                         !.cur = Head(loop[q].todo), !.mine = TRUE]
          BY <2>2, <4>1 DEF BeginAudit
        <5>2. loop[q] \in LoopState
          BY <1>0
        <5>3. QED
          BY <5>1, <5>2 DEF LoopState
      <4>2. CASE RefuseAudit(p, s)
        BY <1>0, <2>2, <4>2 DEF RefuseAudit, LoopState
      <4>3. QED
        BY <1>6, <4>1, <4>2 DEF NextAudit
    <3>2. Head(loop[q].todo) \in ToSet(loop[q].todo)
          /\ ToSet(Tail(loop[q].todo)) \subseteq ToSet(loop[q].todo)
      BY <3>0, TailRows
    <3>3. QED
      BY <3>1, <3>2 DEF InHands
  <2>3. QED
    BY <2>1, <2>2
<1>7. ASSUME NEW p \in Servers,
             \/ ClaimWrite(p) \/ AllAudited(p) \/ FinishRun(p) \/ Wake(p) \/ StartScheduler(p)
             \/ FinishSchedule(p) \/ AuditEnds(p)
      PROVE  Goal
  <2>1. CASE q # p
    <3>1. loop'[q] = loop[q]
      BY <1>0, <1>7, <2>1 DEF ClaimWrite, AllAudited, FinishRun, Wake, StartScheduler,
                              FinishSchedule, AuditEnds, LoopGoto
    <3>2. QED
      BY <1>1, <3>1
  <2>2. CASE q = p
    <3>1. loop[q] \in LoopState
      BY <1>0
    <3>2. /\ loop'[q].rows = loop[q].rows
          /\ loop'[q].todo = loop[q].todo
          /\ loop'[q].cur \in {loop[q].cur, Null}
      <4>1. CASE ClaimWrite(p)
        BY <1>0, <2>2, <3>1, <4>1 DEF ClaimWrite, LoopState
      <4>2. CASE AllAudited(p) \/ FinishRun(p) \/ Wake(p) \/ StartScheduler(p)
        BY <1>0, <2>2, <3>1, <4>2
           DEF AllAudited, FinishRun, Wake, StartScheduler, LoopGoto, LoopState
      <4>3. CASE FinishSchedule(p)
        BY <1>0, <2>2, <3>1, <4>3 DEF FinishSchedule, LoopState
      <4>4. CASE AuditEnds(p)
        BY <1>0, <2>2, <3>1, <4>4 DEF AuditEnds, LoopState
      <4>5. QED
        BY <1>7, <4>1, <4>2, <4>3, <4>4
    <3>3. QED
      BY <1>3, <3>2
  <2>3. QED
    BY <2>1, <2>2
<1>8. ASSUME NEW p \in Servers,
             \/ ClaimFails(p) \/ FinishFails(p) \/ StopScheduler(p) \/ ServerCrash(p) \/ ScheduleRequest(p)
             \/ q # p /\ (ClaimBegin(p) \/ Refresh(p))
      PROVE  loop'[q] \in {loop[q], NoLoop, [NoLoop EXCEPT !.pc = "dead"]}
  BY <1>0, <1>8
     DEF ClaimFails, FinishFails, StopScheduler, ServerCrash, ClaimBegin, Refresh,
         ScheduleRequest, CreateConnector, TestConnector, CreateSchedule, DeleteSchedule,
         InsertFails
<1>9. Tick => loop'[q] = loop[q]
  BY DEF Tick
<1>10. QED
  <2>1. CASE Tick
    BY <1>1, <1>9, <2>1
  <2>2. ASSUME NEW p \in Servers, \/ ScheduleRequest(p) \/ StartScheduler(p) \/ SchedulerLoop(p)
                                \/ StopScheduler(p) \/ ServerCrash(p)
        PROVE  Goal
    <3>1. CASE ClaimBegin(p) \/ Refresh(p)
      BY <1>1, <1>2, <1>4, <1>5, <1>8, <3>1
    <3>2. CASE NextAudit(p)
      BY <1>6, <3>2
    <3>3. CASE \/ ClaimWrite(p) \/ AllAudited(p) \/ FinishRun(p) \/ Wake(p) \/ StartScheduler(p)
               \/ FinishSchedule(p) \/ AuditEnds(p)
      BY <1>7, <3>3
    <3>4. CASE ClaimFails(p) \/ FinishFails(p) \/ StopScheduler(p) \/ ServerCrash(p) \/ ScheduleRequest(p)
      BY <1>1, <1>2, <1>8, <3>4
    <3>5. QED
      BY <2>2, <3>1, <3>2, <3>3, <3>4 DEF SchedulerLoop
  <2>3. QED
    BY <2>1, <2>2 DEF ScheduleNext

\* A schedule that was not made yet has no run and is in nobody's hands.
LEMMA MadeStep ==
    ASSUME ScheduleAssumption, NullAssumption, ScheduleTypeOK, HandsInv, MadeInv,
           ScheduleNext
    PROVE  MadeInv'
<1>0. /\ schedule \in [Schedules -> Schedule \cup {Null}]
      /\ \A s \in ToSet(order) : schedule[s] # Null
      /\ latest \in [Schedules -> LastStatus]
      /\ loop \in [Servers -> LoopState]
  BY DEF ScheduleTypeOK
<1>1. ASSUME NEW s \in Schedules, schedule'[s] = Null
      PROVE  schedule[s] = Null /\ ~ Pending(s) /\ latest[s] = Null
  BY <1>1, ScheduleStep DEF MadeInv
<1>2. ASSUME NEW s \in Schedules, schedule'[s] = Null
      PROVE  ~ Pending(s)'
  <2>1. s \notin ToSet(order) /\ \A q \in Servers : s \notin InHands(loop[q])
    BY <1>0, <1>1, <1>2 DEF Pending, InHands
  <2>2. \A q \in Servers : s \notin InHands(loop'[q])
    BY <2>1, HandsFrom
  <2>3. s # Null
    BY DEF NullAssumption
  <2>4. QED
    BY <2>2, <2>3 DEF Pending, InHands
<1>3. ASSUME NEW s \in Schedules, schedule'[s] = Null
      PROVE  latest'[s] = Null
  <2>1. latest[s] = Null /\ ~ Pending(s)
    BY <1>1, <1>3
  <2>2. ASSUME NEW p \in Servers, NextAudit(p)
        PROVE  latest'[s] = latest[s]
    <3>1. loop[p].todo \in Seq(Schedules) /\ loop[p].todo # << >>
      BY <1>0, <2>2 DEF NextAudit, LoopState
    <3>2. Head(loop[p].todo) \in ToSet(loop[p].todo)
      BY <3>1 DEF ToSet
    <3>3. Head(loop[p].todo) # s
      BY <2>1, <3>2 DEF Pending
    <3>4. QED
      BY <1>0, <2>2, <3>3 DEF NextAudit, BeginAudit, RefuseAudit
  <2>3. ASSUME NEW p \in Servers, FinishRun(p)
        PROVE  latest'[s] = latest[s]
    <3>1. loop[p].cur # s
      BY <2>1 DEF Pending
    <3>2. QED
      BY <1>0, <2>3, <3>1 DEF FinishRun
  <2>4. ASSUME NEW p \in Servers,
               SchedulerLoop(p) \/ ScheduleRequest(p) \/ StartScheduler(p) \/ StopScheduler(p) \/ ServerCrash(p)
        PROVE  NextAudit(p) \/ FinishRun(p) \/ UNCHANGED latest
    BY <2>4
       DEF ScheduleRequest, CreateConnector, TestConnector, CreateSchedule, DeleteSchedule,
           InsertFails, SchedulerLoop, ClaimBegin, ClaimFails, ClaimWrite, Refresh,
           AllAudited, AuditEnds, FinishSchedule, FinishFails, Wake, StartScheduler,
           StopScheduler, ServerCrash
  <2>5. Tick => UNCHANGED latest
    BY DEF Tick
  <2>6. QED
    BY <2>1, <2>2, <2>3, <2>4, <2>5 DEF ScheduleNext
<1>4. ASSUME NEW s \in Schedules, schedule'[s] # Null
      PROVE  connector'[schedule'[s].conn] # Null
  <2>1. CASE schedule[s] # Null
    <3>1. schedule[s].conn \in Connectors /\ connector[schedule[s].conn] # Null
      BY <1>0, <2>1 DEF MadeInv, Schedule
    <3>2. schedule'[s].conn = schedule[s].conn
      BY <2>1, ScheduleStep
    <3>3. QED
      BY <3>1, <3>2, ConnectorStep
  <2>2. CASE schedule[s] = Null
    <3>1. ASSUME NEW p \in Servers, NEW t \in Schedules, NEW c \in Connectors,
                 CreateSchedule(p, t, c)
          PROVE  connector'[schedule'[s].conn] # Null
      <4>1. PICK on \in BOOLEAN :
               schedule' = [schedule EXCEPT ![t] =
                  [conn |-> c, enabled |-> on, due |-> Interval[t], last |-> Null]]
        BY <3>1 DEF CreateSchedule
      <4>2. s = t
        BY <1>0, <1>4, <2>2, <4>1
      <4>3. schedule'[s].conn = c
        BY <1>0, <4>1, <4>2
      <4>4. QED
        BY <3>1, <4>3 DEF CreateSchedule
    <3>2. ASSUME NEW p \in Servers, NEW t \in Schedules, DeleteSchedule(p, t)
          PROVE  schedule'[s] = schedule[s]
      BY <1>0, <2>2, <3>2 DEF DeleteSchedule, Exists
    <3>3. ASSUME NEW p \in Servers, ClaimWrite(p)
          PROVE  schedule'[s] = schedule[s]
      BY <1>0, <2>2, <3>3 DEF ClaimWrite, Exists
    <3>4. ASSUME NEW p \in Servers, FinishSchedule(p)
          PROVE  schedule'[s] = schedule[s]
      BY <1>0, <2>2, <3>4 DEF FinishSchedule, Exists
    <3>5. Tick => schedule'[s] = schedule[s]
      BY <1>0, <2>2 DEF Tick, Exists
    <3>6. ASSUME NEW p \in Servers, SchedulerLoop(p) \/ StartScheduler(p) \/ StopScheduler(p) \/ ServerCrash(p)
          PROVE  ClaimWrite(p) \/ FinishSchedule(p) \/ UNCHANGED schedule
      BY <3>6
         DEF SchedulerLoop, ClaimBegin, ClaimFails, Refresh, NextAudit, AllAudited,
             AuditEnds, FinishRun, FinishFails, Wake, StartScheduler, StopScheduler,
             ServerCrash
    <3>7. ASSUME NEW p \in Servers, ScheduleRequest(p)
          PROVE  \/ UNCHANGED schedule
                 \/ \E t \in Schedules, c \in Connectors : CreateSchedule(p, t, c)
                 \/ \E t \in Schedules : DeleteSchedule(p, t)
      BY <3>7 DEF ScheduleRequest, CreateConnector, TestConnector, InsertFails
    <3>8. QED
      BY <1>4, <2>2, <3>1, <3>2, <3>3, <3>4, <3>5, <3>6, <3>7 DEF ScheduleNext
  <2>3. QED
    BY <2>1, <2>2
<1>5. QED
  BY <1>2, <1>3, <1>4 DEF MadeInv

-----------------------------------------------------------------------------
(* Statuses *)

\* An outcome that was explained stays so, as long as no newer run begins.
LEMMA ExplainedStays ==
    ASSUME ScheduleAssumption, NullAssumption, ScheduleTypeOK, HandsInv, MadeInv,
           ScheduleNext, NEW s \in Schedules, schedule[s] # Null, NEW last,
           Explained(s, last), latest'[s] = latest[s]
    PROVE  Explained(s, last)'
<1>1. schedule[s].conn \in Connectors /\ connector[schedule[s].conn] # Null
  BY DEF ScheduleTypeOK, Schedule, MadeInv
<1>2. schedule'[s].conn = schedule[s].conn
  BY ScheduleStep
<1>3. connector'[schedule'[s].conn].enabled = connector[schedule[s].conn].enabled
  BY <1>1, <1>2, ConnectorStep
<1>4. scope' = scope
  BY ScopeStep
<1>5. QED
  BY <1>3, <1>4 DEF Explained, Auditable, MayFail

\* A loop that ended stays so until its process dies, which counts as well.
LEMMA BrokenStays ==
    ASSUME ScheduleAssumption, ScheduleTypeOK, ScheduleNext, Broken
    PROVE  Broken'
<1>0. stops \in Nat /\ loop \in [Servers -> LoopState] /\ scope \in Scopes
  BY DEF ScheduleTypeOK
<1>1. scope' = scope
  BY ScopeStep
<1>2. ASSUME NEW q \in Servers, StopScheduler(q) \/ ServerCrash(q)
      PROVE  Broken'
  BY <1>0, <1>2 DEF StopScheduler, ServerCrash, Broken
<1>3. ASSUME ~ \E q \in Servers : StopScheduler(q) \/ ServerCrash(q)
      PROVE  stops' = stops /\ \A q \in Servers : loop[q].pc = "dead" => loop'[q].pc = "dead"
  <2>1. ASSUME NEW p \in Servers, ScheduleRequest(p) \/ StartScheduler(p) \/ SchedulerLoop(p)
        PROVE  stops' = stops
    BY <2>1
       DEF ScheduleRequest, CreateConnector, TestConnector, CreateSchedule, DeleteSchedule,
           InsertFails, StartScheduler, SchedulerLoop, ClaimBegin, ClaimFails, ClaimWrite,
           Refresh, NextAudit, AllAudited, AuditEnds, FinishRun, FinishSchedule,
           FinishFails, Wake
  <2>2. ASSUME NEW p \in Servers, ScheduleRequest(p)
        PROVE  loop' = loop
    BY <2>2
       DEF ScheduleRequest, CreateConnector, TestConnector, CreateSchedule, DeleteSchedule,
           InsertFails
  <2>3. ASSUME NEW p \in Servers, NextAudit(p), NEW q \in Servers, loop[q].pc = "dead"
        PROVE  loop'[q].pc = "dead"
    <3>1. loop[q] \in LoopState /\ q # p
      BY <1>0, <2>3 DEF NextAudit
    <3>2. CASE BeginAudit(p, Head(loop[p].todo))
      BY <2>3, <3>1, <3>2 DEF BeginAudit, LoopState
    <3>3. CASE RefuseAudit(p, Head(loop[p].todo))
      BY <1>0, <2>3, <3>1, <3>3 DEF RefuseAudit
    <3>4. QED
      BY <2>3, <3>2, <3>3 DEF NextAudit
  <2>4. ASSUME NEW p \in Servers, StartScheduler(p) \/ SchedulerLoop(p), ~ NextAudit(p),
               NEW q \in Servers, loop[q].pc = "dead"
        PROVE  loop'[q].pc = "dead"
    <3>1. q # p
      BY <2>4
         DEF StartScheduler, SchedulerLoop, ClaimBegin, ClaimFails, ClaimWrite, Refresh,
             AllAudited, AuditEnds, FinishRun, FinishSchedule, FinishFails, Wake
    <3>2. loop'[q] = loop[q]
      BY <1>0, <2>4, <3>1
         DEF StartScheduler, SchedulerLoop, ClaimBegin, ClaimFails, ClaimWrite, Refresh,
             AllAudited, AuditEnds, FinishRun, FinishSchedule, FinishFails, Wake, LoopGoto
    <3>3. QED
      BY <2>4, <3>2
  <2>5. Tick => UNCHANGED <<loop, stops>>
    BY DEF Tick
  <2>6. QED
    BY <1>3, <2>1, <2>2, <2>3, <2>4, <2>5 DEF ScheduleNext
<1>4. \A q \in scope.procs : q \in Servers
  BY <1>0 DEF ScheduleAssumption
<1>5. QED
  BY <1>0, <1>1, <1>2, <1>3, <1>4 DEF Broken

\* A schedule that was deleted does not come back.
LEMMA ExistsBefore ==
    ASSUME ScheduleAssumption, ScheduleTypeOK, ScheduleNext, NEW s \in Schedules,
           schedule[s] # Null, Exists(s)'
    PROVE  Exists(s)
<1>0. ToSet(order) \in SUBSET Schedules
  BY DEF ScheduleTypeOK, ToSet
<1>1. PICK seq, table : seq = order' /\ table = schedule'
  OBVIOUS
<1>2. s \in ToSet(seq)
  BY <1>1 DEF Exists
<1>3. ASSUME NEW p \in Servers, NEW t \in Schedules, NEW c \in Connectors, CreateSchedule(p, t, c)
      PROVE  Exists(s)
  <2>1. seq \in Arranged(ToSet(order) \cup {t}, {t}, table) /\ s # t
    BY <1>1, <1>3 DEF CreateSchedule
  <2>2. ToSet(seq) \subseteq ToSet(order) \cup {t}
    BY <1>0, <2>1, ArrangedRows, ZenonT(60)
  <2>3. QED
    BY <1>2, <2>1, <2>2 DEF Exists
<1>4. ASSUME NEW p \in Servers, NEW t \in Schedules, DeleteSchedule(p, t)
      PROVE  Exists(s)
  <2>1. seq \in Arranged(ToSet(order) \ {t}, {}, schedule)
    BY <1>1, <1>4 DEF DeleteSchedule
  <2>2. ToSet(seq) \subseteq ToSet(order) \ {t}
    BY <1>0, <2>1, ArrangedRows
  <2>3. QED
    BY <1>2, <2>2 DEF Exists
<1>5. ASSUME NEW p \in Servers, ClaimWrite(p)
      PROVE  Exists(s)
  <2>1. seq \in Arranged(ToSet(order), ToSet(loop[p].rows), table)
    BY <1>1, <1>5 DEF ClaimWrite
  <2>2. ToSet(seq) \subseteq ToSet(order)
    BY <1>0, <2>1, ArrangedRows
  <2>3. QED
    BY <1>2, <2>2 DEF Exists
<1>6. CASE UNCHANGED order
  BY <1>1, <1>2, <1>6 DEF Exists
<1>7. ASSUME NEW p \in Servers, SchedulerLoop(p) \/ StartScheduler(p) \/ StopScheduler(p) \/ ServerCrash(p)
      PROVE  ClaimWrite(p) \/ UNCHANGED order
  BY <1>7
     DEF SchedulerLoop, ClaimBegin, ClaimFails, Refresh, NextAudit, AllAudited, AuditEnds,
         FinishRun, FinishSchedule, FinishFails, Wake, StartScheduler, StopScheduler,
         ServerCrash
<1>8. ASSUME NEW p \in Servers, ScheduleRequest(p)
      PROVE  \/ UNCHANGED order
             \/ \E t \in Schedules, c \in Connectors : CreateSchedule(p, t, c)
             \/ \E t \in Schedules : DeleteSchedule(p, t)
  BY <1>8 DEF ScheduleRequest, CreateConnector, TestConnector, InsertFails
<1>9. Tick => UNCHANGED order
  BY DEF Tick
<1>10. QED
  BY <1>3, <1>4, <1>5, <1>6, <1>7, <1>8, <1>9 DEF ScheduleNext

\* A schedule that the step leaves alone, in the hands of the scheduler or not.
LEMMA StatusKept ==
    ASSUME ScheduleAssumption, NullAssumption, ScheduleInv, ScheduleNext, NEW p \in Servers,
           NEW s \in Schedules, StatusFact(p, s),
           Exists(s)' => Exists(s) /\ schedule'[s].last = schedule[s].last,
           Taken(p, s)' <=> Taken(p, s), ~ Taken(p, s) => latest'[s] = latest[s]
    PROVE  StatusFact(p, s)'
<1> SUFFICES ASSUME Exists(s)'
             PROVE  IF Taken(p, s)' THEN schedule'[s].last = "running" ELSE Settled(s)'
  BY DEF StatusFact
<1>1. CASE Taken(p, s)
  BY <1>1 DEF StatusFact
<1>2. CASE ~ Taken(p, s)
  <2>1. schedule[s] # Null
    BY DEF ScheduleInv, ScheduleTypeOK, Exists
  <2>2. PICK last : last = schedule[s].last
    OBVIOUS
  <2>3. Explained(s, last) => Explained(s, last)'
    BY <1>2, <2>1, ExplainedStays DEF ScheduleInv
  <2>4. Broken => Broken'
    BY BrokenStays DEF ScheduleInv
  <2>5. schedule'[s].last = last
    BY <2>2
  <2>6. Settled(s)'
    BY <1>2, <2>2, <2>3, <2>4, <2>5 DEF StatusFact, Settled
  <2>7. QED
    BY <1>2, <2>6
<1>3. QED
  BY <1>1, <1>2

\* A scheduler that stops or ends leaves "running" behind.
LEMMA StatusLeft ==
    ASSUME ScheduleAssumption, NullAssumption, ScheduleInv, ScheduleNext, NEW p \in Servers,
           StatusInv(p), loop'[p] \in {NoLoop, [NoLoop EXCEPT !.pc = "dead"]},
           UNCHANGED <<schedule, order, latest>>, Broken'
    PROVE  StatusInv(p)'
<1>1. /\ loop'[p].pc \in {"off", "dead"} /\ loop'[p].cur = Null
      /\ ToSet(loop'[p].rows) = {} /\ ToSet(loop'[p].todo) = {}
  BY NoRows DEF NoLoop
<1>2. ASSUME NEW s \in Schedules
      PROVE  StatusFact(p, s)'
  <2>1. ~ Taken(p, s)'
    BY <1>1 DEF Taken, NullAssumption
  <2>2. CASE Taken(p, s)
    BY <2>1, <2>2 DEF StatusInv, StatusFact, Settled, Exists
  <2>3. CASE ~ Taken(p, s)
    BY <2>1, <2>3, StatusKept DEF StatusInv, Exists
  <2>4. QED
    BY <2>2, <2>3
<1>3. QED
  BY <1>1, <1>2 DEF StatusInv, FinishFact

\* What a scheduler is about to report stays true while it waits.
LEMMA FinishKept ==
    ASSUME ScheduleAssumption, NullAssumption, ScheduleInv, ScheduleNext, NEW p \in Servers,
           FinishFact(p), UNCHANGED <<loop, latest>>
    PROVE  FinishFact(p)'
<1>1. PICK s, out : s = loop[p].cur /\ out = loop[p].out
  OBVIOUS
<1>2. ASSUME loop[p].pc = "finish", Exists(s)'
      PROVE  Explained(s, out)'
  <2>1. s \in Schedules
    BY <1>1, <1>2 DEF ScheduleInv, HandsInv, Hands
  <2>2. schedule[s] # Null
    BY <1>1, <2>1 DEF ScheduleInv, MadeInv, Pending
  <2>3. Explained(s, out)
    BY <1>1, <1>2, <2>1, <2>2, ExistsBefore DEF ScheduleInv, FinishFact
  <2>4. QED
    BY <2>1, <2>2, <2>3, ExplainedStays DEF ScheduleInv
<1>3. QED
  BY <1>1, <1>2 DEF FinishFact, Exists, Explained, Auditable, MayFail

\* Requests.
LEMMA StatusRequest ==
    ASSUME ScheduleAssumption, NullAssumption, ScheduleInv, ScheduleNext, NEW p \in Servers,
           StatusInv(p), NEW q \in Servers, ScheduleRequest(q)
    PROVE  StatusInv(p)'
<1>0. /\ schedule \in [Schedules -> Schedule \cup {Null}]
      /\ order \in Seq(Schedules)
      /\ ToSet(order) \in SUBSET Schedules
  BY DEF ScheduleInv, ScheduleTypeOK, ToSet
<1>1. UNCHANGED <<loop, latest>>
  BY DEF ScheduleRequest, CreateConnector, TestConnector, CreateSchedule, DeleteSchedule,
         InsertFails
<1>2. \A s \in Schedules : Taken(p, s)' <=> Taken(p, s)
  BY <1>1 DEF Taken
<1>3. ASSUME NEW s \in Schedules
      PROVE  StatusFact(p, s)'
  <2>1. CASE UNCHANGED <<schedule, order>>
    BY <1>1, <1>2, <2>1, StatusKept DEF StatusInv, Exists
  <2>2. ASSUME NEW t \in Schedules, NEW c \in Connectors, CreateSchedule(q, t, c)
        PROVE  StatusFact(p, s)'
    <3>1. PICK on \in BOOLEAN :
             schedule' = [schedule EXCEPT ![t] =
                [conn |-> c, enabled |-> on, due |-> Interval[t], last |-> Null]]
      BY <2>2 DEF CreateSchedule
    <3>2. CASE s = t
      <4>1. ~ Taken(p, s) /\ latest[s] = Null
        BY <2>2, <3>2 DEF CreateSchedule, ScheduleInv, MadeInv, Pending, Taken
      <4>2. schedule'[s].last = latest'[s]
        BY <1>0, <1>1, <3>1, <3>2, <4>1
      <4>3. QED
        BY <1>2, <4>1, <4>2 DEF StatusFact, Settled, Explained
    <3>3. CASE s # t
      <4>1. schedule'[s] = schedule[s]
        BY <1>0, <3>1, <3>3
      <4>2. Exists(s)' => schedule'[s] # Null
        BY ScheduleStep DEF ScheduleInv, Exists
      <4>3. Exists(s)' => Exists(s)
        BY <4>1, <4>2, ExistsBefore DEF ScheduleInv
      <4>4. QED
        BY <1>1, <1>2, <4>1, <4>3, StatusKept DEF StatusInv
    <3>4. QED
      BY <3>2, <3>3
  <2>3. ASSUME NEW t \in Schedules, DeleteSchedule(q, t)
        PROVE  StatusFact(p, s)'
    <3>1. order' \in Arranged(ToSet(order) \ {t}, {}, schedule)
      BY <2>3 DEF DeleteSchedule
    <3>2. PICK seq : seq = order'
      OBVIOUS
    <3>3. ToSet(seq) \subseteq ToSet(order) \ {t}
      BY <1>0, <3>1, <3>2, ArrangedRows
    <3>4. Exists(s)' => Exists(s) /\ s # t
      BY <3>2, <3>3 DEF Exists
    <3>5. s # t => schedule'[s] = schedule[s]
      BY <1>0, <2>3 DEF DeleteSchedule
    <3>6. QED
      BY <1>1, <1>2, <3>4, <3>5, StatusKept DEF StatusInv
  <2>4. QED
    BY <2>1, <2>2, <2>3 DEF ScheduleRequest, CreateConnector, TestConnector, InsertFails
<1>4. FinishFact(p)'
  BY <1>1, FinishKept DEF StatusInv
<1>5. QED
  BY <1>1, <1>3, <1>4 DEF StatusInv

\* The clock.
LEMMA StatusTick ==
    ASSUME ScheduleAssumption, NullAssumption, ScheduleInv, ScheduleNext, NEW p \in Servers,
           StatusInv(p), Tick
    PROVE  StatusInv(p)'
<1>0. schedule \in [Schedules -> Schedule \cup {Null}] /\ \A s \in ToSet(order) : schedule[s] # Null
  BY DEF ScheduleInv, ScheduleTypeOK
<1>1. UNCHANGED <<loop, latest, order>>
  BY DEF Tick
<1>2. ASSUME NEW s \in Schedules
      PROVE  StatusFact(p, s)'
  <2>1. Taken(p, s)' <=> Taken(p, s)
    BY <1>1 DEF Taken
  <2>2. Exists(s)' <=> Exists(s)
    BY <1>1 DEF Exists
  <2>3. Exists(s) => schedule'[s].last = schedule[s].last
    <3>1. SUFFICES ASSUME Exists(s)
                   PROVE  schedule'[s].last = schedule[s].last
      OBVIOUS
    <3>2. schedule[s] \in Schedule
      BY <1>0, <3>1 DEF Exists
    <3>3. QED
      BY <3>2 DEF Tick, Schedule
  <2>4. QED
    BY <1>1, <2>1, <2>2, <2>3, StatusKept DEF StatusInv
<1>3. FinishFact(p)'
  BY <1>1, FinishKept DEF StatusInv
<1>4. QED
  BY <1>1, <1>2, <1>3 DEF StatusInv

\* The claim: the rows become the scheduler's when they are marked "running".
LEMMA StatusClaim ==
    ASSUME ScheduleAssumption, NullAssumption, ScheduleInv, ScheduleNext, NEW p \in Servers,
           StatusInv(p), ClaimBegin(p) \/ ClaimWrite(p)
    PROVE  StatusInv(p)'
<1>0. /\ loop \in [Servers -> LoopState] /\ loop[p] \in LoopState
      /\ Hands(loop[p])
      /\ schedule \in [Schedules -> Schedule \cup {Null}]
      /\ \A s \in ToSet(order) : schedule[s] # Null
      /\ Null \notin Schedules
  BY DEF ScheduleInv, ScheduleTypeOK, HandsInv, NullAssumption
<1>1. UNCHANGED latest
  BY DEF ClaimBegin, ClaimWrite
<1>2. \A s \in Schedules : Exists(s)' => Exists(s)
  <2>1. CASE ClaimBegin(p)
    BY <2>1 DEF ClaimBegin, Exists
  <2>2. ASSUME ClaimWrite(p), NEW s \in Schedules, Exists(s)'
        PROVE  Exists(s)
    <3>1. schedule'[s] # Null
      BY <2>2, ScheduleStep DEF ScheduleInv, Exists
    <3>2. schedule[s] # Null
      BY <1>0, <2>2, <3>1 DEF ClaimWrite, Exists
    <3>3. QED
      BY <2>2, <3>2, ExistsBefore DEF ScheduleInv
  <2>3. QED
    BY <2>1, <2>2
<1>3. CASE ClaimBegin(p)
  <2>1. PICK due \in SelectDue :
           loop' = [loop EXCEPT ![p] = [loop[p] EXCEPT !.pc = "write", !.rows = Limited(due)]]
    BY <1>3 DEF ClaimBegin
  <2>2. /\ loop'[p].pc = "write" /\ loop'[p].todo = loop[p].todo /\ loop'[p].cur = loop[p].cur
    BY <1>0, <2>1 DEF LoopState
  <2>3. /\ ToSet(loop[p].rows) = {} /\ ToSet(loop[p].todo) = {} /\ loop[p].cur = Null
    BY <1>0, <1>3, NoRows DEF ClaimBegin, Hands
  <2>4. ASSUME NEW s \in Schedules
        PROVE  StatusFact(p, s)'
    <3>1. Taken(p, s)' <=> Taken(p, s)
      BY <1>0, <2>2, <2>3 DEF Taken
    <3>2. schedule' = schedule
      BY <1>3 DEF ClaimBegin
    <3>3. QED
      BY <1>1, <1>2, <3>1, <3>2, StatusKept DEF StatusInv
  <2>5. QED
    BY <2>2, <2>4 DEF StatusInv, FinishFact
<1>4. CASE ClaimWrite(p)
  <2>1. /\ loop'[p] = [loop[p] EXCEPT !.pc = IF loop[p].rows = << >> THEN "sleep" ELSE "refresh"]
        /\ loop[p].pc = "write"
        /\ schedule' = [s \in Schedules |->
             IF s \in ToSet(loop[p].rows) /\ Exists(s)
             THEN [schedule[s] EXCEPT !.due = Interval[s], !.last = "running"]
             ELSE schedule[s]]
    BY <1>0, <1>4 DEF ClaimWrite
  <2>2. /\ loop'[p].pc \in {"sleep", "refresh"}
        /\ loop'[p].rows = loop[p].rows
        /\ loop'[p].todo = loop[p].todo /\ loop'[p].cur = loop[p].cur
    BY <1>0, <2>1 DEF LoopState
  <2>3. ToSet(loop[p].todo) = {} /\ loop[p].cur = Null
    BY <1>0, <2>1, NoRows DEF Hands
  <2>4. ASSUME NEW s \in Schedules
        PROVE  StatusFact(p, s)'
    <3>1. /\ ~ Taken(p, s)
          /\ Taken(p, s)' <=> s \in ToSet(loop[p].rows)
      BY <1>0, <2>1, <2>2, <2>3 DEF Taken
    <3>2. CASE s \notin ToSet(loop[p].rows)
      <4>1. schedule'[s] = schedule[s]
        BY <2>1, <3>2
      <4>2. QED
        BY <1>1, <1>2, <3>1, <3>2, <4>1, StatusKept DEF StatusInv
    <3>3. CASE s \in ToSet(loop[p].rows)
      <4>1. ASSUME Exists(s)
            PROVE  schedule'[s].last = "running"
        <5>1. schedule[s] \in Schedule
          BY <1>0, <4>1 DEF Exists
        <5>2. schedule'[s] = [schedule[s] EXCEPT !.due = Interval[s], !.last = "running"]
          BY <2>1, <3>3, <4>1
        <5>3. QED
          BY <5>1, <5>2 DEF Schedule
      <4>2. QED
        BY <1>2, <3>1, <3>3, <4>1 DEF StatusFact
    <3>4. QED
      BY <3>2, <3>3
  <2>5. QED
    BY <2>2, <2>4 DEF StatusInv, FinishFact
<1>5. QED
  BY <1>3, <1>4

\* The schedules that were claimed are read again.
LEMMA StatusRefresh ==
    ASSUME ScheduleAssumption, NullAssumption, ScheduleInv, ScheduleNext, NEW p \in Servers,
           StatusInv(p), p \in scope.procs, Refresh(p)
    PROVE  StatusInv(p)'
<1>0. /\ loop \in [Servers -> LoopState]
      /\ Hands(loop[p])
      /\ Null \notin Schedules
      /\ UNCHANGED <<scope, schedule, order, latest>>
      /\ loop[p].pc = "refresh"
  BY DEF ScheduleInv, ScheduleTypeOK, HandsInv, NullAssumption, Refresh
<1> DEFINE l == [loop[p] EXCEPT !.rows = Tail(loop[p].rows),
                                !.todo = Append(@, Head(loop[p].rows)),
                                !.pc = IF Len(loop[p].rows) = 1 THEN "next" ELSE "refresh"]
<1>1. \/ loop'[p] = [NoLoop EXCEPT !.pc = "dead"]
      \/ loop'[p] = l
  BY <1>0 DEF Refresh
<1>2. CASE loop'[p] = [NoLoop EXCEPT !.pc = "dead"]
  <2>1. Broken'
    BY <1>0, <1>2 DEF Broken, NoLoop
  <2>2. QED
    BY <1>0, <1>2, <2>1, StatusLeft
<1>3. CASE loop'[p] = l
  <2>1. /\ l.rows = Tail(loop[p].rows)
        /\ l.todo = Append(loop[p].todo, Head(loop[p].rows))
        /\ l.cur = loop[p].cur
        /\ l.pc \in {"next", "refresh"}
    BY <1>0 DEF LoopState
  <2> HIDE DEF l
  <2>2. /\ loop[p].rows \in Seq(Schedules) /\ loop[p].todo \in Seq(Schedules)
        /\ IsInjective(loop[p].rows) /\ IsInjective(loop[p].todo)
        /\ loop[p].rows # << >>
        /\ ToSet(loop[p].rows) \cap ToSet(loop[p].todo) = {}
    BY <1>0 DEF Hands, LoopState
  <2>3. /\ Head(loop[p].rows) \in Schedules
        /\ Head(loop[p].rows) \in ToSet(loop[p].rows)
        /\ ToSet(Tail(loop[p].rows)) = ToSet(loop[p].rows) \ {Head(loop[p].rows)}
    BY <2>2, TailRows
  <2>4. ToSet(l.todo) = ToSet(loop[p].todo) \cup {Head(loop[p].rows)}
    BY <2>1, <2>2, <2>3, AppendRows
  <2>5. ASSUME NEW s \in Schedules
        PROVE  StatusFact(p, s)'
    <3>1. Taken(p, s)' <=> Taken(p, s)
      BY <1>0, <1>3, <2>1, <2>3, <2>4 DEF Taken
    <3>2. QED
      BY <1>0, <3>1, StatusKept DEF StatusInv, Exists
  <2>6. QED
    BY <1>3, <2>1, <2>5 DEF StatusInv, FinishFact
<1>4. QED
  BY <1>1, <1>2, <1>3

\* An audit begins, or is refused.
LEMMA StatusAudit ==
    ASSUME ScheduleAssumption, NullAssumption, ScheduleInv, ScheduleNext, NEW p \in Servers,
           StatusInv(p), NextAudit(p)
    PROVE  StatusInv(p)'
<1>0. /\ loop \in [Servers -> LoopState]
      /\ Hands(loop[p])
      /\ latest \in [Schedules -> LastStatus]
      /\ UNCHANGED <<scope, connector, schedule, order>>
      /\ loop[p].pc = "next" /\ loop[p].todo # << >>
      /\ loop[p].cur = Null /\ loop[p].rows = << >>
      /\ loop[p].todo \in Seq(Schedules) /\ IsInjective(loop[p].todo)
  BY DEF ScheduleInv, ScheduleTypeOK, HandsInv, NextAudit, Hands, LoopState
<1> DEFINE s == Head(loop[p].todo)
<1>1. /\ s \in Schedules /\ s \in ToSet(loop[p].todo)
      /\ ToSet(Tail(loop[p].todo)) = ToSet(loop[p].todo) \ {s}
  BY <1>0, TailRows
<1>2. \/ /\ BeginAudit(p, s)
      \/ /\ ~ Auditable(s) \/ MayFail
         /\ RefuseAudit(p, s)
  BY DEF NextAudit
<1>3. /\ loop'[p].rows = << >> /\ loop'[p].todo = Tail(loop[p].todo) /\ loop'[p].cur = s
      /\ \/ /\ loop'[p].pc = "audit" /\ loop'[p].mine
            /\ \A t \in Schedules \ {s} : latest'[t] = latest[t]
         \/ /\ loop'[p].pc = "finish" /\ loop'[p].out = "failed"
            /\ ~ Auditable(s) \/ MayFail
            /\ latest' = latest
  <2>1. CASE BeginAudit(p, s)
    <3>1. loop'[p] = [loop[p] EXCEPT !.pc = "audit", !.todo = Tail(@), !.cur = s, !.mine = TRUE]
      BY <2>1 DEF BeginAudit
    <3>2. loop[p] \in LoopState
      BY <1>0
    <3>3. loop'[p].rows = << >> /\ loop'[p].todo = Tail(loop[p].todo) /\ loop'[p].cur = s
          /\ loop'[p].pc = "audit" /\ loop'[p].mine
      BY <1>0, <3>1, <3>2 DEF LoopState
    <3>4. \A t \in Schedules \ {s} : latest'[t] = latest[t]
      BY <1>0, <2>1 DEF BeginAudit
    <3>5. QED
      BY <3>3, <3>4
  <2>2. CASE RefuseAudit(p, s) /\ (~ Auditable(s) \/ MayFail)
    <3>1. loop'[p] = [loop[p] EXCEPT !.pc = "finish", !.todo = Tail(@), !.cur = s,
                                     !.mine = FALSE, !.out = "failed"]
          /\ latest' = latest
      BY <1>0, <2>2 DEF RefuseAudit
    <3>2. loop[p] \in LoopState
      BY <1>0
    <3>3. loop'[p].rows = << >> /\ loop'[p].todo = Tail(loop[p].todo) /\ loop'[p].cur = s
          /\ loop'[p].pc = "finish" /\ loop'[p].out = "failed"
      BY <1>0, <3>1, <3>2 DEF LoopState
    <3>4. QED
      BY <2>2, <3>1, <3>3
  <2>3. QED
    BY <1>2, <2>1, <2>2
<1> HIDE DEF s
<1>4. ASSUME NEW t \in Schedules
      PROVE  StatusFact(p, t)'
  <2>1. Taken(p, t)' <=> Taken(p, t)
    BY <1>0, <1>1, <1>3, NoRows DEF Taken, NullAssumption
  <2>2. ~ Taken(p, t) => t # s
    BY <1>1 DEF Taken
  <2>3. QED
    BY <1>0, <1>3, <2>1, <2>2, StatusKept DEF StatusInv, Exists
<1>5. FinishFact(p)'
  BY <1>0, <1>3 DEF FinishFact, Explained, Auditable, MayFail
<1>6. QED
  BY <1>3, <1>4, <1>5 DEF StatusInv

\* Points of the loop at which it waits or goes on.
LEMMA StatusGoes ==
    ASSUME ScheduleAssumption, NullAssumption, ScheduleInv, ScheduleNext, NEW p \in Servers,
           StatusInv(p), Wake(p) \/ StartScheduler(p) \/ AllAudited(p) \/ AuditEnds(p)
    PROVE  StatusInv(p)'
<1>0. /\ loop \in [Servers -> LoopState]
      /\ Hands(loop[p]) /\ loop[p] \in LoopState
      /\ UNCHANGED <<schedule, order, latest>>
      /\ loop[p].pc # "write"
  BY DEF ScheduleInv, ScheduleTypeOK, HandsInv, Wake, StartScheduler, AllAudited, AuditEnds
<1>1. /\ loop'[p].rows = loop[p].rows /\ loop'[p].todo = loop[p].todo
      /\ loop'[p].cur = loop[p].cur /\ loop'[p].mine = loop[p].mine
      /\ \/ loop'[p].pc \in {"poll", "sleep"}
         \/ loop[p].pc = "audit" /\ loop'[p].pc = "ended"
  <2>1. CASE Wake(p) \/ StartScheduler(p) \/ AllAudited(p)
    BY <1>0, <2>1 DEF Wake, StartScheduler, AllAudited, LoopGoto, LoopState
  <2>2. CASE AuditEnds(p)
    BY <1>0, <2>2 DEF AuditEnds, LoopState
  <2>3. QED
    BY <2>1, <2>2
<1>2. ASSUME NEW s \in Schedules
      PROVE  StatusFact(p, s)'
  <2>1. Taken(p, s)' <=> Taken(p, s)
    BY <1>0, <1>1 DEF Taken
  <2>2. QED
    BY <1>0, <2>1, StatusKept DEF StatusInv, Exists
<1>3. QED
  BY <1>1, <1>2 DEF StatusInv, FinishFact

\* The run and then the schedule are finished.
LEMMA StatusFinish ==
    ASSUME ScheduleAssumption, NullAssumption, ScheduleInv, ScheduleNext, NEW p \in Servers,
           StatusInv(p), FinishRun(p) \/ FinishSchedule(p)
    PROVE  StatusInv(p)'
<1>0. /\ loop \in [Servers -> LoopState] /\ loop[p] \in LoopState
      /\ Hands(loop[p])
      /\ latest \in [Schedules -> LastStatus]
      /\ schedule \in [Schedules -> Schedule \cup {Null}]
      /\ \A s \in ToSet(order) : schedule[s] # Null
      /\ UNCHANGED <<scope, connector, order>>
  BY DEF ScheduleInv, ScheduleTypeOK, HandsInv, FinishRun, FinishSchedule
<1>1. PICK c : c = loop[p].cur
  OBVIOUS
<1>2. c \in Schedules /\ c # Null /\ loop[p].pc \in {"ended", "finish"}
      /\ loop[p].rows = << >> /\ c \notin ToSet(loop[p].todo)
  BY <1>0, <1>1 DEF FinishRun, FinishSchedule, Hands, NullAssumption
<1>3. \A s \in Schedules : Taken(p, s) <=> s \in ToSet(loop[p].todo) \cup {c}
  BY <1>1, <1>2, NoRows DEF Taken
<1>4. CASE FinishRun(p)
  <2>1. /\ loop[p].mine
        /\ latest' = [latest EXCEPT ![c] = loop[p].out]
    BY <1>1, <1>4 DEF FinishRun, StatusInv
  <2>2. /\ loop'[p].rows = << >> /\ loop'[p].todo = loop[p].todo /\ loop'[p].cur = c
        /\ loop'[p].pc = "finish" /\ loop'[p].out = loop[p].out
    BY <1>0, <1>1, <1>2, <1>4 DEF FinishRun, LoopGoto, LoopState
  <2>3. ASSUME NEW s \in Schedules
        PROVE  StatusFact(p, s)'
    <3>1. Taken(p, s)' <=> Taken(p, s)
      BY <1>3, <2>2, NoRows DEF Taken
    <3>2. ~ Taken(p, s) => latest'[s] = latest[s]
      BY <1>0, <1>3, <2>1
    <3>3. schedule' = schedule
      BY <1>4 DEF FinishRun
    <3>4. QED
      BY <1>0, <3>1, <3>2, <3>3, StatusKept DEF StatusInv, Exists
  <2>4. latest'[c] = loop'[p].out
    BY <1>0, <1>2, <2>1, <2>2
  <2>5. QED
    BY <2>2, <2>3, <2>4 DEF StatusInv, FinishFact, Explained
<1>5. CASE FinishSchedule(p)
  <2>1. /\ loop'[p].rows = << >> /\ loop'[p].todo = loop[p].todo /\ loop'[p].cur = Null
        /\ loop'[p].pc = "next"
    BY <1>0, <1>2, <1>5 DEF FinishSchedule, LoopState
  <2>2. UNCHANGED latest
    BY <1>5 DEF FinishSchedule
  <2>3. ASSUME NEW s \in Schedules, s # c
        PROVE  StatusFact(p, s)'
    <3>1. Taken(p, s)' <=> Taken(p, s)
      BY <1>3, <2>1, <2>3, NoRows DEF Taken, NullAssumption
    <3>2. schedule'[s] = schedule[s]
      BY <1>0, <1>1, <1>5, <2>3 DEF FinishSchedule
    <3>3. QED
      BY <1>0, <2>2, <3>1, <3>2, StatusKept DEF StatusInv, Exists
  <2>4. StatusFact(p, c)'
    <3>1. ~ Taken(p, c)'
      BY <1>2, <2>1, NoRows DEF Taken
    <3>2. SUFFICES ASSUME Exists(c)
                   PROVE  Settled(c)'
      BY <1>0, <3>1 DEF StatusFact, Exists
    <3>3. PICK out : out = loop[p].out
      OBVIOUS
    <3>4. Explained(c, out)
      BY <1>1, <1>5, <3>2, <3>3 DEF StatusInv, FinishFact, FinishSchedule
    <3>5. Explained(c, out)'
      BY <1>0, <1>2, <2>2, <3>2, <3>4, ExplainedStays DEF ScheduleInv, Exists
    <3>6. schedule'[c].last = out
      <4>1. schedule[c] \in Schedule
        BY <1>0, <1>2, <3>2 DEF Exists
      <4>2. schedule' = [schedule EXCEPT ![c] = [schedule[c] EXCEPT !.last = out]]
        BY <1>1, <1>5, <3>2, <3>3 DEF FinishSchedule
      <4>3. QED
        BY <1>0, <1>2, <4>1, <4>2 DEF Schedule
    <3>7. QED
      BY <3>5, <3>6 DEF Settled
  <2>5. QED
    BY <2>1, <2>3, <2>4 DEF StatusInv, FinishFact
<1>6. QED
  BY <1>4, <1>5

\* With one scheduler, no other loop takes a step.
LEMMA SingleStep ==
    ASSUME ScheduleAssumption, NullAssumption, ScheduleInv, ScheduleNext
    PROVE  SingleInv'
<1> SUFFICES ASSUME NEW p \in Servers, Only(p)'
             PROVE  /\ \A q \in Servers \ {p} : loop'[q] = NoLoop
                    /\ StatusInv(p)'
  BY DEF SingleInv
<1>0. /\ loop \in [Servers -> LoopState]
      /\ scope \in Scopes
      /\ stops \in Nat
  BY DEF ScheduleInv, ScheduleTypeOK
<1>1. scope' = scope /\ Only(p) /\ p \in scope.schedulers /\ p \in scope.procs
  BY <1>0, ScopeStep DEF Only, ScheduleAssumption
<1>2. StatusInv(p) /\ \A q \in Servers \ {p} : loop[q] = NoLoop
  BY <1>1 DEF ScheduleInv, SingleInv
<1>3. ASSUME NEW q \in Servers, q # p
      PROVE  ~ (SchedulerLoop(q) \/ StartScheduler(q) \/ StopScheduler(q) \/ ServerCrash(q))
  <2>1. loop[q].pc = "off" /\ q \notin scope.schedulers
    BY <1>1, <1>2, <1>3 DEF NoLoop, Only
  <2>2. QED
    BY <2>1
       DEF SchedulerLoop, StartScheduler, StopScheduler, ServerCrash, ClaimBegin,
           ClaimFails, ClaimWrite, Refresh, NextAudit, AllAudited, AuditEnds, FinishRun,
           FinishSchedule, FinishFails, Wake
<1>4. ASSUME SchedulerLoop(p) \/ StartScheduler(p) \/ StopScheduler(p) \/ ServerCrash(p)
      PROVE  \A q \in Servers \ {p} : loop'[q] = NoLoop
  <2>1. ASSUME NextAudit(p), NEW q \in Servers \ {p}
        PROVE  loop'[q] = NoLoop
    <3>1. loop[p].todo \in Seq(Schedules) /\ loop[p].todo # << >>
      BY <1>0, <2>1 DEF NextAudit, LoopState
    <3>2. Head(loop[p].todo) # Null
      BY <3>1 DEF NullAssumption
    <3>3. loop[q] = NoLoop /\ loop[q].cur # Head(loop[p].todo)
      <4>1. loop[q] = NoLoop
        BY <1>2, <2>1
      <4>2. loop[q].cur = Null
        BY <4>1 DEF NoLoop
      <4>3. QED
        BY <3>2, <4>1, <4>2
    <3>4. QED
      BY <1>0, <2>1, <3>3 DEF NextAudit, BeginAudit, RefuseAudit
  <2>2. ASSUME ~ NextAudit(p), NEW q \in Servers \ {p}
        PROVE  loop'[q] = NoLoop
    <3>1. loop'[q] = loop[q]
      BY <1>0, <1>4, <2>2
         DEF SchedulerLoop, StartScheduler, StopScheduler, ServerCrash, ClaimBegin,
             ClaimFails, ClaimWrite, Refresh, AllAudited, AuditEnds, FinishRun,
             FinishSchedule, FinishFails, Wake, LoopGoto
    <3>2. QED
      BY <1>2, <3>1
  <2>3. QED
    BY <2>1, <2>2
<1>5. ASSUME ClaimFails(p) \/ FinishFails(p) \/ StopScheduler(p) \/ ServerCrash(p)
      PROVE  StatusInv(p)'
  <2>1. /\ UNCHANGED <<schedule, order, latest>>
        /\ loop'[p] \in {NoLoop, [NoLoop EXCEPT !.pc = "dead"]}
    BY <1>0, <1>5 DEF ClaimFails, FinishFails, StopScheduler, ServerCrash
  <2>2. Broken'
    <3>1. CASE ClaimFails(p) \/ FinishFails(p)
      BY <1>0, <1>1, <3>1 DEF ClaimFails, FinishFails, Broken, NoLoop
    <3>2. CASE StopScheduler(p) \/ ServerCrash(p)
      BY <1>0, <3>2 DEF StopScheduler, ServerCrash, Broken
    <3>3. QED
      BY <1>5, <3>1, <3>2
  <2>3. QED
    BY <1>2, <2>1, <2>2, StatusLeft
<1>6. ASSUME SchedulerLoop(p) \/ StartScheduler(p) \/ StopScheduler(p) \/ ServerCrash(p)
      PROVE  StatusInv(p)'
  BY <1>1, <1>2, <1>5, <1>6, StatusClaim, StatusRefresh, StatusAudit, StatusGoes,
     StatusFinish
     DEF SchedulerLoop
<1>7. ASSUME NEW q \in Servers, ScheduleRequest(q)
      PROVE  /\ \A r \in Servers \ {p} : loop'[r] = NoLoop
             /\ StatusInv(p)'
  <2>1. UNCHANGED loop
    BY <1>7
       DEF ScheduleRequest, CreateConnector, TestConnector, CreateSchedule, DeleteSchedule,
           InsertFails
  <2>2. QED
    BY <1>2, <1>7, <2>1, StatusRequest
<1>8. ASSUME Tick
      PROVE  /\ \A r \in Servers \ {p} : loop'[r] = NoLoop
             /\ StatusInv(p)'
  <2>1. UNCHANGED loop
    BY <1>8 DEF Tick
  <2>2. QED
    BY <1>2, <1>8, <2>1, StatusTick
<1>9. CASE \E q \in Servers : SchedulerLoop(q) \/ StartScheduler(q) \/ StopScheduler(q) \/ ServerCrash(q)
  BY <1>3, <1>4, <1>6, <1>9
<1>10. QED
  BY <1>7, <1>8, <1>9 DEF ScheduleNext

-----------------------------------------------------------------------------
(* The theorems about schedules *)

\* The inductive invariant holds initially and through every step.
LEMMA ScheduleInvHolds == ScheduleSpec => []ScheduleInv
<1>0. ScheduleAssumption /\ NullAssumption
  BY ScheduleAssumption, NullAssumption
<1>1. ScheduleInit => ScheduleInv
  <2> SUFFICES ASSUME ScheduleInit
               PROVE  ScheduleInv
    OBVIOUS
  <2>1. /\ scope \in Scopes
        /\ loop = [p \in Servers |-> NoLoop]
        /\ schedule = [s \in Schedules |-> Null]
        /\ connector = [c \in Connectors |-> Null]
        /\ latest = [s \in Schedules |-> Null]
        /\ order = << >> /\ writer = Null /\ dangling = {} /\ stops = 0
    BY DEF ScheduleInit
  <2>2. Hands(NoLoop) /\ NoLoop \in LoopState
    BY <1>0, HandsNone DEF Hands
  <2>3. HandsInv /\ loop \in [Servers -> LoopState]
    BY <2>1, <2>2 DEF HandsInv
  <2>4. ScheduleTypeOK
    BY <2>1, <2>3, NoRows DEF ScheduleTypeOK, LastStatus
  <2>5. \A p \in Servers : loop[p] = NoLoop
    BY <2>1
  <2>6. LockInv /\ ClaimsAreDue
    BY <2>5 DEF LockInv, ClaimsAreDue, NoLoop
  <2>7. \A s \in Schedules : ~ Pending(s)
    BY <1>0, <2>5, NoRows DEF Pending, NoLoop, NullAssumption
  <2>8. MadeInv
    BY <2>1, <2>7 DEF MadeInv
  <2>9. \A s \in Schedules : ~ Exists(s)
    BY <2>1, NoRows DEF Exists
  <2>10. SingleInv
    <3>1. ASSUME NEW p \in Servers
          PROVE  StatusInv(p)
      <4>1. loop[p].pc = "off"
        BY <2>5 DEF NoLoop
      <4>2. QED
        BY <2>9, <4>1 DEF StatusInv, StatusFact, FinishFact
    <3>2. QED
      BY <2>5, <3>1 DEF SingleInv
  <2>11. QED
    BY <2>3, <2>4, <2>6, <2>8, <2>10 DEF ScheduleInv
<1>2. ScheduleInv /\ ScheduleNext => ScheduleInv'
  BY <1>0, TypeStep, HandsStep, MadeStep, ClaimStep, SingleStep DEF ScheduleInv
<1>3. ScheduleInv /\ UNCHANGED scheduleVars => ScheduleInv'
  <2> SUFFICES ASSUME ScheduleInv, UNCHANGED scheduleVars
               PROVE  ScheduleInv'
    OBVIOUS
  <2>0. UNCHANGED <<scope, connector, schedule, order, latest, writer, dangling, loop, stops>>
    BY DEF scheduleVars
  <2>1. ScheduleTypeOK' /\ HandsInv' /\ LockInv'
    BY <2>0 DEF ScheduleInv, ScheduleTypeOK, HandsInv, LockInv
  <2>2. MadeInv'
    BY <2>0 DEF ScheduleInv, MadeInv, Pending
  <2>3. ClaimsAreDue'
    BY <2>0 DEF ScheduleInv, ClaimsAreDue, Due, Exists
  <2>4. SingleInv'
    <3>1. \A p \in Servers, s \in Schedules : StatusFact(p, s)' <=> StatusFact(p, s)
      BY <2>0 DEF StatusFact, Exists, Taken, Settled, Explained, Auditable, MayFail, Broken
    <3>2. \A p \in Servers : FinishFact(p)' <=> FinishFact(p)
      BY <2>0 DEF FinishFact, Exists, Explained, Auditable, MayFail
    <3>3. QED
      BY <2>0, <3>1, <3>2 DEF ScheduleInv, SingleInv, Only, StatusInv
  <2>5. QED
    BY <2>1, <2>2, <2>3, <2>4 DEF ScheduleInv
<1>4. QED
  BY <1>1, <1>2, <1>3, PTL DEF ScheduleSpec

\* Every variable keeps its type, and web_audit_schedules is read in the order of
\* next_run_at whatever creates, deletes, claims and ticks come in between.
THEOREM ScheduleTypesHold == ScheduleSpec => []ScheduleTypeOK
<1>1. ScheduleInv => ScheduleTypeOK
  BY DEF ScheduleInv
<1>2. QED
  BY <1>1, ScheduleInvHolds, PTL

\* What claim_due_schedules writes is still due, enabled and in the table, for any
\* number of processes with schedulers: BEGIN IMMEDIATE holds from the SELECT to
\* the commit.
THEOREM DueSchedulesClaimed == ScheduleSpec => []ClaimsAreDue
<1>1. ScheduleInv => ClaimsAreDue
  BY DEF ScheduleInv
<1>2. QED
  BY <1>1, ScheduleInvHolds, PTL

\* With one scheduler among any number of processes, the last status of a schedule
\* that no audit is under way for is the status of its newest run, or a refusal,
\* or what a loop that ended left behind.
THEOREM StatusesStayTrue == ScheduleSpec => []StatusTrue
<1>1. ScheduleInv => StatusTrue
  <2> SUFFICES ASSUME ScheduleInv, NEW p \in Servers, scope.schedulers = {p},
                      NEW s \in Schedules, Exists(s), ~ Pending(s)
               PROVE  LET last == schedule[s].last
                      IN  \/ last = latest[s]
                          \/ last = "failed" /\ (~ Auditable(s) \/ MayFail)
                          \/ last = "running" /\ Broken
    BY DEF StatusTrue
  <2>1. ~ Taken(p, s)
    BY DEF Pending, Taken
  <2>2. Settled(s)
    BY <2>1 DEF ScheduleInv, SingleInv, Only, StatusInv, StatusFact
  <2>3. QED
    BY <2>2 DEF Settled, Explained
<1>2. QED
  BY <1>1, ScheduleInvHolds, PTL

=============================================================================
