------------------------------ MODULE WebChange ------------------------------
(***************************************************************************)
(* The governed change workflow of app/web_change_management.py: audits    *)
(* stage link proposals, reviewers approve or reject them, and apply()     *)
(* re-fetches the WordPress page, compares it with the reviewed snapshot   *)
(* and publishes the page with one more link.                              *)
(*                                                                         *)
(* One project and one connector are modelled: every query of the store is *)
(* keyed by both.  A request handler is a task.  It is an asyncio          *)
(* coroutine: it runs without interruption by the tasks of its own process *)
(* until its next await, and the tasks of another process that shares the  *)
(* SQLite file may run between any two of its statements.  The SHA-256 of  *)
(* a page's content is the content itself.                                 *)
(***************************************************************************)
EXTENDS Naturals, FiniteSets

CONSTANTS
    Proposals,   \* rows web_change_proposals can hold
    Runs,        \* rows web_audit_runs can hold
    Pages,       \* WordPress objects of the connector's site
    Slugs,       \* URLs a page can be published under
    Targets,     \* pages a link can point to
    Bodies,      \* texts an editor can give a page
    AnchorsIn,   \* AnchorsIn[b]: targets whose anchor is plain text in b
    Tasks,       \* request handlers (and scheduler iterations)
    Procs,       \* server processes sharing the SQLite file
    ProcOf,      \* the process a task runs in
    None,
    MaxEdits,    \* bound on edits made in WordPress by others
    MaxCrashes   \* bound on process crashes

ASSUME ProcAssumption == ProcOf \in [Tasks -> Procs]
ASSUME AnchorAssumption == AnchorsIn \in [Bodies -> SUBSET Targets]
ASSUME BoundAssumption == MaxEdits \in Nat /\ MaxCrashes \in Nat

VARIABLES
    page,        \* WordPress: the current content and URL of each page
    status,      \* web_change_proposals.status, "none" for a free id
    row,         \* the columns written once, when the proposal is created
    appliedAt,   \* whether the column applied_at is set
    runs,        \* web_audit_runs.status
    task,        \* the local state of each request handler
    approved,    \* history: proposals a reviewer has approved
    published,   \* history: contents WordPress accepted for a proposal
    edits, crashes,
    unrecorded   \* history: runs whose end the store refused to record

vars == <<page, status, row, appliedAt, runs, task, approved, published,
          edits, crashes, unrecorded>>

-----------------------------------------------------------------------------
(* Data *)

Content == [body : Bodies, links : SUBSET Targets]

\* WordPressObject: raw is None when content.raw is missing from a response.
Object == [page : Pages, raw : Content \cup {None}, slug : Slugs]

\* A link the crawler suggests, from the page at a URL.
Suggestion == [slug : Slugs, target : Targets]

\* page is source_object_id, None when the URL was not mapped to an object.
Row == [slug : Slugs, target : Targets, page : Pages \cup {None},
        hash : Content \cup {None}, auto : BOOLEAN]

ASSUME NoneAssumption ==
    None \notin Pages \cup Content \cup Object \cup Row

Open == {"pending", "approved"}

ProposalStatus == {"pending", "approved", "rejected", "applied", "stale", "failed"}

\* Program points of a task.  At a point of SyncPcs the coroutine is between
\* two statements of one uninterrupted section; at the others it awaits.
SyncPcs == {"approve_write", "approve_apply_write", "apply_read",
            "reject_write", "stage", "insert"}
ApplyPcs == {"get", "got", "post", "posted", "error"}
AuditPcs == {"crawl", "discover", "discovered"}
Pcs == {"idle"} \cup SyncPcs \cup ApplyPcs \cup AuditPcs

TaskState == [pc : Pcs,
              prop : Proposals \cup {None},     \* the proposal it works on
              obj : Object \cup {None},         \* what get_object returned
              run : Runs \cup {None},
              todo : SUBSET Suggestion,         \* suggestions left to stage
              cur : Suggestion \cup {None},     \* the suggestion in hand
              found : [Slugs -> Object \cup {None}]]

NothingFound == [k \in Slugs |-> None]

IdleTask == [pc |-> "idle", prop |-> None, obj |-> None, run |-> None,
             todo |-> {}, cur |-> None, found |-> NothingFound]

\* insert_internal_link_once: refused when the page already has the link, or
\* when the anchor text is not in one ordinary text node.
CanInsert(c, g) == g \notin c.links /\ g \in AnchorsIn[c.body]
WithLink(c, g) == [c EXCEPT !.links = @ \cup {g}]

\* No other task of t's process is inside an uninterrupted section.
LoopFree(t) ==
    \A u \in Tasks \ {t} : ProcOf[u] = ProcOf[t] => task[u].pc \notin SyncPcs

Goto(t, pc) == task' = [task EXCEPT ![t] = [@ EXCEPT !.pc = pc]]
Begin(t, p, pc) == task' = [task EXCEPT ![t] = [@ EXCEPT !.pc = pc, !.prop = p]]
Return(t) == task' = [task EXCEPT ![t] = IdleTask]

\* update_proposal_status: one UPDATE; applied_at survives later updates.
SetStatus(p, s) ==
    /\ status' = [status EXCEPT ![p] = s]
    /\ appliedAt' = [appliedAt EXCEPT ![p] = @ \/ s = "applied"]

-----------------------------------------------------------------------------
Init ==
    /\ page \in [Pages -> [raw : {c \in Content : c.links = {}}, slug : Slugs]]
    /\ status = [p \in Proposals |-> "none"]
    /\ row = [p \in Proposals |-> None]
    /\ appliedAt = [p \in Proposals |-> FALSE]
    /\ runs = [r \in Runs |-> "none"]
    /\ task = [t \in Tasks |-> IdleTask]
    /\ approved = {}
    /\ published = [p \in Proposals |-> {}]
    /\ edits = 0
    /\ crashes = 0
    /\ unrecorded = {}

-----------------------------------------------------------------------------
(* Review: approve and reject read the status and then write it. *)

\* Mutant: approve forgets to look at the status.
ApproveReadAnyStatus(t, p, next) ==
    /\ task[t].pc = "idle" /\ LoopFree(t)
    /\ status[p] # "none"
    /\ Begin(t, p, next)
    /\ UNCHANGED <<page, status, row, appliedAt, runs, approved, published,
                   edits, crashes, unrecorded>>

ApproveRead(t, p, next) ==
    /\ task[t].pc = "idle" /\ LoopFree(t)
    /\ status[p] \in Open
    /\ Begin(t, p, next)
    /\ UNCHANGED <<page, status, row, appliedAt, runs, approved, published,
                   edits, crashes, unrecorded>>

Approve(t, p) == ApproveRead(t, p, "approve_write")
ApproveAndApply(t, p) == ApproveRead(t, p, "approve_apply_write")

ApproveWrite(t) ==
    /\ task[t].pc \in {"approve_write", "approve_apply_write"} /\ LoopFree(t)
    /\ SetStatus(task[t].prop, "approved")
    /\ approved' = approved \cup {task[t].prop}
    /\ IF task[t].pc = "approve_write" THEN Return(t) ELSE Goto(t, "apply_read")
    /\ UNCHANGED <<page, row, runs, published, edits, crashes, unrecorded>>

Reject(t, p) ==
    /\ task[t].pc = "idle" /\ LoopFree(t)
    /\ status[p] \notin {"none", "applied"}
    /\ Begin(t, p, "reject_write")
    /\ UNCHANGED <<page, status, row, appliedAt, runs, approved, published,
                   edits, crashes, unrecorded>>

RejectWrite(t) ==
    /\ task[t].pc = "reject_write" /\ LoopFree(t)
    /\ SetStatus(task[t].prop, "rejected")
    /\ Return(t)
    /\ UNCHANGED <<page, row, runs, approved, published, edits, crashes, unrecorded>>

-----------------------------------------------------------------------------
(* apply *)

\* The checks apply() makes before its first await.
Appliable(p) ==
    status[p] = "approved" /\ row[p].auto /\ row[p].page # None /\ row[p].hash # None

Apply(t, p) ==
    /\ task[t].pc = "idle" /\ LoopFree(t)
    /\ Appliable(p)
    /\ Begin(t, p, "get")
    /\ UNCHANGED <<page, status, row, appliedAt, runs, approved, published,
                   edits, crashes, unrecorded>>

\* The same checks, reached from approve_and_apply without an await.
ApplyRead(t) ==
    /\ task[t].pc = "apply_read" /\ LoopFree(t)
    /\ IF Appliable(task[t].prop) THEN Goto(t, "get") ELSE Return(t)
    /\ UNCHANGED <<page, status, row, appliedAt, runs, approved, published,
                   edits, crashes, unrecorded>>

\* WordPress answers the GET; content.raw may be missing from the answer.
GetObject(t) ==
    /\ task[t].pc = "get"
    /\ LET g == row[task[t].prop].page
       IN  \E raw \in {page[g].raw, None} :
             task' = [task EXCEPT ![t] =
                        [@ EXCEPT !.pc = "got",
                                  !.obj = [page |-> g, raw |-> raw,
                                           slug |-> page[g].slug]]]
    /\ UNCHANGED <<page, status, row, appliedAt, runs, approved, published,
                   edits, crashes, unrecorded>>

\* Mutant: the content is not compared with the reviewed snapshot.
SnapshotUnchecked(o, w) ==
    /\ o.slug = w.slug
    /\ o.raw # None
    /\ CanInsert(o.raw, w.target)

\* The fetched page is the one reviewed, and the link can still be inserted.
SnapshotMatches(o, w) ==
    /\ o.slug = w.slug
    /\ o.raw # None
    /\ o.raw = w.hash
    /\ CanInsert(o.raw, w.target)

ApplyCheck(t) ==
    /\ task[t].pc = "got" /\ LoopFree(t)
    /\ IF SnapshotMatches(task[t].obj, row[task[t].prop])
       THEN Goto(t, "post") /\ UNCHANGED <<status, appliedAt>>
       ELSE Return(t) /\ SetStatus(task[t].prop, "stale")
    /\ UNCHANGED <<page, row, runs, approved, published, edits, crashes, unrecorded>>

\* WordPress accepts the POST and replaces the content.  The answer may not
\* arrive (timeout) or be refused (unexpected id): the coroutine sees an error.
UpdateContent(t) ==
    LET w == row[task[t].prop]
        patched == WithLink(task[t].obj.raw, w.target)
    IN  /\ task[t].pc = "post"
        /\ page' = [page EXCEPT ![w.page].raw = patched]
        /\ published' = [published EXCEPT ![task[t].prop] = @ \cup {patched}]
        /\ \E pc \in {"posted", "error"} : Goto(t, pc)
        /\ UNCHANGED <<status, row, appliedAt, runs, approved, edits, crashes, unrecorded>>

\* Mutant: a failed request is tried again, without end.
RequestRetried(t) ==
    /\ task[t].pc \in {"get", "post"}
    /\ Goto(t, "get")
    /\ UNCHANGED <<page, status, row, appliedAt, runs, approved, published,
                   edits, crashes, unrecorded>>

\* The request fails before WordPress acts on it.
RequestFails(t) ==
    /\ task[t].pc \in {"get", "post"}
    /\ Goto(t, "error")
    /\ UNCHANGED <<page, status, row, appliedAt, runs, approved, published,
                   edits, crashes, unrecorded>>

ApplyFinish(t) ==
    /\ task[t].pc \in {"posted", "error"} /\ LoopFree(t)
    /\ SetStatus(task[t].prop, IF task[t].pc = "posted" THEN "applied" ELSE "failed")
    /\ Return(t)
    /\ UNCHANGED <<page, row, runs, approved, published, edits, crashes, unrecorded>>

-----------------------------------------------------------------------------
(* stage_audit *)

\* create_run commits the row and reads it back; should that raise, the call
\* ends before the try and the run stays as it is.
StartAudit(t, r) ==
    /\ task[t].pc = "idle" /\ LoopFree(t)
    /\ runs[r] = "none"
    /\ runs' = [runs EXCEPT ![r] = "running"]
    /\ \/ /\ task' = [task EXCEPT ![t] = [@ EXCEPT !.pc = "crawl", !.run = r]]
          /\ UNCHANGED unrecorded
       \/ /\ unrecorded' = unrecorded \cup {r}
          /\ UNCHANGED task
    /\ UNCHANGED <<page, status, row, appliedAt, approved, published, edits, crashes>>

\* The crawler suggests links that the pages it fetched do not have.
Crawl(t) ==
    /\ task[t].pc = "crawl"
    /\ \E S \in SUBSET {s \in Suggestion :
                          \E g \in Pages : /\ page[g].slug = s.slug
                                           /\ s.target \notin page[g].raw.links} :
          task' = [task EXCEPT ![t] = [@ EXCEPT !.pc = "discover", !.todo = S]]
    /\ UNCHANGED <<page, status, row, appliedAt, runs, approved, published,
                   edits, crashes, unrecorded>>

\* The crawl raises, or the store does: in the look-up or the insertion of
\* create_proposal, or in the finish_run of a complete audit.  The handler
\* records the run as failed, unless finish_run raises there as well.  What was
\* staged until then stays.
AuditFails(t) ==
    /\ task[t].pc \in {"crawl", "stage", "insert"} /\ LoopFree(t)
    /\ \/ /\ runs' = [runs EXCEPT ![task[t].run] = "failed"]
          /\ UNCHANGED unrecorded
       \/ /\ unrecorded' = unrecorded \cup {task[t].run}
          /\ UNCHANGED runs
    /\ Return(t)
    /\ UNCHANGED <<page, status, row, appliedAt, approved, published, edits, crashes>>

\* What the REST API may answer for URL k: the object published there, with or
\* without content.raw, or nothing when the scan ends before it.
Listed(k) ==
    {None} \cup {o \in Object : /\ o.slug = k
                               /\ page[o.page].slug = k
                               /\ o.raw \in {page[o.page].raw, None}}

\* discover_objects maps the suggested URLs to WordPress objects.  A failure is
\* caught: the proposals are then staged unmapped.
Discover(t) ==
    /\ task[t].pc = "discover"
    /\ \E found \in [Slugs -> Object \cup {None}] :
          /\ \A k \in Slugs :
                found[k] \in IF \E s \in task[t].todo : s.slug = k
                            THEN Listed(k) ELSE {None}
          /\ task' = [task EXCEPT ![t] = [@ EXCEPT !.pc = "discovered", !.found = found]]
    /\ UNCHANGED <<page, status, row, appliedAt, runs, approved, published,
                   edits, crashes, unrecorded>>

\* The discovery answer is processed: the staging loop starts.
BeginStaging(t) ==
    /\ task[t].pc = "discovered" /\ LoopFree(t)
    /\ Goto(t, "stage")
    /\ UNCHANGED <<page, status, row, appliedAt, runs, approved, published,
                   edits, crashes, unrecorded>>

\* Mutant: an approved proposal does not count as an open one.
ExistingPending(s) ==
    \E p \in Proposals : /\ status[p] = "pending"
                         /\ row[p].slug = s.slug
                         /\ row[p].target = s.target

\* An open proposal for the same source and target exists.
Existing(s) ==
    \E p \in Proposals : /\ status[p] \in Open
                         /\ row[p].slug = s.slug
                         /\ row[p].target = s.target

\* create_proposal, first half: SELECT an open proposal for the suggestion.
StageLookup(t, s) ==
    /\ task[t].pc = "stage" /\ LoopFree(t)
    /\ s \in task[t].todo
    /\ LET rest == task[t].todo \ {s}
       IN  task' = [task EXCEPT ![t] =
                      IF Existing(s)
                      THEN [@ EXCEPT !.todo = rest]
                      ELSE [@ EXCEPT !.todo = rest, !.cur = s, !.pc = "insert"]]
    /\ UNCHANGED <<page, status, row, appliedAt, runs, approved, published,
                   edits, crashes, unrecorded>>

\* The row staged for suggestion s when discovery returned found.
StagedRow(s, found) ==
    LET o == found[s.slug]
        raw == IF o = None THEN None ELSE o.raw
    IN  [slug |-> s.slug, target |-> s.target,
         page |-> IF o = None THEN None ELSE o.page, hash |-> raw,
         auto |-> raw # None /\ CanInsert(raw, s.target)]

\* create_proposal, second half: INSERT the pending proposal under a new id.
StageInsert(t, p) ==
    /\ task[t].pc = "insert" /\ LoopFree(t)
    /\ status[p] = "none"
    /\ status' = [status EXCEPT ![p] = "pending"]
    /\ row' = [row EXCEPT ![p] = StagedRow(task[t].cur, task[t].found)]
    /\ task' = [task EXCEPT ![t] = [@ EXCEPT !.pc = "stage", !.cur = None]]
    /\ UNCHANGED <<page, appliedAt, runs, approved, published, edits, crashes, unrecorded>>

\* Mutant: the audit returns without finish_run.
FinishAuditUnrecorded(t) ==
    /\ task[t].pc = "stage" /\ LoopFree(t)
    /\ task[t].todo = {}
    /\ Return(t)
    /\ UNCHANGED <<page, status, row, appliedAt, runs, approved, published,
                   edits, crashes, unrecorded>>

\* finish_run, in the section of the last suggestion.
FinishAudit(t) ==
    /\ task[t].pc = "stage" /\ LoopFree(t)
    /\ task[t].todo = {}
    /\ runs' = [runs EXCEPT ![task[t].run] = "completed"]
    /\ Return(t)
    /\ UNCHANGED <<page, status, row, appliedAt, approved, published, edits, crashes,
                   unrecorded>>

-----------------------------------------------------------------------------
(* The environment *)

\* Somebody edits a page in WordPress, or publishes it under another URL.
Edit(g) ==
    /\ edits < MaxEdits
    /\ \E o \in [raw : Content, slug : Slugs] :
          /\ o # page[g]
          /\ page' = [page EXCEPT ![g] = o]
    /\ edits' = edits + 1
    /\ UNCHANGED <<status, row, appliedAt, runs, task, approved, published, crashes,
                   unrecorded>>

\* A process dies: its coroutines disappear, the database stays.
Crash(proc) ==
    /\ crashes < MaxCrashes
    /\ crashes' = crashes + 1
    /\ task' = [t \in Tasks |-> IF ProcOf[t] = proc THEN IdleTask ELSE task[t]]
    /\ UNCHANGED <<page, status, row, appliedAt, runs, approved, published, edits,
                   unrecorded>>

-----------------------------------------------------------------------------
\* Steps a task takes by itself once its request has been accepted.
Continue(t) ==
    \/ ApproveWrite(t) \/ RejectWrite(t) \/ ApplyRead(t)
    \/ GetObject(t) \/ ApplyCheck(t) \/ UpdateContent(t)
    \/ RequestFails(t) \/ ApplyFinish(t)
    \/ Crawl(t) \/ AuditFails(t) \/ Discover(t) \/ BeginStaging(t)
    \/ \E s \in Suggestion : StageLookup(t, s)
    \/ \E p \in Proposals : StageInsert(t, p)
    \/ FinishAudit(t)

Request(t) ==
    \/ \E p \in Proposals :
          Approve(t, p) \/ ApproveAndApply(t, p) \/ Reject(t, p) \/ Apply(t, p)
    \/ \E r \in Runs : StartAudit(t, r)

Environment ==
    \/ \E g \in Pages : Edit(g)
    \/ \E proc \in Procs : Crash(proc)

Next == (\E t \in Tasks : Request(t) \/ Continue(t)) \/ Environment

Spec == Init /\ [][Next]_vars

\* Each HTTP request ends with an answer or with httpx's timeout, and asyncio
\* runs ready coroutines first in, first out: one that becomes ready again and
\* again between the sections of others is not overtaken for ever.
FairSpec == Spec /\ \A t \in Tasks : SF_vars(Continue(t))

-----------------------------------------------------------------------------
(* Properties *)

\* Every variable has its type; an id is in use exactly when its row is set.
TypeOK ==
    /\ page \in [Pages -> [raw : Content, slug : Slugs]]
    /\ status \in [Proposals -> ProposalStatus \cup {"none"}]
    /\ row \in [Proposals -> Row \cup {None}]
    /\ \A p \in Proposals : status[p] = "none" <=> row[p] = None
    /\ appliedAt \in [Proposals -> BOOLEAN]
    /\ runs \in [Runs -> {"none", "running", "completed", "failed"}]
    /\ task \in [Tasks -> TaskState]
    /\ approved \subseteq Proposals
    /\ published \in [Proposals -> SUBSET Content]
    /\ edits \in Nat /\ crashes \in Nat
    /\ unrecorded \subseteq Runs

\* WordPress is only ever given the reviewed snapshot of an automatically
\* applicable proposal plus the reviewed link, whatever runs between the fetch,
\* the check and the write of apply().
ReviewedContentOnly ==
    \A p \in Proposals : \A c \in published[p] :
        /\ row[p].auto
        /\ c = WithLink(row[p].hash, row[p].target)

\* Nothing is published that no reviewer approved: neither a schedule, nor a
\* retry, nor an apply overtaken by other handlers writes without a review.
PublishNeedsApproval ==
    \A p \in Proposals : published[p] # {} => p \in approved

\* applied_at is set only when WordPress accepted the update, although the
\* column and the page are written by different steps.
AppliedWasPublished ==
    \A p \in Proposals : appliedAt[p] => published[p] # {}

\* create_proposal never stages a second open proposal for the same source
\* and target while one process serves the database.
OneOpenProposal ==
    \A p, q \in Proposals :
        /\ status[p] \in Open /\ status[q] \in Open
        /\ row[p].slug = row[q].slug /\ row[p].target = row[q].target
        => p = q

\* A proposal that left review is never open again: a late approve does not
\* undo a rejection (one process: approve reads and writes in one section).
NeverReopened ==
    [][\A p \in Proposals :
          status[p] \notin Open \cup {"none"} => status'[p] \notin Open]_vars

\* A pending proposal leaves that state by a review only: an apply in flight
\* never marks a proposal nobody has looked at.
PendingOnlyReviewed ==
    [][\A p \in Proposals :
          status[p] = "pending" => status'[p] \in {"pending", "approved", "rejected"}]_vars

\* What apply() overwrites is the content that was reviewed
\* (docs: "cannot silently overwrite intervening page changes").
NoOverwrite ==
    [][\A p \in Proposals :
          published'[p] # published[p] => page[row[p].page].raw = row[p].hash]_vars

\* WordPress is updated only while the proposal is approved (docs, workflow 7).
PublishWhileApproved ==
    [][\A p \in Proposals :
          published'[p] # published[p] => status[p] = "approved"]_vars

\* "an applied proposal cannot be rejected" (the error of reject()).
AppliedNotRejected ==
    \A p \in Proposals : status[p] = "rejected" => ~appliedAt[p]

\* An apply that has started always ends, whatever WordPress answers.
ApplyResolves ==
    \A t \in Tasks : task[t].pc \in ApplyPcs ~> task[t].pc = "idle"

\* An audit run that is recorded as running is recorded as completed or failed
\* in the end, wherever the audit fails and however much it has staged by then.
\* Only a dead process, or a store that refuses finish_run in the handler too,
\* leaves it as it is.
RunFinishes ==
    \A r \in Runs :
        runs[r] = "running" ~> \/ runs[r] \in {"completed", "failed"}
                              \/ crashes > 0 \/ r \in unrecorded

\* The workflow implements the review gate: the site changes only by edits of
\* others and by publishing what a reviewer approved.
Gate == INSTANCE ReviewGate WITH reviewed <- row

ImplementsGate == Gate!Spec
=============================================================================
