---------------------------- MODULE BulkImportProofs ----------------------------
(***************************************************************************)
(* Theorems about BulkImport, for any number of jobs, processes, rows and  *)
(* crashes.                                                                *)
(***************************************************************************)
EXTENDS BulkImport, FiniteSetTheorems, WellFoundedInduction, TLAPS

-----------------------------------------------------------------------------
(* Rows *)

\* Min returns a row of a set of rows, the first.
LEMMA LeastRow ==
    ASSUME NEW S \in SUBSET Nat, S # {}
    PROVE  /\ Min(S) \in S
           /\ \A n \in S : Min(S) <= n
<1>1. PICK m \in S : \A n \in S : ~ (<<n, m>> \in OpToRel(<, Nat))
  BY NatLessThanWellFounded, WFMin
<1>2. \A n \in S : ~ (n < m)
  BY <1>1, Zenon DEF OpToRel
<1>3. \A n \in S : m <= n
  BY <1>2
<1> QED
  BY <1>3 DEF Min

\* Max returns a row of a set of rows, the last.
LEMMA GreatestRow ==
    ASSUME NEW N \in Nat, NEW S \in SUBSET (1 .. N), S # {}
    PROVE  /\ Max(S) \in S
           /\ \A n \in S : n <= Max(S)
<1> DEFINE R == {i \in Nat : \E n \in S : i = N - n}
<1>1. R # {}
  <2>1. PICK n \in S : TRUE
    OBVIOUS
  <2>2. N - n \in Nat
    OBVIOUS
  <2> QED
    BY <2>1, <2>2
<1>2. Min(R) \in R /\ \A n \in R : Min(R) <= n
  <2>1. R \in SUBSET Nat
    OBVIOUS
  <2> HIDE DEF R
  <2> QED
    BY <1>1, <2>1, LeastRow
<1>3. PICK m \in S : Min(R) = N - m
  BY <1>2
<1>4. \A n \in S : N - n \in R
  OBVIOUS
<1>5. \A n \in S : n <= m
  BY <1>2, <1>3, <1>4
<1> QED
  BY <1>5 DEF Max

-----------------------------------------------------------------------------
(* Types, and what holds at each statement of a worker *)

WorkFacts(p) ==
    LET w == work[p]
    IN  /\ w.pc = "idle" => w.job = None
        /\ w.job = None => w.pc \in {"idle", "dead"} /\ w.batch = {}
        /\ p \notin scope.procs => w.pc = "idle"
        /\ w.pc \in {"claimed", "open", "snapshot", "set_snapshot", "status",
                     "finish_check", "finish"} => w.batch = {}
        /\ w.pc \in {"check", "flush", "record", "checkpoint"} =>
              /\ w.batch # {}
              /\ Cardinality(w.batch) = BatchSize \/ w.todo = {}
        /\ w.pc \in {"row", "bad_record", "bad_checkpoint"} =>
              Cardinality(w.batch) < BatchSize
        /\ w.pc \in {"finish_check", "finish"} => w.todo = {}
        /\ w.pc \in {"snapshot", "set_snapshot"} => ~ IsRetry(w.job)
        /\ w.pc \in {"bad_record", "bad_checkpoint"} => w.cursor \in Bad
        /\ w.job # None => job[w.job].status # "none"

TypeInv == TypeOK /\ \A p \in Procs : WorkFacts(p)

\* No step takes back a job, changes the parent of one, or forgets a row.
Grows ==
    \A j \in Jobs :
        /\ job[j].status # "none" => /\ job'[j].status # "none"
                                     /\ job'[j].parent = job[j].parent
        /\ written[j] \subseteq written'[j]
        /\ Failed(j) \subseteq Failed(j)'

\* The deployment: rows are numbers, their sets are finite.
LEMMA ScopeFacts ==
    ASSUME TypeOK
    PROVE  /\ scope.procs \subseteq Procs
           /\ SourceRows \in Nat
           /\ Rows \subseteq Nat
           /\ Bad \subseteq Rows
           /\ MaxCrashes \in Nat
           /\ IsFiniteSet(Rows)
           /\ \A S \in SUBSET Rows : /\ IsFiniteSet(S)
                                     /\ Cardinality(S) \in Nat
                                     /\ Cardinality(S) = 0 <=> S = {}
<1>1. SourceRows \in Nat /\ MaxCrashes \in Nat /\ scope.procs \subseteq Procs /\ Bad \subseteq Rows
  BY JobAssumption DEF TypeOK, SourceRows, MaxCrashes, Bad, Rows
<1>2. Rows \subseteq Nat /\ IsFiniteSet(Rows)
  BY <1>1, FS_Interval DEF Rows
<1>3. ASSUME NEW S \in SUBSET Rows
      PROVE  /\ IsFiniteSet(S)
             /\ Cardinality(S) \in Nat
             /\ Cardinality(S) = 0 <=> S = {}
  BY <1>2, FS_Subset, FS_CardinalityType, FS_EmptySet
<1> QED
  BY <1>1, <1>2, <1>3

\* The first and the last row of a set of rows.
LEMMA RowFacts ==
    ASSUME TypeOK
    PROVE  \A S \in SUBSET Rows : S # {} => /\ Min(S) \in S /\ \A n \in S : Min(S) <= n
                                            /\ Max(S) \in S /\ \A n \in S : n <= Max(S)
BY ScopeFacts, LeastRow, GreatestRow DEF Rows

\* A batch grows by one row.
LEMMA BatchGrows ==
    ASSUME TypeOK, NEW S \in SUBSET Rows, NEW r \in Rows
    PROVE  Cardinality(S \cup {r}) = IF r \in S THEN Cardinality(S) ELSE Cardinality(S) + 1
BY ScopeFacts, FS_AddElement

\* record_failure records the row and forgets none.
LEMMA FailureRows ==
    ASSUME TypeOK, NEW j \in Jobs, NEW r \in Rows, NEW b \in BOOLEAN,
           failures' = [failures EXCEPT ![j] = WithFailure(j, r, b)]
    PROVE  /\ failures' \in [Jobs -> SUBSET [row : Rows, retryable : BOOLEAN]]
           /\ \A k \in Jobs : Failed(k) \subseteq Failed(k)'
           /\ r \in Failed(j)'
<1>1. WithFailure(j, r, b) \in SUBSET [row : Rows, retryable : BOOLEAN]
  BY DEF TypeOK, WithFailure
<1>2. \A k \in Jobs : failures'[k] = IF k = j THEN WithFailure(j, r, b) ELSE failures[k]
  BY DEF TypeOK
<1>3. [row |-> r, retryable |-> b] \in failures'[j]
  <2>1. failures'[j] = WithFailure(j, r, b)
    BY <1>2
  <2>2. [row |-> r, retryable |-> b] \in WithFailure(j, r, b)
    BY Zenon DEF WithFailure
  <2> QED
    BY <2>1, <2>2, Zenon
<1>4. ASSUME NEW k \in Jobs, NEW f \in failures[k]
      PROVE  \E g \in failures'[k] : g.row = f.row
  <2>1. CASE k = j /\ f.row = r
    BY <1>3, <2>1
  <2>2. CASE k = j /\ f.row # r
    BY <1>2, <2>2 DEF WithFailure
  <2>3. CASE k # j
    BY <1>2, <2>3
  <2> QED
    BY <2>1, <2>2, <2>3
<1>5. failures' \in [Jobs -> SUBSET [row : Rows, retryable : BOOLEAN]]
  BY <1>1 DEF TypeOK
<1>6. r \in Failed(j)'
  BY <1>3 DEF Failed
<1> QED
  BY <1>4, <1>5, <1>6 DEF Failed

\* Frame keeps what holds at each statement.
LEMMA TypeFrame ==
    ASSUME TypeInv, NEW p \in Procs, scope' = scope,
           work' \in [Procs -> WorkState],
           \A q \in Procs \ {p} : work'[q] = work[q],
           job' \in [Jobs -> JobRow],
           \A j \in Jobs : job[j].status # "none" => /\ job'[j].status # "none"
                                                     /\ job'[j].parent = job[j].parent,
           failures' \in [Jobs -> SUBSET [row : Rows, retryable : BOOLEAN]],
           written' \in [Jobs -> SUBSET Rows],
           catalogs' \subseteq Catalogs, crashes' \in 0 .. MaxCrashes,
           WorkFacts(p)'
    PROVE  TypeInv'
<1>1. TypeOK'
  BY DEF TypeInv, TypeOK, WorkState, Rows, SourceRows, MaxCrashes
<1>2. ASSUME NEW q \in Procs, q # p PROVE WorkFacts(q)'
  <2>1. WorkFacts(q) /\ work'[q] = work[q] /\ work[q] \in WorkState
    BY <1>2 DEF TypeInv, TypeOK
  <2>2. work[q].job # None => work[q].job \in Jobs
    BY <2>1 DEF WorkState
  <2> QED
    BY <2>1, <2>2, NoneApart DEF WorkFacts, IsRetry, Bad
<1> QED
  BY <1>1, <1>2 DEF TypeInv

\* What a worker's step leaves to show: its own local variables, and the tables.
LEMMA TypeEnough ==
    ASSUME TypeInv, NEW p \in Procs, scope' = scope,
           work' \in [Procs -> WorkState],
           \A q \in Procs \ {p} : work'[q] = work[q],
           job' \in [Jobs -> JobRow],
           failures' \in [Jobs -> SUBSET [row : Rows, retryable : BOOLEAN]],
           written' \in [Jobs -> SUBSET Rows],
           catalogs' \subseteq Catalogs, crashes' \in 0 .. MaxCrashes,
           WorkFacts(p)', Grows
    PROVE  TypeInv' /\ Grows
BY TypeFrame DEF Grows

\* A step that leaves the tables alone.
LEMMA SameTables ==
    ASSUME TypeOK, UNCHANGED <<job, failures, written>>
    PROVE  /\ job' \in [Jobs -> JobRow]
           /\ failures' \in [Jobs -> SUBSET [row : Rows, retryable : BOOLEAN]]
           /\ written' \in [Jobs -> SUBSET Rows]
           /\ Grows
BY DEF TypeOK, Grows, Failed

\* A step that writes one row of candidate_import_jobs.
LEMMA JobWritten ==
    ASSUME TypeOK, NEW j \in Jobs, NEW r \in JobRow,
           job' = [job EXCEPT ![j] = r],
           job[j].status # "none" => r.status # "none" /\ r.parent = job[j].parent,
           UNCHANGED <<failures, written>>
    PROVE  /\ job' \in [Jobs -> JobRow]
           /\ failures' \in [Jobs -> SUBSET [row : Rows, retryable : BOOLEAN]]
           /\ written' \in [Jobs -> SUBSET Rows]
           /\ Grows
BY DEF TypeOK, Grows, Failed

\* What a running worker has in hand.
LEMMA InHand ==
    ASSUME TypeInv, NEW p \in scope.procs
    PROVE  /\ TypeOK /\ WorkFacts(p) /\ p \in Procs
           /\ work[p] \in WorkState
           /\ work[p].pc \notin {"idle", "dead"} \/ work[p].job # None =>
              work[p].job \in Jobs /\ job[work[p].job] \in JobRow
           /\ work \in [Procs -> WorkState] /\ job \in [Jobs -> JobRow]
<1>1. TypeOK /\ p \in Procs /\ WorkFacts(p)
  BY ScopeFacts DEF TypeInv
<1>2. work[p] \in WorkState /\ work \in [Procs -> WorkState] /\ job \in [Jobs -> JobRow]
  BY <1>1 DEF TypeOK
<1>3. work[p].pc \notin {"idle", "dead"} \/ work[p].job # None => work[p].job \in Jobs
  BY <1>1, <1>2 DEF WorkFacts, WorkState
<1> QED
  BY <1>1, <1>2, <1>3

\* What a worker writes has its type when its new local variables have.
LEMMA WorkWritten ==
    ASSUME TypeOK, NEW p \in Procs, NEW w \in WorkState,
           work' = [work EXCEPT ![p] = w]
    PROVE  /\ work' \in [Procs -> WorkState]
           /\ work'[p] = w
           /\ \A q \in Procs \ {p} : work'[q] = work[q]
BY DEF TypeOK

\* The local variables that a worker counts in.
LEMMA CountsWritten ==
    ASSUME NEW w \in WorkState, NEW n \in Nat, NEW c \in Nat, NEW b \in BOOLEAN,
           NEW pc \in WorkPcs, NEW S \in SUBSET Rows, NEW B \in SUBSET Rows
    PROVE  /\ [w EXCEPT !.pc = pc, !.ok = n, !.cursor = c] \in WorkState
           /\ [w EXCEPT !.pc = pc, !.bad = n, !.cursor = c, !.stop = b] \in WorkState
           /\ [w EXCEPT !.pc = pc, !.todo = S, !.cursor = c, !.bad = n] \in WorkState
           /\ [w EXCEPT !.todo = S, !.batch = B, !.pc = pc] \in WorkState
BY DEF WorkState

\* The statement a worker is at changes alone.
LEMMA StepWritten ==
    ASSUME TypeOK, NEW p \in Procs, NEW pc \in WorkPcs, Step(p, pc)
    PROVE  /\ work' \in [Procs -> WorkState]
           /\ work'[p] = [work[p] EXCEPT !.pc = pc]
           /\ \A q \in Procs \ {p} : work'[q] = work[q]
<1>1. [work[p] EXCEPT !.pc = pc] \in WorkState
  BY DEF TypeOK, WorkState
<1> QED
  BY <1>1 DEF Step, TypeOK

\* A worker that stops is idle.
LEMMA QuitWritten ==
    ASSUME TypeOK, NEW p \in Procs, Quit(p)
    PROVE  /\ work' \in [Procs -> WorkState]
           /\ work'[p] = NoWork
           /\ \A q \in Procs \ {p} : work'[q] = work[q]
<1>1. NoWork \in WorkState
  BY DEF NoWork, WorkState, WorkPcs
<1> QED
  BY <1>1 DEF Quit, TypeOK

\* The ways a worker leaves the head of its loop.
LEMMA ReadRowCases ==
    ASSUME NEW p, ReadRow(p)
    PROVE  \/ Quit(p)
           \/ Step(p, "fail")
           \/ /\ Min(work[p].todo) \in Bad
              /\ work' = [work EXCEPT ![p] =
                    [work[p] EXCEPT !.pc = "bad_record", !.todo = work[p].todo \ {Min(work[p].todo)},
                              !.cursor = Min(work[p].todo), !.bad = work[p].bad + 1]]
           \/ \E pc \in {"row", "flush", "check"} :
                /\ pc = "row" <=> Cardinality(work[p].batch \cup {Min(work[p].todo)}) < BatchSize
                /\ work' = [work EXCEPT ![p] =
                      [work[p] EXCEPT !.todo = work[p].todo \ {Min(work[p].todo)},
                                !.batch = work[p].batch \cup {Min(work[p].todo)}, !.pc = pc]]
BY DEF ReadRow

\* What is known once a failed batch is recorded.
LEMMA RecordedCase ==
    ASSUME NEW p, BatchRecorded(p)
    PROVE  \E b \in BOOLEAN : work' = [work EXCEPT ![p] =
             [work[p] EXCEPT !.pc = "checkpoint",
                             !.bad = work[p].bad + Cardinality(work[p].batch),
                             !.cursor = NextCursor(p), !.stop = b]]
<1>1. PICK b \in BOOLEAN : b <=> OnError[work[p].job] = "stop"
  OBVIOUS
<1> QED
  BY <1>1 DEF BatchRecorded

\* Claim keeps what holds at each statement.
LEMMA TypeClaim ==
    ASSUME TypeInv, NEW p \in scope.procs, Claim(p), scope' = scope
    PROVE  TypeInv' /\ Grows
<1>0. /\ TypeOK /\ WorkFacts(p) /\ p \in Procs
      /\ work[p] \in WorkState
      /\ work[p].pc \notin {"idle", "dead"} \/ work[p].job # None =>
              work[p].job \in Jobs /\ job[work[p].job] \in JobRow
      /\ work \in [Procs -> WorkState] /\ job \in [Jobs -> JobRow]
  BY InHand
<1>c. PICK j \in Jobs :
        /\ job' = [job EXCEPT ![j] = [@ EXCEPT !.status = "running",
                                              !.worker = p, !.lease = "live"]]
        /\ work' = [work EXCEPT ![p] = [NoWork EXCEPT !.pc = "claimed", !.job = j]]
        /\ UNCHANGED <<failures, written, catalogs, crashes>>
  BY DEF Claim
<1>1. /\ work' \in [Procs -> WorkState]
      /\ \A q \in Procs \ {p} : work'[q] = work[q]
  <2>1. [NoWork EXCEPT !.pc = "claimed", !.job = j] \in WorkState
    BY <1>c DEF NoWork, WorkState, WorkPcs
  <2> QED
    BY <1>0, <1>c, <2>1, WorkWritten
<1>2. /\ job' \in [Jobs -> JobRow]
      /\ failures' \in [Jobs -> SUBSET [row : Rows, retryable : BOOLEAN]]
      /\ written' \in [Jobs -> SUBSET Rows]
      /\ Grows
  <2>1. [job[j] EXCEPT !.status = "running", !.worker = p, !.lease = "live"] \in JobRow
    BY <1>0, <1>c DEF JobRow, JobStatus
  <2>2. /\ [job[j] EXCEPT !.status = "running", !.worker = p, !.lease = "live"].status = "running"
        /\ [job[j] EXCEPT !.status = "running", !.worker = p, !.lease = "live"].parent = job[j].parent
    BY <1>0, <1>c DEF JobRow
  <2> QED
    BY <1>0, <1>c, <2>1, <2>2, JobWritten
<1>3. WorkFacts(p)'
  BY <1>0, <1>2, <1>c, NoneApart DEF Grows, JobRow, NoWork, WorkState, WorkFacts, IsRetry, Bad
<1> QED
  BY <1>0, <1>1, <1>2, <1>3, TypeEnough DEF Claim, TypeOK

\* ReadJob keeps what holds at each statement.
LEMMA TypeReadJob ==
    ASSUME TypeInv, NEW p \in scope.procs, ReadJob(p), scope' = scope
    PROVE  TypeInv' /\ Grows
<1>0. /\ TypeOK /\ WorkFacts(p) /\ p \in Procs
      /\ work[p] \in WorkState
      /\ work[p].pc \notin {"idle", "dead"} \/ work[p].job # None =>
              work[p].job \in Jobs /\ job[work[p].job] \in JobRow
      /\ work \in [Procs -> WorkState] /\ job \in [Jobs -> JobRow]
  BY InHand
<1>1. /\ work' \in [Procs -> WorkState]
      /\ \A q \in Procs \ {p} : work'[q] = work[q]
  <2>1. CASE IsRetry(work[p].job)
    <3>1. job[work[p].job].parent \in Jobs /\ Retryable(job[work[p].job].parent) \subseteq Rows
      BY <1>0, <2>1 DEF ReadJob, IsRetry, JobRow, Retryable, TypeOK
    <3>2. [work[p] EXCEPT !.pc = "open", !.todo = Retryable(job[work[p].job].parent)] \in WorkState
      BY <1>0, <3>1 DEF WorkState, WorkPcs
    <3> QED
      BY <1>0, <2>1, <3>2, WorkWritten DEF ReadJob
  <2>2. CASE ~ IsRetry(work[p].job)
    <3>1. [work[p] EXCEPT !.pc = "open", !.cursor = job[work[p].job].cursor,
                 !.todo = {n \in Rows : n > job[work[p].job].cursor},
                 !.ok = job[work[p].job].ok, !.bad = job[work[p].job].bad,
                 !.snap = job[work[p].job].snap] \in WorkState
      BY <1>0 DEF ReadJob, JobRow, WorkState, WorkPcs
    <3> QED
      BY <1>0, <2>2, <3>1, WorkWritten DEF ReadJob
  <2> QED
    BY <2>1, <2>2
<1>2. /\ job' \in [Jobs -> JobRow]
      /\ failures' \in [Jobs -> SUBSET [row : Rows, retryable : BOOLEAN]]
      /\ written' \in [Jobs -> SUBSET Rows]
      /\ Grows
  BY <1>0, SameTables DEF ReadJob
<1>3. WorkFacts(p)'
  BY <1>0, <1>2, NoneApart DEF ReadJob, Grows, WorkState, WorkFacts, IsRetry, Bad
<1> QED
  BY <1>0, <1>1, <1>2, <1>3, TypeEnough DEF ReadJob, TypeOK

\* OpenJob keeps what holds at each statement.
LEMMA TypeOpenJob ==
    ASSUME TypeInv, NEW p \in scope.procs, OpenJob(p), scope' = scope
    PROVE  TypeInv' /\ Grows
<1>0. /\ TypeOK /\ WorkFacts(p) /\ p \in Procs
      /\ work[p] \in WorkState
      /\ work[p].pc \notin {"idle", "dead"} \/ work[p].job # None =>
              work[p].job \in Jobs /\ job[work[p].job] \in JobRow
      /\ work \in [Procs -> WorkState] /\ job \in [Jobs -> JobRow]
  BY InHand
<1>1. /\ work' \in [Procs -> WorkState]
      /\ \A q \in Procs \ {p} : work'[q] = work[q]
  BY <1>0, StepWritten DEF OpenJob, WorkPcs
<1>2. /\ job' \in [Jobs -> JobRow]
      /\ failures' \in [Jobs -> SUBSET [row : Rows, retryable : BOOLEAN]]
      /\ written' \in [Jobs -> SUBSET Rows]
      /\ Grows
  <2>1. [job[work[p].job] EXCEPT !.lease = "live"] \in JobRow
    BY <1>0 DEF OpenJob, JobRow
  <2>2. /\ [job[work[p].job] EXCEPT !.lease = "live"].status = job[work[p].job].status
        /\ [job[work[p].job] EXCEPT !.lease = "live"].parent = job[work[p].job].parent
    BY <1>0 DEF OpenJob, JobRow
  <2>3. CASE job' = job
    BY <1>0, <2>3, SameTables DEF OpenJob
  <2>4. CASE job' = [job EXCEPT ![work[p].job].lease = "live"]
    BY <1>0, <2>1, <2>2, <2>4, JobWritten DEF OpenJob
  <2> QED
    BY <2>3, <2>4 DEF OpenJob
<1>3. WorkFacts(p)'
  <2>1. \A pc \in WorkPcs : Step(p, pc) => work'[p] = [work[p] EXCEPT !.pc = pc]
    BY <1>0, StepWritten
  <2>2. PICK pc \in {"dead", "row", "snapshot"} :
          /\ work'[p] = [work[p] EXCEPT !.pc = pc]
          /\ pc = "snapshot" => ~ IsRetry(work[p].job)
    BY <2>1 DEF OpenJob, WorkPcs
  <2>3. work[p].pc = "open" /\ work[p].job \in Jobs /\ work[p].batch = {}
    BY <1>0 DEF OpenJob, WorkFacts
  <2>4. IsRetry(work[p].job)' <=> IsRetry(work[p].job)
    BY <1>0, <1>2, <2>2, <2>3, NoneApart DEF Grows, WorkFacts, WorkState, IsRetry
  <2>5. Cardinality({}) < BatchSize
    BY JobAssumption, FS_EmptySet
  <2> QED
    BY <1>0, <1>2, <2>2, <2>3, <2>4, <2>5, NoneApart DEF Grows, WorkState, WorkFacts, Bad,
       IsRetry
<1> QED
  BY <1>0, <1>1, <1>2, <1>3, TypeEnough DEF OpenJob, TypeOK

\* TakeSnapshot keeps what holds at each statement.
LEMMA TypeTakeSnapshot ==
    ASSUME TypeInv, NEW p \in scope.procs, TakeSnapshot(p), scope' = scope
    PROVE  TypeInv' /\ Grows
<1>0. /\ TypeOK /\ WorkFacts(p) /\ p \in Procs
      /\ work[p] \in WorkState
      /\ work[p].pc \notin {"idle", "dead"} \/ work[p].job # None =>
              work[p].job \in Jobs /\ job[work[p].job] \in JobRow
      /\ work \in [Procs -> WorkState] /\ job \in [Jobs -> JobRow]
  BY InHand
<1>1. /\ work' \in [Procs -> WorkState]
      /\ \A q \in Procs \ {p} : work'[q] = work[q]
  BY <1>0, NoneApart DEF TakeSnapshot, TypeOK, WorkState, WorkPcs, JobRow
<1>2. /\ job' \in [Jobs -> JobRow]
      /\ failures' \in [Jobs -> SUBSET [row : Rows, retryable : BOOLEAN]]
      /\ written' \in [Jobs -> SUBSET Rows]
      /\ Grows
  BY <1>0, SameTables DEF TakeSnapshot
<1>3. WorkFacts(p)'
  BY <1>0, <1>2, NoneApart DEF TakeSnapshot, Grows, WorkState, WorkFacts, IsRetry, Bad
<1> QED
  BY <1>0, <1>1, <1>2, <1>3, TypeEnough DEF TakeSnapshot, TypeOK

\* SetSnapshot keeps what holds at each statement.
LEMMA TypeSetSnapshot ==
    ASSUME TypeInv, NEW p \in scope.procs, SetSnapshot(p), scope' = scope
    PROVE  TypeInv' /\ Grows
<1>0. /\ TypeOK /\ WorkFacts(p) /\ p \in Procs
      /\ work[p] \in WorkState
      /\ work[p].pc \notin {"idle", "dead"} \/ work[p].job # None =>
              work[p].job \in Jobs /\ job[work[p].job] \in JobRow
      /\ work \in [Procs -> WorkState] /\ job \in [Jobs -> JobRow]
  BY InHand
<1>1. /\ work' \in [Procs -> WorkState]
      /\ \A q \in Procs \ {p} : work'[q] = work[q]
  BY <1>0, StepWritten DEF SetSnapshot, WorkPcs
<1>2. /\ job' \in [Jobs -> JobRow]
      /\ failures' \in [Jobs -> SUBSET [row : Rows, retryable : BOOLEAN]]
      /\ written' \in [Jobs -> SUBSET Rows]
      /\ Grows
  BY <1>0, <1>1 DEF SetSnapshot, JobRow, JobStatus, WorkState, Grows, TypeOK, Failed
<1>3. WorkFacts(p)'
  <2>1. work'[p] = [work[p] EXCEPT !.pc = "row"]
    BY <1>0, StepWritten DEF SetSnapshot, WorkPcs
  <2>2. work[p].pc = "set_snapshot" /\ work[p].job \in Jobs /\ work[p].batch = {}
    BY <1>0 DEF SetSnapshot, WorkFacts
  <2>3. Cardinality({}) < BatchSize
    BY JobAssumption, FS_EmptySet
  <2> QED
    BY <1>0, <1>2, <2>1, <2>2, <2>3, NoneApart DEF Grows, WorkState, WorkFacts
<1> QED
  BY <1>0, <1>1, <1>2, <1>3, TypeEnough DEF SetSnapshot, TypeOK

\* ReadRow keeps what holds at each statement.
LEMMA TypeReadRow ==
    ASSUME TypeInv, NEW p \in scope.procs, ReadRow(p), scope' = scope
    PROVE  TypeInv' /\ Grows
<1>0. /\ TypeOK /\ WorkFacts(p) /\ p \in Procs
      /\ work[p] \in WorkState
      /\ work[p].pc \notin {"idle", "dead"} \/ work[p].job # None =>
              work[p].job \in Jobs /\ job[work[p].job] \in JobRow
      /\ work \in [Procs -> WorkState] /\ job \in [Jobs -> JobRow]
  BY InHand
<1>r. /\ work[p].pc = "row" /\ work[p].todo # {}
      /\ Min(work[p].todo) \in work[p].todo /\ work[p].todo \subseteq Rows
      /\ work[p].batch \subseteq Rows /\ Rows \subseteq Nat
  BY <1>0, RowFacts, ScopeFacts DEF ReadRow, WorkState
<1>s. /\ Min(work[p].todo) \in Rows /\ Min(work[p].todo) \in Nat
      /\ work[p].todo \ {Min(work[p].todo)} \in SUBSET Rows
      /\ work[p].batch \cup {Min(work[p].todo)} \in SUBSET Rows
  BY <1>r
<1>w. \/ Quit(p)
      \/ Step(p, "fail")
      \/ /\ Min(work[p].todo) \in Bad
         /\ work' = [work EXCEPT ![p] =
               [work[p] EXCEPT !.pc = "bad_record", !.todo = work[p].todo \ {Min(work[p].todo)},
                         !.cursor = Min(work[p].todo), !.bad = work[p].bad + 1]]
      \/ \E pc \in {"row", "flush", "check"} :
           /\ pc = "row" <=> Cardinality(work[p].batch \cup {Min(work[p].todo)}) < BatchSize
           /\ work' = [work EXCEPT ![p] =
                 [work[p] EXCEPT !.todo = work[p].todo \ {Min(work[p].todo)},
                           !.batch = work[p].batch \cup {Min(work[p].todo)}, !.pc = pc]]
  BY ReadRowCases
<1>1. /\ work' \in [Procs -> WorkState]
      /\ \A q \in Procs \ {p} : work'[q] = work[q]
  <2>1. CASE Quit(p)
    BY <1>0, <2>1, QuitWritten
  <2>2. CASE Step(p, "fail")
    BY <1>0, <2>2, StepWritten DEF WorkPcs
  <2>3. CASE work' = [work EXCEPT ![p] =
               [work[p] EXCEPT !.pc = "bad_record", !.todo = work[p].todo \ {Min(work[p].todo)},
                         !.cursor = Min(work[p].todo), !.bad = work[p].bad + 1]]
    <3>1. [work[p] EXCEPT !.pc = "bad_record", !.todo = work[p].todo \ {Min(work[p].todo)},
                         !.cursor = Min(work[p].todo), !.bad = work[p].bad + 1] \in WorkState
      <4>1. work[p].bad + 1 \in Nat /\ Min(work[p].todo) \in Nat
        BY <1>0, <1>s DEF WorkState
      <4> QED
        BY <1>0, <1>s, <4>1, CountsWritten DEF WorkPcs
    <3> QED
      BY <1>0, <2>3, <3>1, WorkWritten
  <2>4. ASSUME NEW pc \in {"row", "flush", "check"},
               work' = [work EXCEPT ![p] =
                 [work[p] EXCEPT !.todo = work[p].todo \ {Min(work[p].todo)},
                           !.batch = work[p].batch \cup {Min(work[p].todo)}, !.pc = pc]]
        PROVE  /\ work' \in [Procs -> WorkState]
               /\ \A q \in Procs \ {p} : work'[q] = work[q]
    <3>1. [work[p] EXCEPT !.todo = work[p].todo \ {Min(work[p].todo)},
                           !.batch = work[p].batch \cup {Min(work[p].todo)}, !.pc = pc]
             \in WorkState
      <4>1. pc \in WorkPcs
        BY DEF WorkPcs
      <4>2. [work[p] EXCEPT !.todo = work[p].todo \ {Min(work[p].todo)},
                            !.batch = work[p].batch \cup {Min(work[p].todo)}, !.pc = pc]
               \in WorkState
        BY <1>0, <1>s, <4>1 DEF WorkState
      <4> QED
        BY <4>2
    <3> QED
      BY <1>0, <2>4, <3>1, WorkWritten
  <2> QED
    BY <1>w, <2>1, <2>2, <2>3, <2>4
<1>2. /\ job' \in [Jobs -> JobRow]
      /\ failures' \in [Jobs -> SUBSET [row : Rows, retryable : BOOLEAN]]
      /\ written' \in [Jobs -> SUBSET Rows]
      /\ Grows
  BY <1>0, SameTables DEF ReadRow
<1>3. WorkFacts(p)'
  <2>1. CASE Quit(p)
    BY <1>0, <2>1, QuitWritten, NoneApart DEF NoWork, WorkFacts
  <2>2. CASE Step(p, "fail")
    <3>1. work'[p] = [work[p] EXCEPT !.pc = "fail"] /\ work[p].job \in Jobs
      BY <1>0, <1>r, <2>2, StepWritten DEF WorkPcs
    <3> QED
      BY <1>0, <1>2, <1>r, <3>1, NoneApart DEF WorkFacts, WorkState, Grows
  <2>3. CASE Min(work[p].todo) \in Bad /\ work' = [work EXCEPT ![p] =
               [work[p] EXCEPT !.pc = "bad_record", !.todo = work[p].todo \ {Min(work[p].todo)},
                         !.cursor = Min(work[p].todo), !.bad = work[p].bad + 1]]
    BY <1>0, <1>2, <1>r, <2>3, NoneApart DEF WorkFacts, WorkState, Grows, Bad
  <2>4. ASSUME NEW pc \in {"row", "flush", "check"},
               pc = "row" <=> Cardinality(work[p].batch \cup {Min(work[p].todo)}) < BatchSize,
               work' = [work EXCEPT ![p] =
                 [work[p] EXCEPT !.todo = work[p].todo \ {Min(work[p].todo)},
                           !.batch = work[p].batch \cup {Min(work[p].todo)}, !.pc = pc]]
        PROVE  WorkFacts(p)'
    <3>1. /\ Cardinality(work[p].batch) < BatchSize
          /\ Cardinality(work[p].batch) \in Nat
          /\ Cardinality(work[p].batch \cup {Min(work[p].todo)}) \in Nat
          /\ Cardinality(work[p].batch \cup {Min(work[p].todo)})
                <= Cardinality(work[p].batch) + 1
      <4>1. Min(work[p].todo) \in Rows /\ work[p].batch \cup {Min(work[p].todo)} \subseteq Rows
        BY <1>r
      <4>2. Cardinality(work[p].batch) \in Nat
        BY <1>0, <1>r, ScopeFacts
      <4>3. Cardinality(work[p].batch \cup {Min(work[p].todo)}) \in Nat
        BY <1>0, <4>1, ScopeFacts
      <4>4. Cardinality(work[p].batch \cup {Min(work[p].todo)})
              <= Cardinality(work[p].batch) + 1
        <5>1. /\ work[p].batch \in SUBSET Rows
              /\ Cardinality(work[p].batch \cup {Min(work[p].todo)}) =
                    IF Min(work[p].todo) \in work[p].batch THEN Cardinality(work[p].batch)
                    ELSE Cardinality(work[p].batch) + 1
          BY <1>0, <1>r, <1>s, BatchGrows
        <5> QED
          BY <4>2, <5>1
      <4> QED
        BY <1>0, <1>r, <4>2, <4>3, <4>4 DEF WorkFacts
    <3>2. pc # "row" => Cardinality(work[p].batch \cup {Min(work[p].todo)}) = BatchSize
      BY <2>4, <3>1, JobAssumption
    <3> QED
      BY <1>0, <1>2, <1>r, <2>4, <3>2, NoneApart DEF WorkFacts, WorkState, Grows
  <2> QED
    BY <1>w, <2>1, <2>2, <2>3, <2>4
<1> QED
  BY <1>0, <1>1, <1>2, <1>3, TypeEnough DEF ReadRow, TypeOK

\* EndOfSource keeps what holds at each statement.
LEMMA TypeEndOfSource ==
    ASSUME TypeInv, NEW p \in scope.procs, EndOfSource(p), scope' = scope
    PROVE  TypeInv' /\ Grows
<1>0. /\ TypeOK /\ WorkFacts(p) /\ p \in Procs
      /\ work[p] \in WorkState
      /\ work[p].pc \notin {"idle", "dead"} \/ work[p].job # None =>
              work[p].job \in Jobs /\ job[work[p].job] \in JobRow
      /\ work \in [Procs -> WorkState] /\ job \in [Jobs -> JobRow]
  BY InHand
<1>1. /\ work' \in [Procs -> WorkState]
      /\ \A q \in Procs \ {p} : work'[q] = work[q]
  BY <1>0, StepWritten DEF EndOfSource, WorkPcs
<1>2. /\ job' \in [Jobs -> JobRow]
      /\ failures' \in [Jobs -> SUBSET [row : Rows, retryable : BOOLEAN]]
      /\ written' \in [Jobs -> SUBSET Rows]
      /\ Grows
  BY <1>0, SameTables DEF EndOfSource
<1>3. WorkFacts(p)'
  BY <1>0, <1>2, NoneApart DEF EndOfSource, Grows, Step, WorkState, WorkFacts, IsRetry, Bad
<1> QED
  BY <1>0, <1>1, <1>2, <1>3, TypeEnough DEF EndOfSource, TypeOK

\* BadRecord keeps what holds at each statement.
LEMMA TypeBadRecord ==
    ASSUME TypeInv, NEW p \in scope.procs, BadRecord(p), scope' = scope
    PROVE  TypeInv' /\ Grows
<1>0. /\ TypeOK /\ WorkFacts(p) /\ p \in Procs
      /\ work[p] \in WorkState
      /\ work[p].pc \notin {"idle", "dead"} \/ work[p].job # None =>
              work[p].job \in Jobs /\ job[work[p].job] \in JobRow
      /\ work \in [Procs -> WorkState] /\ job \in [Jobs -> JobRow]
  BY InHand
<1>1. /\ work' \in [Procs -> WorkState]
      /\ \A q \in Procs \ {p} : work'[q] = work[q]
  BY <1>0, StepWritten, ScopeFacts DEF BadRecord, WorkPcs
<1>2. /\ job' \in [Jobs -> JobRow]
      /\ failures' \in [Jobs -> SUBSET [row : Rows, retryable : BOOLEAN]]
      /\ written' \in [Jobs -> SUBSET Rows]
      /\ Grows
  BY <1>0, FailureRows, ScopeFacts DEF BadRecord, Grows, TypeOK, WorkFacts
<1>3. WorkFacts(p)'
  BY <1>0, <1>2, ScopeFacts, NoneApart DEF BadRecord, Grows, Step, WorkState, WorkFacts,
     IsRetry, Bad
<1> QED
  BY <1>0, <1>1, <1>2, <1>3, TypeEnough DEF BadRecord, TypeOK

\* BadCheckpoint keeps what holds at each statement.
LEMMA TypeBadCheckpoint ==
    ASSUME TypeInv, NEW p \in scope.procs, BadCheckpoint(p), scope' = scope
    PROVE  TypeInv' /\ Grows
<1>0. /\ TypeOK /\ WorkFacts(p) /\ p \in Procs
      /\ work[p] \in WorkState
      /\ work[p].pc \notin {"idle", "dead"} \/ work[p].job # None =>
              work[p].job \in Jobs /\ job[work[p].job] \in JobRow
      /\ work \in [Procs -> WorkState] /\ job \in [Jobs -> JobRow]
  BY InHand
<1>1. /\ work' \in [Procs -> WorkState]
      /\ \A q \in Procs \ {p} : work'[q] = work[q]
  BY <1>0, StepWritten DEF BadCheckpoint, WorkPcs
<1>2. /\ job' \in [Jobs -> JobRow]
      /\ failures' \in [Jobs -> SUBSET [row : Rows, retryable : BOOLEAN]]
      /\ written' \in [Jobs -> SUBSET Rows]
      /\ Grows
  BY <1>0, <1>1 DEF BadCheckpoint, SaveCounters, JobRow, JobStatus, WorkState, Grows, TypeOK,
     Failed
<1>3. WorkFacts(p)'
  BY <1>0, <1>2, NoneApart DEF BadCheckpoint, Grows, Step, WorkState, WorkFacts, IsRetry, Bad
<1> QED
  BY <1>0, <1>1, <1>2, <1>3, TypeEnough DEF BadCheckpoint, TypeOK

\* CheckCancelled keeps what holds at each statement.
LEMMA TypeCheckCancelled ==
    ASSUME TypeInv, NEW p \in scope.procs, CheckCancelled(p), scope' = scope
    PROVE  TypeInv' /\ Grows
<1>0. /\ TypeOK /\ WorkFacts(p) /\ p \in Procs
      /\ work[p] \in WorkState
      /\ work[p].pc \notin {"idle", "dead"} \/ work[p].job # None =>
              work[p].job \in Jobs /\ job[work[p].job] \in JobRow
      /\ work \in [Procs -> WorkState] /\ job \in [Jobs -> JobRow]
  BY InHand
<1>1. /\ work' \in [Procs -> WorkState]
      /\ \A q \in Procs \ {p} : work'[q] = work[q]
  BY <1>0, StepWritten, QuitWritten DEF CheckCancelled, WorkPcs
<1>2. /\ job' \in [Jobs -> JobRow]
      /\ failures' \in [Jobs -> SUBSET [row : Rows, retryable : BOOLEAN]]
      /\ written' \in [Jobs -> SUBSET Rows]
      /\ Grows
  BY <1>0, SameTables DEF CheckCancelled
<1>3. WorkFacts(p)'
  BY <1>0, <1>2, NoneApart DEF CheckCancelled, Grows, Step, Quit, NoWork, WorkState,
     WorkFacts, IsRetry, Bad
<1> QED
  BY <1>0, <1>1, <1>2, <1>3, TypeEnough DEF CheckCancelled, TypeOK

\* Flush keeps what holds at each statement.
LEMMA TypeFlush ==
    ASSUME TypeInv, NEW p \in scope.procs, Flush(p), scope' = scope
    PROVE  TypeInv' /\ Grows
<1>0. /\ TypeOK /\ WorkFacts(p) /\ p \in Procs
      /\ work[p] \in WorkState
      /\ work[p].pc \notin {"idle", "dead"} \/ work[p].job # None =>
              work[p].job \in Jobs /\ job[work[p].job] \in JobRow
      /\ work \in [Procs -> WorkState] /\ job \in [Jobs -> JobRow]
  BY InHand
<1>1. /\ work' \in [Procs -> WorkState]
      /\ \A q \in Procs \ {p} : work'[q] = work[q]
  <2>1. /\ Cardinality(work[p].batch) \in Nat
        /\ NextCursor(p) \in Nat
    BY <1>0, RowFacts, ScopeFacts DEF Flush, WorkFacts, WorkState, NextCursor
  <2>2. work[p].ok + Cardinality(work[p].batch) \in Nat
    BY <1>0, <2>1 DEF WorkState
  <2>3. [work[p] EXCEPT !.pc = "checkpoint",
                                 !.ok = work[p].ok + Cardinality(work[p].batch),
                        !.cursor = NextCursor(p)] \in WorkState
    BY <1>0, <2>1, <2>2, CountsWritten DEF WorkPcs
  <2>4. work' = [work EXCEPT ![p] =
           [work[p] EXCEPT !.pc = "checkpoint",
                                 !.ok = work[p].ok + Cardinality(work[p].batch),
                           !.cursor = NextCursor(p)]]
    BY <1>0 DEF Flush
  <2> QED
    BY <1>0, <2>3, <2>4, WorkWritten
<1>2. /\ job' \in [Jobs -> JobRow]
      /\ failures' \in [Jobs -> SUBSET [row : Rows, retryable : BOOLEAN]]
      /\ written' \in [Jobs -> SUBSET Rows]
      /\ Grows
  BY <1>0 DEF Flush, Grows, TypeOK, Failed, WorkState
<1>3. WorkFacts(p)'
  BY <1>0, <1>2, RowFacts, ScopeFacts, NoneApart DEF Flush, Grows, WorkState, WorkFacts,
     IsRetry, Bad
<1> QED
  BY <1>0, <1>1, <1>2, <1>3, TypeEnough DEF Flush, TypeOK

\* FlushFails keeps what holds at each statement.
LEMMA TypeFlushFails ==
    ASSUME TypeInv, NEW p \in scope.procs, FlushFails(p), scope' = scope
    PROVE  TypeInv' /\ Grows
<1>0. /\ TypeOK /\ WorkFacts(p) /\ p \in Procs
      /\ work[p] \in WorkState
      /\ work[p].pc \notin {"idle", "dead"} \/ work[p].job # None =>
              work[p].job \in Jobs /\ job[work[p].job] \in JobRow
      /\ work \in [Procs -> WorkState] /\ job \in [Jobs -> JobRow]
  BY InHand
<1>1. /\ work' \in [Procs -> WorkState]
      /\ \A q \in Procs \ {p} : work'[q] = work[q]
  BY <1>0, ScopeFacts, NoneApart DEF FlushFails, TypeOK, WorkState, WorkPcs, JobRow
<1>2. /\ job' \in [Jobs -> JobRow]
      /\ failures' \in [Jobs -> SUBSET [row : Rows, retryable : BOOLEAN]]
      /\ written' \in [Jobs -> SUBSET Rows]
      /\ Grows
  BY <1>0, SameTables DEF FlushFails
<1>3. WorkFacts(p)'
  BY <1>0, <1>2, ScopeFacts, NoneApart DEF FlushFails, Grows, WorkState, WorkFacts, IsRetry, Bad
<1> QED
  BY <1>0, <1>1, <1>2, <1>3, TypeEnough DEF FlushFails, TypeOK

\* RecordRow keeps what holds at each statement.
LEMMA TypeRecordRow ==
    ASSUME TypeInv, NEW p \in scope.procs, RecordRow(p), scope' = scope
    PROVE  TypeInv' /\ Grows
<1>0. /\ TypeOK /\ WorkFacts(p) /\ p \in Procs
      /\ work[p] \in WorkState
      /\ work[p].pc \notin {"idle", "dead"} \/ work[p].job # None =>
              work[p].job \in Jobs /\ job[work[p].job] \in JobRow
      /\ work \in [Procs -> WorkState] /\ job \in [Jobs -> JobRow]
  BY InHand
<1>1. /\ work' \in [Procs -> WorkState]
      /\ \A q \in Procs \ {p} : work'[q] = work[q]
  BY <1>0, RowFacts, ScopeFacts, NoneApart DEF RecordRow, TypeOK, WorkState, WorkPcs, JobRow
<1>2. /\ job' \in [Jobs -> JobRow]
      /\ failures' \in [Jobs -> SUBSET [row : Rows, retryable : BOOLEAN]]
      /\ written' \in [Jobs -> SUBSET Rows]
      /\ Grows
  <2>1. Min(work[p].left) \in Rows
    BY <1>0, RowFacts DEF RecordRow, WorkState
  <2> QED
    BY <1>0, <2>1, FailureRows DEF RecordRow, Grows, TypeOK
<1>3. WorkFacts(p)'
  BY <1>0, <1>2, RowFacts, ScopeFacts, NoneApart DEF RecordRow, Grows, WorkState, WorkFacts,
     IsRetry, Bad
<1> QED
  BY <1>0, <1>1, <1>2, <1>3, TypeEnough DEF RecordRow, TypeOK

\* BatchRecorded keeps what holds at each statement.
LEMMA TypeBatchRecorded ==
    ASSUME TypeInv, NEW p \in scope.procs, BatchRecorded(p), scope' = scope
    PROVE  TypeInv' /\ Grows
<1>0. /\ TypeOK /\ WorkFacts(p) /\ p \in Procs
      /\ work[p] \in WorkState
      /\ work[p].pc \notin {"idle", "dead"} \/ work[p].job # None =>
              work[p].job \in Jobs /\ job[work[p].job] \in JobRow
      /\ work \in [Procs -> WorkState] /\ job \in [Jobs -> JobRow]
  BY InHand
<1>1. /\ work' \in [Procs -> WorkState]
      /\ \A q \in Procs \ {p} : work'[q] = work[q]
  <2>1. /\ Cardinality(work[p].batch) \in Nat
        /\ NextCursor(p) \in Nat
    BY <1>0, RowFacts, ScopeFacts DEF BatchRecorded, WorkFacts, WorkState, NextCursor
  <2>2. work[p].bad + Cardinality(work[p].batch) \in Nat
    BY <1>0, <2>1 DEF WorkState
  <2>3. PICK b \in BOOLEAN : b <=> OnError[work[p].job] = "stop"
    OBVIOUS
  <2>4. [work[p] EXCEPT !.pc = "checkpoint",
                             !.bad = work[p].bad + Cardinality(work[p].batch),
                        !.cursor = NextCursor(p), !.stop = b] \in WorkState
    <3>1. "checkpoint" \in WorkPcs
      BY DEF WorkPcs
    <3> QED
      BY <1>0, <2>1, <2>2, <3>1 DEF WorkState
  <2>5. work' = [work EXCEPT ![p] =
           [work[p] EXCEPT !.pc = "checkpoint",
                             !.bad = work[p].bad + Cardinality(work[p].batch),
                           !.cursor = NextCursor(p), !.stop = b]]
    BY <1>0, <2>3 DEF BatchRecorded
  <2> QED
    BY <1>0, <2>4, <2>5, WorkWritten
<1>2. /\ job' \in [Jobs -> JobRow]
      /\ failures' \in [Jobs -> SUBSET [row : Rows, retryable : BOOLEAN]]
      /\ written' \in [Jobs -> SUBSET Rows]
      /\ Grows
  BY <1>0, SameTables DEF BatchRecorded
<1>3. WorkFacts(p)'
  BY <1>0, <1>2, RowFacts, ScopeFacts, NoneApart DEF BatchRecorded, Grows, WorkState,
     WorkFacts, IsRetry, Bad
<1> QED
  BY <1>0, <1>1, <1>2, <1>3, TypeEnough DEF BatchRecorded, TypeOK

\* Checkpoint keeps what holds at each statement.
LEMMA TypeCheckpoint ==
    ASSUME TypeInv, NEW p \in scope.procs, Checkpoint(p), scope' = scope
    PROVE  TypeInv' /\ Grows
<1>0. /\ TypeOK /\ WorkFacts(p) /\ p \in Procs
      /\ work[p] \in WorkState
      /\ work[p].pc \notin {"idle", "dead"} \/ work[p].job # None =>
              work[p].job \in Jobs /\ job[work[p].job] \in JobRow
      /\ work \in [Procs -> WorkState] /\ job \in [Jobs -> JobRow]
  BY InHand
<1>1. /\ work' \in [Procs -> WorkState]
      /\ \A q \in Procs \ {p} : work'[q] = work[q]
  <2>1. PICK pc \in {"fail", "finish_check", "row", "status"} :
          work' = [work EXCEPT ![p] = [@ EXCEPT !.batch = {}, !.pc = pc]]
    BY DEF Checkpoint
  <2>2. [work[p] EXCEPT !.batch = {}, !.pc = pc] \in WorkState
    BY <1>0 DEF WorkState, WorkPcs
  <2> QED
    BY <1>0, <2>1, <2>2, WorkWritten
<1>2. /\ job' \in [Jobs -> JobRow]
      /\ failures' \in [Jobs -> SUBSET [row : Rows, retryable : BOOLEAN]]
      /\ written' \in [Jobs -> SUBSET Rows]
      /\ Grows
  BY <1>0, <1>1 DEF Checkpoint, SaveCounters, JobRow, JobStatus, WorkState, Grows, TypeOK,
     Failed
<1>3. WorkFacts(p)'
  BY <1>0, <1>2, ScopeFacts, JobAssumption, NoneApart DEF Checkpoint, Grows, WorkState,
     WorkFacts, IsRetry, Bad
<1> QED
  BY <1>0, <1>1, <1>2, <1>3, TypeEnough DEF Checkpoint, TypeOK

\* CheckStatus keeps what holds at each statement.
LEMMA TypeCheckStatus ==
    ASSUME TypeInv, NEW p \in scope.procs, CheckStatus(p), scope' = scope
    PROVE  TypeInv' /\ Grows
<1>0. /\ TypeOK /\ WorkFacts(p) /\ p \in Procs
      /\ work[p] \in WorkState
      /\ work[p].pc \notin {"idle", "dead"} \/ work[p].job # None =>
              work[p].job \in Jobs /\ job[work[p].job] \in JobRow
      /\ work \in [Procs -> WorkState] /\ job \in [Jobs -> JobRow]
  BY InHand
<1>1. /\ work' \in [Procs -> WorkState]
      /\ \A q \in Procs \ {p} : work'[q] = work[q]
  BY <1>0, StepWritten, QuitWritten DEF CheckStatus, WorkPcs
<1>2. /\ job' \in [Jobs -> JobRow]
      /\ failures' \in [Jobs -> SUBSET [row : Rows, retryable : BOOLEAN]]
      /\ written' \in [Jobs -> SUBSET Rows]
      /\ Grows
  BY <1>0, SameTables DEF CheckStatus
<1>3. WorkFacts(p)'
  <2>1. CASE Quit(p)
    BY <1>0, <2>1, QuitWritten, NoneApart DEF CheckStatus, NoWork, WorkFacts
  <2>2. CASE Step(p, "row")
    <3>1. work'[p] = [work[p] EXCEPT !.pc = "row"]
      BY <1>0, <2>2, StepWritten DEF WorkPcs
    <3>2. work[p].pc = "status" /\ work[p].job \in Jobs /\ work[p].batch = {}
      BY <1>0 DEF CheckStatus, WorkFacts
    <3>3. Cardinality({}) < BatchSize
      BY JobAssumption, FS_EmptySet
    <3> QED
      BY <1>0, <1>2, <3>1, <3>2, <3>3, NoneApart DEF Grows, WorkState, WorkFacts
  <2> QED
    BY <2>1, <2>2 DEF CheckStatus
<1> QED
  BY <1>0, <1>1, <1>2, <1>3, TypeEnough DEF CheckStatus, TypeOK

\* FinishCheck keeps what holds at each statement.
LEMMA TypeFinishCheck ==
    ASSUME TypeInv, NEW p \in scope.procs, FinishCheck(p), scope' = scope
    PROVE  TypeInv' /\ Grows
<1>0. /\ TypeOK /\ WorkFacts(p) /\ p \in Procs
      /\ work[p] \in WorkState
      /\ work[p].pc \notin {"idle", "dead"} \/ work[p].job # None =>
              work[p].job \in Jobs /\ job[work[p].job] \in JobRow
      /\ work \in [Procs -> WorkState] /\ job \in [Jobs -> JobRow]
  BY InHand
<1>1. /\ work' \in [Procs -> WorkState]
      /\ \A q \in Procs \ {p} : work'[q] = work[q]
  BY <1>0, StepWritten, QuitWritten DEF FinishCheck, WorkPcs
<1>2. /\ job' \in [Jobs -> JobRow]
      /\ failures' \in [Jobs -> SUBSET [row : Rows, retryable : BOOLEAN]]
      /\ written' \in [Jobs -> SUBSET Rows]
      /\ Grows
  BY <1>0, SameTables DEF FinishCheck
<1>3. WorkFacts(p)'
  BY <1>0, <1>2, NoneApart DEF FinishCheck, Grows, Step, Quit, NoWork, WorkState, WorkFacts,
     IsRetry, Bad
<1> QED
  BY <1>0, <1>1, <1>2, <1>3, TypeEnough DEF FinishCheck, TypeOK

\* Finish keeps what holds at each statement.
LEMMA TypeFinish ==
    ASSUME TypeInv, NEW p \in scope.procs, Finish(p), scope' = scope
    PROVE  TypeInv' /\ Grows
<1>0. /\ TypeOK /\ WorkFacts(p) /\ p \in Procs
      /\ work[p] \in WorkState
      /\ work[p].pc \notin {"idle", "dead"} \/ work[p].job # None =>
              work[p].job \in Jobs /\ job[work[p].job] \in JobRow
      /\ work \in [Procs -> WorkState] /\ job \in [Jobs -> JobRow]
  BY InHand
<1>1. /\ work' \in [Procs -> WorkState]
      /\ \A q \in Procs \ {p} : work'[q] = work[q]
  BY <1>0, QuitWritten DEF Finish
<1>2. /\ job' \in [Jobs -> JobRow]
      /\ failures' \in [Jobs -> SUBSET [row : Rows, retryable : BOOLEAN]]
      /\ written' \in [Jobs -> SUBSET Rows]
      /\ Grows
  BY <1>0, <1>1 DEF Finish, Release, JobRow, JobStatus, WorkState, Grows, TypeOK, Failed
<1>3. WorkFacts(p)'
  BY <1>0, <1>2, NoneApart DEF Finish, Grows, Quit, NoWork, WorkState, WorkFacts, IsRetry, Bad
<1> QED
  BY <1>0, <1>1, <1>2, <1>3, TypeEnough DEF Finish, TypeOK

\* Fail keeps what holds at each statement.
LEMMA TypeFail ==
    ASSUME TypeInv, NEW p \in scope.procs, Fail(p), scope' = scope
    PROVE  TypeInv' /\ Grows
<1>0. /\ TypeOK /\ WorkFacts(p) /\ p \in Procs
      /\ work[p] \in WorkState
      /\ work[p].pc \notin {"idle", "dead"} \/ work[p].job # None =>
              work[p].job \in Jobs /\ job[work[p].job] \in JobRow
      /\ work \in [Procs -> WorkState] /\ job \in [Jobs -> JobRow]
  BY InHand
<1>1. /\ work' \in [Procs -> WorkState]
      /\ \A q \in Procs \ {p} : work'[q] = work[q]
  BY <1>0, QuitWritten DEF Fail
<1>2. /\ job' \in [Jobs -> JobRow]
      /\ failures' \in [Jobs -> SUBSET [row : Rows, retryable : BOOLEAN]]
      /\ written' \in [Jobs -> SUBSET Rows]
      /\ Grows
  BY <1>0, <1>1 DEF Fail, Release, JobRow, JobStatus, WorkState, Grows, TypeOK, Failed
<1>3. WorkFacts(p)'
  BY <1>0, <1>2, NoneApart DEF Fail, Grows, Quit, NoWork, WorkState, WorkFacts, IsRetry, Bad
<1> QED
  BY <1>0, <1>1, <1>2, <1>3, TypeEnough DEF Fail, TypeOK

\* A worker's step keeps the types.
LEMMA TypeWork ==
    ASSUME TypeInv, NEW p \in scope.procs, Work(p), scope' = scope
    PROVE  TypeInv' /\ Grows
BY TypeClaim, TypeReadJob, TypeOpenJob, TypeTakeSnapshot, TypeSetSnapshot, TypeReadRow,
   TypeEndOfSource, TypeBadRecord, TypeBadCheckpoint, TypeCheckCancelled, TypeFlush,
   TypeFlushFails, TypeRecordRow, TypeBatchRecorded, TypeCheckpoint, TypeCheckStatus,
   TypeFinishCheck, TypeFinish, TypeFail DEF Work

\* A fault keeps what holds at each statement.
LEMMA TypeFault ==
    ASSUME TypeInv, NEW p \in scope.procs, IoFails(p) \/ Crash(p), scope' = scope
    PROVE  TypeInv' /\ Grows
<1>0. /\ TypeOK /\ WorkFacts(p) /\ p \in Procs
      /\ work[p] \in WorkState
      /\ work[p].pc \notin {"idle", "dead"} \/ work[p].job # None =>
              work[p].job \in Jobs /\ job[work[p].job] \in JobRow
      /\ work \in [Procs -> WorkState] /\ job \in [Jobs -> JobRow]
  BY InHand
<1>1. /\ job' \in [Jobs -> JobRow]
      /\ failures' \in [Jobs -> SUBSET [row : Rows, retryable : BOOLEAN]]
      /\ written' \in [Jobs -> SUBSET Rows]
      /\ Grows
  BY <1>0, SameTables DEF IoFails, Crash
<1>2. CASE IoFails(p)
  <2>1. PICK pc \in {"fail", "dead"} :
          Step(p, pc) /\ work[p].pc # "dead" /\ (work[p].pc = "idle" => pc = "dead")
    BY <1>2 DEF IoFails, Caught, Uncaught
  <2>2. /\ work' \in [Procs -> WorkState]
        /\ work'[p] = [work[p] EXCEPT !.pc = pc]
        /\ \A q \in Procs \ {p} : work'[q] = work[q]
    BY <1>0, <2>1, StepWritten DEF WorkPcs
  <2>3. WorkFacts(p)'
    BY <1>0, <1>1, <2>1, <2>2, NoneApart DEF WorkFacts, WorkState, Grows
  <2> QED
    BY <1>0, <1>1, <1>2, <2>2, <2>3, TypeEnough DEF IoFails, TypeOK
<1>3. CASE Crash(p)
  <2>1. /\ work' \in [Procs -> WorkState]
        /\ work'[p] = NoWork
        /\ \A q \in Procs \ {p} : work'[q] = work[q]
    BY <1>0, <1>3, QuitWritten DEF Crash
  <2>2. crashes' \in 0 .. MaxCrashes
    BY <1>0, <1>3, ScopeFacts DEF Crash, TypeOK
  <2>3. WorkFacts(p)'
    BY <1>0, <2>1, NoneApart DEF WorkFacts, NoWork
  <2> QED
    BY <1>0, <1>1, <1>3, <2>1, <2>2, <2>3, TypeEnough DEF Crash, TypeOK
<1> QED
  BY <1>2, <1>3

\* Requests, the clock and deletions touch no local variable.
LEMMA TypeTables ==
    ASSUME TypeInv, scope' = scope, UNCHANGED <<failures, written, work, crashes>>,
           catalogs' \subseteq Catalogs, job' \in [Jobs -> JobRow],
           \A j \in Jobs : job[j].status # "none" => /\ job'[j].status # "none"
                                                     /\ job'[j].parent = job[j].parent
    PROVE  TypeInv' /\ Grows
<1>1. TypeOK'
  BY DEF TypeInv, TypeOK, WorkState, Rows, SourceRows, MaxCrashes
<1>2. ASSUME NEW q \in Procs PROVE WorkFacts(q)'
  <2>1. WorkFacts(q) /\ work'[q] = work[q] /\ work[q] \in WorkState
    BY DEF TypeInv, TypeOK
  <2>2. work[q].job # None => work[q].job \in Jobs
    BY <2>1 DEF WorkState
  <2> QED
    BY <2>1, <2>2, NoneApart DEF WorkFacts, IsRetry, Bad
<1>3. Grows
  BY DEF Grows, Failed
<1> QED
  BY <1>1, <1>2, <1>3 DEF TypeInv

\* A request, or the clock, keeps what holds at each statement.
LEMMA TypeRequest ==
    ASSUME TypeInv, NEW j \in Jobs, Request(j) \/ Expire(j), scope' = scope
    PROVE  TypeInv' /\ Grows
<1>0. TypeOK /\ job \in [Jobs -> JobRow] /\ job[j] \in JobRow
  BY DEF TypeInv, TypeOK
<1>1. PICK r \in JobRow :
        /\ job' = [job EXCEPT ![j] = r]
        /\ job[j].status # "none" => r.status # "none" /\ r.parent = job[j].parent
  <2>1. CASE Create(j)
    <3>1. [job[j] EXCEPT !.status = "queued"] \in JobRow /\ job[j].status = "none"
      BY <1>0, <2>1 DEF Create, NextFree, JobRow, JobStatus
    <3> QED
      BY <2>1, <3>1 DEF Create
  <2>2. CASE \E parent \in Jobs : CreateRetry(j, parent)
    <3>1. PICK parent \in Jobs : CreateRetry(j, parent)
      BY <2>2
    <3>2. /\ [job[j] EXCEPT !.status = "queued", !.parent = parent] \in JobRow
          /\ job[j].status = "none"
      BY <1>0, <3>1 DEF CreateRetry, NextFree, JobRow, JobStatus
    <3> QED
      BY <3>1, <3>2 DEF CreateRetry
  <2>3. ASSUME NEW s \in {"paused", "cancelled"}, Release(j, s)
        PROVE  \E r \in JobRow :
                 /\ job' = [job EXCEPT ![j] = r]
                 /\ r.status # "none" /\ r.parent = job[j].parent
    <3>1. [job[j] EXCEPT !.status = s, !.worker = None, !.lease = None] \in JobRow
      BY <1>0 DEF JobRow, JobStatus
    <3>2. /\ [job[j] EXCEPT !.status = s, !.worker = None, !.lease = None].status # "none"
          /\ [job[j] EXCEPT !.status = s, !.worker = None, !.lease = None].parent = job[j].parent
      BY <1>0 DEF JobRow
    <3> QED
      BY <2>3, <3>1, <3>2 DEF Release
  <2>4. CASE Pause(j) \/ Cancel(j)
    BY <2>3, <2>4 DEF Pause, Cancel
  <2>5. CASE Resume(j)
    <3>1. [job[j] EXCEPT !.status = "queued"] \in JobRow
      BY <1>0 DEF JobRow, JobStatus
    <3>2. /\ [job[j] EXCEPT !.status = "queued"].status # "none"
          /\ [job[j] EXCEPT !.status = "queued"].parent = job[j].parent
      BY <1>0 DEF JobRow
    <3> QED
      BY <2>5, <3>1, <3>2 DEF Resume
  <2>6. CASE Expire(j)
    <3>1. [job[j] EXCEPT !.lease = "expired"] \in JobRow
      BY <1>0 DEF JobRow
    <3>2. /\ [job[j] EXCEPT !.lease = "expired"].status = job[j].status
          /\ [job[j] EXCEPT !.lease = "expired"].parent = job[j].parent
      BY <1>0 DEF JobRow
    <3> QED
      BY <2>6, <3>1, <3>2 DEF Expire
  <2> QED
    BY <2>1, <2>2, <2>4, <2>5, <2>6 DEF Request
<1>2. UNCHANGED <<failures, written, catalogs, work, crashes>>
  BY DEF Request, Create, CreateRetry, Pause, Resume, Cancel, Expire
<1>3. /\ job' \in [Jobs -> JobRow]
      /\ \A k \in Jobs : job[k].status # "none" => /\ job'[k].status # "none"
                                                   /\ job'[k].parent = job[k].parent
  BY <1>0, <1>1
<1> QED
  BY <1>0, <1>2, <1>3, TypeTables DEF TypeOK

\* Every step keeps what holds at each statement.
LEMMA TypeNext == TypeInv /\ [Next]_vars => TypeInv' /\ Grows
<1> SUFFICES ASSUME TypeInv, [Next]_vars PROVE TypeInv' /\ Grows
  OBVIOUS
<1>1. CASE UNCHANGED vars
  BY <1>1, TypeTables DEF vars, TypeInv, TypeOK
<1>2. ASSUME NEW p \in scope.procs, Work(p) \/ IoFails(p) \/ Crash(p), UNCHANGED scope
      PROVE  TypeInv' /\ Grows
  BY <1>2, TypeWork, TypeFault
<1>3. ASSUME NEW j \in Jobs, Request(j) \/ Expire(j), UNCHANGED scope
      PROVE  TypeInv' /\ Grows
  BY <1>3, TypeRequest
<1>4. ASSUME NEW c \in Catalogs, DeleteCatalog(c), UNCHANGED scope
      PROVE  TypeInv' /\ Grows
  BY <1>4, TypeTables DEF DeleteCatalog, TypeInv, TypeOK
<1> QED
  BY <1>1, <1>2, <1>3, <1>4 DEF Next

\* The initial states satisfy TypeInv.
LEMMA TypeInit == Init => TypeInv
<1> SUFFICES ASSUME Init PROVE TypeInv
  OBVIOUS
<1>1. NoWork \in WorkState /\ FreeRow \in JobRow
  BY DEF NoWork, WorkState, WorkPcs, FreeRow, JobRow, JobStatus
<1>2. MaxCrashes \in Nat
  BY JobAssumption DEF Init, MaxCrashes
<1>3. TypeOK
  BY <1>1, <1>2 DEF Init, TypeOK
<1>4. \A p \in Procs : WorkFacts(p)
  BY NoneApart DEF Init, WorkFacts, NoWork
<1> QED
  BY <1>3, <1>4 DEF TypeInv

-----------------------------------------------------------------------------
(* A worker that nobody disturbs has its job, and its catalog, for itself *)

Holds(p) ==
    Feeding(p) => /\ job[work[p].job].status = "running"
                  /\ job[work[p].job].worker = p
                  /\ job[work[p].job].lease = "live"

Leased(j) == job[j].status = "running" /\ job[j].lease = "live"

HoldInv ==
    Undisturbed =>
        /\ \A p \in Procs : Holds(p)
        /\ \A j, k \in Jobs :
              j # k /\ CatalogOf[j] = CatalogOf[k] => ~ (Leased(j) /\ Leased(k))

\* The actions of a worker that neither take a job nor give it back.
Inner(p) ==
    \/ ReadJob(p) \/ OpenJob(p) \/ TakeSnapshot(p) \/ SetSnapshot(p)
    \/ ReadRow(p) \/ EndOfSource(p) \/ BadRecord(p) \/ BadCheckpoint(p)
    \/ CheckCancelled(p) \/ Flush(p) \/ FlushFails(p)
    \/ RecordRow(p) \/ BatchRecorded(p) \/ Checkpoint(p) \/ CheckStatus(p)
    \/ FinishCheck(p) \/ IoFails(p) \/ Crash(p)

\* A step to another statement is local.
LEMMA StepLocal ==
    ASSUME TypeOK, NEW p \in Procs, NEW pc \in WorkPcs \ {"idle"}, Step(p, pc), Feeding(p)
    PROVE  /\ \A q \in Procs \ {p} : work'[q] = work[q]
           /\ \/ Feeding(p)' /\ work'[p].job = work[p].job
              \/ work'[p] = [work[p] EXCEPT !.pc = "dead"]
<1>1. /\ \A q \in Procs \ {p} : work'[q] = work[q]
      /\ work'[p] = [work[p] EXCEPT !.pc = pc]
  BY StepWritten
<1>2. work[p] \in WorkState
  BY DEF TypeOK
<1>3. work'[p].pc = pc /\ work'[p].job = work[p].job
  BY <1>1, <1>2 DEF WorkState
<1> QED
  BY <1>1, <1>3 DEF Feeding

\* Stopping is local.
LEMMA QuitLocal ==
    ASSUME TypeOK, NEW p \in Procs, Quit(p)
    PROVE  /\ \A q \in Procs \ {p} : work'[q] = work[q]
           /\ work'[p] = NoWork
BY QuitWritten

\* A worker only changes its own local variables, and stays with its job.
LEMMA InnerLocal ==
    ASSUME TypeInv, NEW p \in scope.procs, Inner(p)
    PROVE  /\ \A q \in Procs \ {p} : work'[q] = work[q]
           /\ Feeding(p) \/ Crash(p) \/ IoFails(p)
           /\ \/ Feeding(p) /\ Feeding(p)' /\ work'[p].job = work[p].job
              \/ work'[p] = NoWork
              \/ work'[p] = [work[p] EXCEPT !.pc = "dead"]
<1>0. /\ TypeOK /\ WorkFacts(p) /\ p \in Procs
      /\ work[p] \in WorkState
      /\ work \in [Procs -> WorkState]
  BY InHand
<1> DEFINE Goal == /\ \A q \in Procs \ {p} : work'[q] = work[q]
                   /\ Feeding(p) \/ Crash(p) \/ IoFails(p)
                   /\ \/ Feeding(p) /\ Feeding(p)' /\ work'[p].job = work[p].job
                      \/ work'[p] = NoWork
                      \/ work'[p] = [work[p] EXCEPT !.pc = "dead"]
<1>1. CASE ReadJob(p)
  BY <1>0, <1>1 DEF ReadJob, Feeding, WorkState
<1>2. CASE OpenJob(p) \/ TakeSnapshot(p) \/ SetSnapshot(p)
  <2>1. CASE OpenJob(p) \/ SetSnapshot(p)
    BY <1>0, <2>1, StepLocal DEF OpenJob, SetSnapshot, WorkPcs, Feeding
  <2>2. CASE TakeSnapshot(p)
    <3>1. work[p].pc = "snapshot"
      BY <2>2 DEF TakeSnapshot
    <3>2. CASE work' = [work EXCEPT ![p] = [@ EXCEPT !.pc = "dead"]]
      BY <1>0, <3>1, <3>2 DEF Feeding
    <3>3. CASE work' = [work EXCEPT ![p] = [@ EXCEPT !.pc = "set_snapshot",
                 !.snap = IF written[work[p].job] = {} THEN "clean" ELSE "dirty"]]
      BY <1>0, <3>1, <3>3 DEF Feeding, WorkState
    <3> QED
      BY <2>2, <3>2, <3>3 DEF TakeSnapshot
  <2> QED
    BY <1>2, <2>1, <2>2
<1>3. CASE ReadRow(p)
  <2>1. work[p].pc = "row" /\ Feeding(p)
    BY <1>3 DEF ReadRow, Feeding
  <2>2. ASSUME Quit(p) PROVE Goal
    BY <1>0, <2>1, <2>2, QuitLocal
  <2>3. ASSUME Step(p, "fail") PROVE Goal
    BY <1>0, <2>1, <2>3, StepLocal DEF WorkPcs
  <2>4. ASSUME work' = [work EXCEPT ![p] =
                 [work[p] EXCEPT !.pc = "bad_record", !.todo = work[p].todo \ {Min(work[p].todo)},
                                 !.cursor = Min(work[p].todo), !.bad = work[p].bad + 1]]
        PROVE  Goal
    BY <1>0, <2>1, <2>4 DEF Feeding, WorkState
  <2>5. ASSUME NEW pc \in {"row", "flush", "check"},
               work' = [work EXCEPT ![p] =
                 [work[p] EXCEPT !.todo = work[p].todo \ {Min(work[p].todo)},
                                 !.batch = work[p].batch \cup {Min(work[p].todo)}, !.pc = pc]]
        PROVE  Goal
    BY <1>0, <2>1, <2>5 DEF Feeding, WorkState
  <2> HIDE DEF Goal
  <2>6. Goal
    BY <1>3, <2>2, <2>3, <2>4, <2>5, ReadRowCases
  <2> QED
    BY <2>6 DEF Goal
<1>4. CASE EndOfSource(p) \/ BadRecord(p) \/ BadCheckpoint(p)
  BY <1>0, <1>4, StepLocal DEF EndOfSource, BadRecord, BadCheckpoint, WorkPcs, Feeding
<1>5. CASE CheckCancelled(p) \/ CheckStatus(p) \/ FinishCheck(p)
  BY <1>0, <1>5 DEF CheckCancelled, CheckStatus, FinishCheck, Step, Quit, Feeding, WorkState
<1>6. CASE Flush(p) \/ FlushFails(p) \/ RecordRow(p) \/ BatchRecorded(p)
  <2>1. Feeding(p)
    BY <1>6 DEF Flush, FlushFails, RecordRow, BatchRecorded, Feeding
  <2>2. CASE \E n, c : work' = [work EXCEPT ![p] = [work[p] EXCEPT !.pc = "checkpoint",
                                                       !.ok = n, !.cursor = c]]
    BY <1>0, <2>1, <2>2 DEF Feeding, WorkState
  <2>3. CASE \E l : work' = [work EXCEPT ![p] = [work[p] EXCEPT !.pc = "record", !.left = l]]
    BY <1>0, <2>1, <2>3 DEF Feeding, WorkState
  <2>4. CASE \E l : work' = [work EXCEPT ![p] = [work[p] EXCEPT !.left = l]]
    BY <1>0, <2>1, <2>4 DEF Feeding, WorkState
  <2>5. CASE BatchRecorded(p)
    <3>1. PICK b \in BOOLEAN : work' = [work EXCEPT ![p] =
             [work[p] EXCEPT !.pc = "checkpoint",
                             !.bad = work[p].bad + Cardinality(work[p].batch),
                             !.cursor = NextCursor(p), !.stop = b]]
      BY <2>5, RecordedCase
    <3> QED
      BY <1>0, <2>1, <3>1 DEF Feeding, WorkState
  <2> QED
    BY <1>6, <2>2, <2>3, <2>4, <2>5 DEF Flush, FlushFails, RecordRow
<1>7. CASE Checkpoint(p)
  BY <1>0, <1>7 DEF Checkpoint, Feeding, WorkState
<1>8. CASE IoFails(p)
  BY <1>0, <1>8 DEF IoFails, Caught, Uncaught, Step, Feeding, WorkState
<1>9. CASE Crash(p)
  BY <1>0, <1>9 DEF Crash, Quit, Feeding
<1> QED
  BY <1>1, <1>2, <1>3, <1>4, <1>5, <1>6, <1>7, <1>8, <1>9 DEF Inner

\* Inner steps leave status, worker and lease of every row as they are, when the
\* worker holds its job.
LEMMA InnerRows ==
    ASSUME TypeInv, NEW p \in scope.procs, Inner(p), Holds(p)
    PROVE  \A j \in Jobs : /\ job'[j].status = job[j].status
                           /\ job'[j].worker = job[j].worker
                           /\ job'[j].lease = job[j].lease
                           /\ job'[j].parent = job[j].parent
<1>0. /\ TypeOK /\ WorkFacts(p) /\ p \in Procs
      /\ work[p].pc \notin {"idle", "dead"} \/ work[p].job # None =>
              work[p].job \in Jobs /\ job[work[p].job] \in JobRow
      /\ job \in [Jobs -> JobRow]
  BY InHand
<1>1. CASE OpenJob(p)
  <2>1. work[p].job \in Jobs /\ job[work[p].job].lease = "live" /\ job[work[p].job] \in JobRow
    BY <1>0, <1>1 DEF OpenJob, Holds, Feeding
  <2> QED
    BY <1>0, <1>1, <2>1 DEF OpenJob, JobRow
<1>2. CASE SetSnapshot(p)
  <2>1. work[p].job \in Jobs /\ job[work[p].job] \in JobRow
    BY <1>0, <1>2 DEF SetSnapshot
  <2> QED
    BY <1>0, <1>2, <2>1 DEF SetSnapshot, JobRow
<1>3. CASE BadCheckpoint(p) \/ Checkpoint(p)
  <2>1. /\ work[p].job \in Jobs /\ job[work[p].job].lease = "live" /\ job[work[p].job] \in JobRow
        /\ SaveCounters(p)
    BY <1>0, <1>3 DEF BadCheckpoint, Checkpoint, Holds, Feeding
  <2> QED
    BY <1>0, <2>1 DEF SaveCounters, JobRow
<1>4. CASE UNCHANGED job
  BY <1>4
<1> QED
  BY <1>1, <1>2, <1>3, <1>4 DEF Inner, ReadJob, TakeSnapshot, ReadRow, EndOfSource, BadRecord,
     CheckCancelled, Flush, FlushFails, RecordRow, BatchRecorded, CheckStatus, FinishCheck,
     IoFails, Crash

\* A worker that ends its job releases the row, and is idle.
LEMMA EndRows ==
    ASSUME TypeInv, NEW p \in scope.procs, Finish(p) \/ Fail(p)
    PROVE  /\ work[p].job \in Jobs /\ Feeding(p)
           /\ \A q \in Procs \ {p} : work'[q] = work[q]
           /\ work'[p] = NoWork
           /\ \A j \in Jobs \ {work[p].job} : job'[j] = job[j]
           /\ job'[work[p].job].status \in Terminal
           /\ UNCHANGED <<failures, written, catalogs, crashes>>
<1>0. /\ TypeOK /\ WorkFacts(p) /\ p \in Procs
      /\ work[p] \in WorkState /\ work \in [Procs -> WorkState]
      /\ work[p].pc \notin {"idle", "dead"} \/ work[p].job # None =>
              work[p].job \in Jobs /\ job[work[p].job] \in JobRow
      /\ job \in [Jobs -> JobRow]
  BY InHand
<1>1. PICK s \in Terminal : Release(work[p].job, s)
  BY DEF Finish, Fail, Terminal
<1>2. work[p].job \in Jobs /\ job[work[p].job] \in JobRow /\ Feeding(p)
  BY <1>0 DEF Finish, Fail, Feeding
<1>3. /\ \A j \in Jobs \ {work[p].job} : job'[j] = job[j]
      /\ job'[work[p].job].status \in Terminal
  BY <1>0, <1>1, <1>2 DEF Release, JobRow
<1> QED
  BY <1>0, <1>2, <1>3, QuitWritten DEF Finish, Fail

\* What a claim does.
Claims(p, j) ==
    /\ Claimable(j)
    /\ work[p].pc = "idle"
    /\ job' = [job EXCEPT ![j] = [@ EXCEPT !.status = "running",
                                          !.worker = p, !.lease = "live"]]
    /\ \A k \in Jobs \ {j} : job'[k] = job[k]
    /\ job'[j].status = "running" /\ job'[j].worker = p /\ job'[j].lease = "live"
    /\ job'[j].parent = job[j].parent /\ job'[j].snap = job[j].snap
    /\ job'[j].cursor = job[j].cursor
    /\ job'[j].ok = job[j].ok /\ job'[j].bad = job[j].bad
    /\ \A q \in Procs \ {p} : work'[q] = work[q]
    /\ work'[p] = [NoWork EXCEPT !.pc = "claimed", !.job = j]
    /\ work'[p].pc = "claimed" /\ work'[p].job = j
    /\ UNCHANGED <<failures, written, catalogs, crashes>>

\* The row of a claimed job.
LEMMA ClaimRows ==
    ASSUME TypeInv, NEW p \in scope.procs, Claim(p)
    PROVE  \E j \in Jobs : Claims(p, j)
<1>0. TypeOK /\ p \in Procs /\ work \in [Procs -> WorkState] /\ job \in [Jobs -> JobRow]
  BY InHand
<1>1. PICK j \in Jobs :
        /\ Claimable(j)
        /\ job' = [job EXCEPT ![j] = [@ EXCEPT !.status = "running",
                                              !.worker = p, !.lease = "live"]]
        /\ work' = [work EXCEPT ![p] = [NoWork EXCEPT !.pc = "claimed", !.job = j]]
        /\ UNCHANGED <<failures, written, catalogs, crashes>>
        /\ work[p].pc = "idle"
  BY DEF Claim
<1>2. job'[j] = [job[j] EXCEPT !.status = "running", !.worker = p, !.lease = "live"]
      /\ job[j] \in JobRow
  BY <1>0, <1>1
<1>3. [NoWork EXCEPT !.pc = "claimed", !.job = j].pc = "claimed"
      /\ [NoWork EXCEPT !.pc = "claimed", !.job = j].job = j
  BY DEF NoWork
<1> QED
  BY <1>0, <1>1, <1>2, <1>3 DEF JobRow, Claims

\* Rows that keep their leases, under workers that keep their jobs or stop.
LEMMA HoldFrame ==
    ASSUME TypeInv, HoldInv, scope' = scope,
           Undisturbed =>
              /\ \A j \in Jobs : /\ job'[j].status = job[j].status
                                 /\ job'[j].worker = job[j].worker
                                 /\ job'[j].lease = job[j].lease
              /\ \A q \in Procs : Feeding(q)' => Feeding(q) /\ work'[q].job = work[q].job
    PROVE  HoldInv'
<1> SUFFICES ASSUME Undisturbed' PROVE /\ \A p \in Procs : Holds(p)'
                                       /\ \A j, k \in Jobs :
                                            j # k /\ CatalogOf[j] = CatalogOf[k]
                                              => ~ (Leased(j)' /\ Leased(k)')
  BY DEF HoldInv
<1>1. Undisturbed
  BY DEF Undisturbed, Controls, Faults
<1>2. ASSUME NEW q \in Procs, Feeding(q) PROVE work[q].job \in Jobs
  BY <1>2 DEF TypeInv, TypeOK, WorkFacts, WorkState, Feeding
<1> QED
  BY <1>1, <1>2 DEF HoldInv, Holds, Leased

\* The actions of a worker keep leases exclusive.
LEMMA HoldWork ==
    ASSUME TypeInv, HoldInv, NEW p \in scope.procs, scope' = scope,
           Work(p) \/ IoFails(p) \/ Crash(p)
    PROVE  HoldInv'
<1>0. p \in Procs /\ \A q \in Procs : Feeding(q) => work[q].job \in Jobs
  <2>1. ASSUME NEW q \in Procs, Feeding(q) PROVE work[q].job \in Jobs
    BY <2>1 DEF TypeInv, TypeOK, WorkFacts, WorkState, Feeding
  <2> QED
    BY <2>1, InHand
<1>u. Undisturbed' = Undisturbed
  BY DEF Undisturbed, Controls, Faults
<1>1. CASE Inner(p)
  <2>1. Undisturbed => Holds(p)
    BY <1>0 DEF HoldInv
  <2>2. Undisturbed => \A j \in Jobs : /\ job'[j].status = job[j].status
                                       /\ job'[j].worker = job[j].worker
                                       /\ job'[j].lease = job[j].lease
    BY <1>1, <2>1, InnerRows
  <2>3. \A q \in Procs : Feeding(q)' => Feeding(q) /\ work'[q].job = work[q].job
    <3>1. /\ \A q \in Procs \ {p} : work'[q] = work[q]
          /\ \/ Feeding(p) /\ Feeding(p)' /\ work'[p].job = work[p].job
             \/ work'[p] = NoWork
             \/ work'[p] = [work[p] EXCEPT !.pc = "dead"]
      BY <1>1, InnerLocal
    <3>2. work[p] \in WorkState
      BY InHand
    <3>3. Feeding(p)' => Feeding(p) /\ work'[p].job = work[p].job
      BY <3>1, <3>2 DEF Feeding, NoWork, WorkState
    <3> QED
      BY <3>1, <3>3 DEF Feeding
  <2> QED
    BY <2>2, <2>3, HoldFrame
<1>2. CASE Claim(p)
  <2>0. PICK j \in Jobs : Claims(p, j)
    BY <1>2, ClaimRows
  <2>1. /\ Claimable(j)
        /\ \A k \in Jobs \ {j} : job'[k] = job[k]
        /\ job'[j].status = "running" /\ job'[j].worker = p /\ job'[j].lease = "live"
        /\ \A q \in Procs \ {p} : work'[q] = work[q]
        /\ work'[p].job = j
    BY <2>0 DEF Claims
  <2>2. ASSUME Undisturbed, NEW q \in Procs PROVE Holds(q)'
    <3>1. CASE q = p
      BY <2>1, <3>1 DEF Holds
    <3>2. CASE q # p
      <4>1. Feeding(q) => work[q].job \in Jobs \ {j}
        BY <1>0, <2>1, <2>2 DEF HoldInv, Holds, Claimable
      <4>2. work'[q] = work[q]
        BY <2>1, <3>2
      <4> QED
        BY <2>1, <2>2, <4>1, <4>2 DEF HoldInv, Holds, Feeding
    <3> QED
      BY <3>1, <3>2
  <2>3. ASSUME Undisturbed, NEW i \in Jobs, NEW k \in Jobs, i # k, CatalogOf[i] = CatalogOf[k],
               Leased(i)', Leased(k)'
        PROVE  FALSE
    <3>1. CASE i # j /\ k # j
      BY <2>1, <2>3, <3>1 DEF HoldInv, Leased
    <3>2. CASE i = j
      BY <2>1, <2>3, <3>2 DEF Leased, Claimable
    <3>3. CASE k = j
      BY <2>1, <2>3, <3>3 DEF Leased, Claimable
    <3> QED
      BY <3>1, <3>2, <3>3
  <2> QED
    BY <1>u, <2>2, <2>3 DEF HoldInv
<1>3. CASE Finish(p) \/ Fail(p)
  <2>1. /\ work[p].job \in Jobs /\ Feeding(p)
        /\ \A q \in Procs \ {p} : work'[q] = work[q]
        /\ work'[p] = NoWork
        /\ \A j \in Jobs \ {work[p].job} : job'[j] = job[j]
        /\ job'[work[p].job].status \in Terminal
    BY <1>3, EndRows
  <2>2. ASSUME Undisturbed, NEW q \in Procs PROVE Holds(q)'
    <3>1. CASE q = p
      BY <2>1, <3>1 DEF Holds, Feeding, NoWork
    <3>2. CASE q # p
      <4>1. Feeding(q) => work[q].job \in Jobs \ {work[p].job}
        BY <1>0, <2>1, <2>2, <3>2 DEF HoldInv, Holds
      <4>2. work'[q] = work[q]
        BY <2>1, <3>2
      <4> QED
        BY <2>1, <2>2, <4>1, <4>2 DEF HoldInv, Holds, Feeding
    <3> QED
      BY <3>1, <3>2
  <2>3. \A i \in Jobs : Leased(i)' => Leased(i)
    BY <2>1 DEF Leased, Terminal
  <2> QED
    BY <1>u, <2>2, <2>3 DEF HoldInv
<1> QED
  BY <1>1, <1>2, <1>3 DEF Inner, Work

\* A request for, or the clock of, a job that no worker is on.
LEMMA HoldRequest ==
    ASSUME TypeInv, HoldInv, NEW j \in Jobs, Request(j) \/ Expire(j), scope' = scope
    PROVE  HoldInv'
<1> SUFFICES ASSUME Undisturbed PROVE HoldInv'
  BY DEF HoldInv, Undisturbed, Controls, Faults
<1>1. /\ \A k \in Jobs \ {j} : job'[k] = job[k]
      /\ UNCHANGED work
      /\ \/ job[j].status = "none" /\ job'[j].status = "queued"
         \/ /\ ~ \E p \in Procs : Feeding(p) /\ work[p].job = j /\ job[j].worker = p
            /\ ~ Leased(j)'
  <2>1. job \in [Jobs -> JobRow] /\ job[j] \in JobRow
    BY DEF TypeInv, TypeOK
  <2>2. CASE Create(j)
    <3>1. /\ job'[j] = [job[j] EXCEPT !.status = "queued"]
          /\ \A k \in Jobs \ {j} : job'[k] = job[k]
          /\ job[j].status = "none" /\ UNCHANGED work
      BY <2>1, <2>2 DEF Create, NextFree
    <3>2. job'[j].status = "queued"
      BY <2>1, <3>1 DEF JobRow
    <3> QED
      BY <3>1, <3>2
  <2>3. CASE \E parent \in Jobs : CreateRetry(j, parent)
    <3>1. PICK parent \in Jobs : CreateRetry(j, parent)
      BY <2>3
    <3>2. /\ job'[j] = [job[j] EXCEPT !.status = "queued", !.parent = parent]
          /\ \A k \in Jobs \ {j} : job'[k] = job[k]
          /\ job[j].status = "none" /\ UNCHANGED work
      BY <2>1, <3>1 DEF CreateRetry, NextFree
    <3>3. job'[j].status = "queued"
      BY <2>1, <3>2 DEF JobRow
    <3> QED
      BY <3>2, <3>3
  <2>4. ~ Pause(j) /\ ~ Resume(j) /\ ~ Cancel(j)
    BY DEF Undisturbed, Pause, Resume, Cancel
  <2>5. CASE Expire(j)
    <3>1. job'[j] = [job[j] EXCEPT !.lease = "expired"]
      BY <2>1, <2>5 DEF Expire
    <3> QED
      BY <2>1, <2>5, <3>1 DEF Expire, Abandoned, JobRow, Leased, Undisturbed, Feeding
  <2> QED
    BY <2>2, <2>3, <2>4, <2>5 DEF Request
<1>2. \A q \in Procs : Holds(q)'
  <2> SUFFICES ASSUME NEW q \in Procs, Feeding(q)'
               PROVE  Holds(q)'
    BY DEF Holds
  <2>1. Feeding(q) /\ work'[q] = work[q] /\ Holds(q)
    BY <1>1 DEF Feeding, HoldInv
  <2>2. work[q].job \in Jobs
    BY <2>1 DEF TypeInv, TypeOK, WorkFacts, WorkState, Feeding
  <2> QED
    BY <1>1, <2>1, <2>2 DEF Holds
<1>3. \A k \in Jobs : Leased(k)' => Leased(k)
  BY <1>1 DEF Leased
<1> QED
  BY <1>2, <1>3 DEF HoldInv

\* Every step keeps leases exclusive.
LEMMA HoldNext == TypeInv /\ HoldInv /\ [Next]_vars => HoldInv'
<1> SUFFICES ASSUME TypeInv, HoldInv, [Next]_vars PROVE HoldInv'
  OBVIOUS
<1>1. ASSUME NEW p \in scope.procs, Work(p) \/ IoFails(p) \/ Crash(p), UNCHANGED scope
      PROVE  HoldInv'
  BY <1>1, HoldWork
<1>2. ASSUME NEW j \in Jobs, Request(j) \/ Expire(j), UNCHANGED scope
      PROVE  HoldInv'
  BY <1>2, HoldRequest
<1>3. CASE UNCHANGED <<scope, job, work>>
  BY <1>3, HoldFrame DEF Feeding
<1> QED
  BY <1>1, <1>2, <1>3 DEF Next, DeleteCatalog, vars

-----------------------------------------------------------------------------
(* What an undisturbed worker knows: snapshot, retried rows and counters *)

SnapFacts(p) ==
    LET w == work[p]
        snap == job[work[p].job].snap
    IN  /\ w.pc = "open" => w.snap = snap
        /\ w.pc = "snapshot" => snap = None
        /\ w.pc = "set_snapshot" => w.snap = "clean"
        /\ w.pc \notin {"claimed", "open", "snapshot", "set_snapshot", "fail"} => snap # None

RetryFacts(p) ==
    LET w == work[p]
        j == work[p].job
    IN  w.pc \notin {"claimed", "fail"} /\ w.bad = 0 =>
           /\ Retryable(job[j].parent) \subseteq written[j] \cup w.batch \cup w.todo
           /\ w.pc = "checkpoint" => w.batch \subseteq written[j]

\* The rows counted, and the last row read.
Counted(p) == work[p].ok + work[p].bad

Last(p) == IF work[p].pc = "checkpoint" THEN Counted(p)
           ELSE Counted(p) + Cardinality(work[p].batch)

CountFacts(p) ==
    LET w == work[p]
        r == job[work[p].job]
    IN  w.pc \notin {"claimed", "fail"} =>
           /\ Last(p) <= SourceRows
           /\ w.todo = {n \in Rows : n > Last(p)}
           /\ w.pc = "checkpoint" => w.cursor = Counted(p)
           /\ w.pc # "checkpoint" => /\ w.batch = {n \in Rows : Counted(p) < n /\ n <= Last(p)}
                                     /\ r.ok = w.ok /\ r.bad = w.bad

OwnWork(p) ==
    Feeding(p) =>
        /\ ~ IsRetry(work[p].job) => SnapFacts(p)
        /\ IsRetry(work[p].job) => RetryFacts(p)
        /\ ~ IsRetry(work[p].job) /\ Bad = {} => CountFacts(p)

OwnSnap(j) == /\ job[j].snap # "dirty"
              /\ ~ IsRetry(j) /\ written[j] # {} => job[j].snap # None

OwnRetry(j) ==
    IsRetry(j) => /\ job[job[j].parent].status \in Terminal
                  /\ job[j].status = "completed" => Retryable(job[j].parent) \subseteq written[j]

OwnCount(j) ==
    ~ IsRetry(j) /\ Bad = {} =>
        /\ job[j].cursor = Processed(job[j])
        /\ job[j].cursor <= SourceRows
        /\ job[j].status \in {"completed", "completed_with_errors"}
              => Processed(job[j]) = SourceRows

OwnJob(j) == OwnSnap(j) /\ OwnRetry(j) /\ OwnCount(j)

OwnInv == Undisturbed => /\ \A p \in Procs : OwnWork(p)
                         /\ \A j \in Jobs : OwnJob(j)

\* A worker only writes the row, the failures and the items of its own job.
LEMMA InnerOwn ==
    ASSUME TypeInv, NEW p \in scope.procs, Inner(p), NEW j \in Jobs, j # work[p].job
    PROVE  job'[j] = job[j] /\ written'[j] = written[j] /\ failures'[j] = failures[j]
<1>0. TypeOK
  BY InHand
<1>1. job'[j] = job[j]
  BY <1>0 DEF TypeOK, Inner, ReadJob, OpenJob, TakeSnapshot, SetSnapshot, ReadRow,
     EndOfSource, BadRecord, BadCheckpoint, SaveCounters, CheckCancelled, Flush, FlushFails,
     RecordRow, BatchRecorded, Checkpoint, CheckStatus, FinishCheck, IoFails, Crash
<1>2. written'[j] = written[j]
  BY <1>0 DEF TypeOK, Inner, ReadJob, OpenJob, TakeSnapshot, SetSnapshot, ReadRow,
     EndOfSource, BadRecord, BadCheckpoint, CheckCancelled, Flush, FlushFails, RecordRow,
     BatchRecorded, Checkpoint, CheckStatus, FinishCheck, IoFails, Crash
<1>3. failures'[j] = failures[j]
  BY <1>0 DEF TypeOK, Inner, ReadJob, OpenJob, TakeSnapshot, SetSnapshot, ReadRow,
     EndOfSource, BadRecord, BadCheckpoint, CheckCancelled, Flush, FlushFails, RecordRow,
     BatchRecorded, Checkpoint, CheckStatus, FinishCheck, IoFails, Crash
<1> QED
  BY <1>1, <1>2, <1>3

\* The other workers are on other jobs, whose parents are over.
LEMMA OwnFrame ==
    ASSUME TypeInv, OwnInv, scope' = scope, Undisturbed,
           NEW p, NEW own,
           own \in Jobs => (job[own].status \notin Terminal
                          \/ (job'[own].status = job[own].status /\ failures'[own] = failures[own])),
           \A q \in Procs \ {p} : work'[q] = work[q] /\ (Feeding(q) => work[q].job # own),
           \A j \in Jobs \ {own} : /\ job'[j] = job[j]
                                   /\ written'[j] = written[j]
                                   /\ failures'[j] = failures[j],
           p \in Procs => OwnWork(p)',
           own \in Jobs => OwnJob(own)'
    PROVE  OwnInv'
<1>1. ASSUME NEW j \in Jobs, IsRetry(j)
      PROVE  /\ job[j].parent \in Jobs
             /\ job'[job[j].parent].status = job[job[j].parent].status
             /\ failures'[job[j].parent] = failures[job[j].parent]
  <2>1. job[j].parent \in Jobs /\ job[job[j].parent].status \in Terminal
    BY <1>1 DEF OwnInv, OwnJob, OwnRetry, TypeInv, TypeOK, JobRow, IsRetry
  <2> QED
    BY <2>1
<1>2. ASSUME NEW q \in Procs, q # p PROVE OwnWork(q)'
  <2> SUFFICES ASSUME Feeding(q)'
               PROVE  OwnWork(q)'
    BY DEF OwnWork
  <2>1. Feeding(q) /\ work'[q] = work[q] /\ OwnWork(q)
    BY <1>2 DEF Feeding, OwnInv
  <2>2. work[q].job \in Jobs \ {own}
    BY <1>2, <2>1 DEF TypeInv, TypeOK, WorkFacts, WorkState, Feeding
  <2>3. job'[work[q].job] = job[work[q].job] /\ written'[work[q].job] = written[work[q].job]
    BY <2>2
  <2>4. IsRetry(work[q].job)' <=> IsRetry(work[q].job)
    BY <2>1, <2>3 DEF IsRetry
  <2>5. SnapFacts(q) => SnapFacts(q)'
    BY <2>1, <2>3 DEF SnapFacts
  <2>6. CountFacts(q) => CountFacts(q)'
    BY <2>1, <2>3 DEF CountFacts, Last, Counted, Rows, SourceRows
  <2>7. IsRetry(work[q].job) /\ RetryFacts(q) => RetryFacts(q)'
    BY <1>1, <2>1, <2>2, <2>3 DEF RetryFacts, Retryable
  <2> QED
    BY <2>1, <2>4, <2>5, <2>6, <2>7 DEF OwnWork, Bad
<1>3. ASSUME NEW j \in Jobs, j # own PROVE OwnJob(j)'
  <2>1. /\ job'[j] = job[j] /\ written'[j] = written[j] /\ OwnJob(j)
    BY <1>3 DEF OwnInv
  <2>2. OwnSnap(j)'
    BY <2>1 DEF OwnJob, OwnSnap, IsRetry
  <2>3. OwnRetry(j)'
    BY <1>1, <2>1 DEF OwnJob, OwnRetry, IsRetry, Retryable
  <2>4. OwnCount(j)'
    BY <2>1 DEF OwnJob, OwnCount, IsRetry, Bad, Processed, SourceRows
  <2> QED
    BY <2>2, <2>3, <2>4 DEF OwnJob
<1> QED
  BY <1>2, <1>3 DEF OwnInv

\* What an undisturbed worker, and the row of its job, satisfy before a step.
LEMMA OwnHand ==
    ASSUME TypeInv, HoldInv, OwnInv, Undisturbed, Grows, scope' = scope,
           NEW p \in scope.procs, Inner(p), Feeding(p)
    PROVE  /\ TypeOK /\ WorkFacts(p) /\ p \in Procs /\ Holds(p)
           /\ work[p] \in WorkState /\ work[p].job \in Jobs
           /\ job[work[p].job] \in JobRow
           /\ job \in [Jobs -> JobRow] /\ work \in [Procs -> WorkState]
           /\ job[work[p].job].status = "running"
           /\ job'[work[p].job].status = "running"
           /\ job'[work[p].job].parent = job[work[p].job].parent
           /\ OwnWork(p) /\ OwnJob(work[p].job)
           /\ Rows' = Rows /\ Bad' = Bad /\ SourceRows' = SourceRows
           /\ IsRetry(work[p].job) =>
                /\ job[work[p].job].parent \in Jobs \ {work[p].job}
                /\ job'[job[work[p].job].parent] = job[job[work[p].job].parent]
                /\ failures'[job[work[p].job].parent] = failures[job[work[p].job].parent]
<1>0. /\ TypeOK /\ WorkFacts(p) /\ p \in Procs
      /\ work[p] \in WorkState
      /\ work[p].pc \notin {"idle", "dead"} \/ work[p].job # None =>
              work[p].job \in Jobs /\ job[work[p].job] \in JobRow
      /\ work \in [Procs -> WorkState] /\ job \in [Jobs -> JobRow]
  BY InHand
<1>1. work[p].job \in Jobs /\ job[work[p].job] \in JobRow
  BY <1>0 DEF Feeding
<1>2. Holds(p) /\ OwnWork(p) /\ OwnJob(work[p].job)
  BY <1>0, <1>1 DEF HoldInv, OwnInv
<1>3. job[work[p].job].status = "running"
  BY <1>2 DEF Holds
<1>4. job'[work[p].job].status = "running" /\ job'[work[p].job].parent = job[work[p].job].parent
  BY <1>1, <1>2, <1>3, InnerRows
<1>5. Rows' = Rows /\ Bad' = Bad /\ SourceRows' = SourceRows
  BY DEF Rows, Bad, SourceRows
<1>6. ASSUME IsRetry(work[p].job)
      PROVE  /\ job[work[p].job].parent \in Jobs \ {work[p].job}
             /\ job'[job[work[p].job].parent] = job[job[work[p].job].parent]
             /\ failures'[job[work[p].job].parent] = failures[job[work[p].job].parent]
  <2>1. job[work[p].job].parent \in Jobs \ {work[p].job}
    BY <1>1, <1>2, <1>3, <1>6 DEF OwnJob, OwnRetry, IsRetry, JobRow, Terminal
  <2> QED
    BY <2>1, InnerOwn
<1> QED
  BY <1>0, <1>1, <1>2, <1>3, <1>4, <1>5, <1>6

\* The row of the job after an inner step.
LEMMA OwnInnerJob ==
    ASSUME TypeInv, HoldInv, OwnInv, Undisturbed, Grows, scope' = scope,
           NEW p \in scope.procs, Inner(p), Feeding(p), NEW j, j = work[p].job
    PROVE  OwnJob(j)'
<1>0. /\ TypeOK /\ WorkFacts(p) /\ p \in Procs
      /\ work[p] \in WorkState /\ j \in Jobs /\ job[j] \in JobRow
      /\ job \in [Jobs -> JobRow] /\ work \in [Procs -> WorkState]
      /\ job[j].status = "running"
      /\ job'[j].status = "running"
      /\ job'[j].parent = job[j].parent
      /\ OwnWork(p) /\ OwnJob(j)
      /\ Rows' = Rows /\ Bad' = Bad /\ SourceRows' = SourceRows
      /\ IsRetry(j) =>
                /\ job[j].parent \in Jobs \ {j}
                /\ job'[job[j].parent] = job[job[j].parent]
  BY OwnHand
<1>1. IsRetry(j)' <=> IsRetry(j)
  BY <1>0 DEF IsRetry
<1>2. CASE SetSnapshot(p)
  <2>1. /\ job'[j] = [job[j] EXCEPT !.snap = work[p].snap]
        /\ work[p].snap = "clean" \/ IsRetry(j)
        /\ ~ IsRetry(j)
    BY <1>0, <1>2 DEF SetSnapshot, OwnWork, SnapFacts, WorkFacts, Feeding
  <2>2. job'[j].snap = "clean" /\ job'[j].cursor = job[j].cursor
        /\ job'[j].ok = job[j].ok /\ job'[j].bad = job[j].bad
    BY <1>0, <2>1 DEF JobRow
  <2>3. OwnSnap(j)'
    BY <1>2, <2>2, NoneApart DEF SetSnapshot, OwnSnap
  <2>4. OwnCount(j)'
    BY <1>0, <1>1, <2>2 DEF OwnJob, OwnCount, Processed
  <2>5. OwnRetry(j)'
    BY <1>0, <1>1, <2>1 DEF OwnRetry
  <2> QED
    BY <2>3, <2>4, <2>5 DEF OwnJob
<1>3. CASE BadCheckpoint(p) \/ Checkpoint(p)
  <2>1. /\ job'[j] = [job[j] EXCEPT !.cursor = work[p].cursor, !.ok = work[p].ok,
                                    !.bad = work[p].bad, !.lease = "live"]
        /\ UNCHANGED <<written, failures>>
        /\ work[p].pc \in {"bad_checkpoint", "checkpoint"}
    BY <1>0, <1>3, InnerRows DEF BadCheckpoint, Checkpoint, SaveCounters, HoldInv, Holds,
       Feeding
  <2>2. job'[j].snap = job[j].snap /\ job'[j].cursor = work[p].cursor
        /\ job'[j].ok = work[p].ok /\ job'[j].bad = work[p].bad
    BY <1>0, <2>1 DEF JobRow
  <2>3. OwnSnap(j)'
    BY <1>0, <1>1, <2>1, <2>2 DEF OwnJob, OwnSnap
  <2>4. OwnCount(j)'
    BY <1>0, <1>1, <2>1, <2>2 DEF OwnCount, Processed, OwnWork, CountFacts, Last, Counted,
       WorkFacts, Feeding
  <2>5. OwnRetry(j)'
    BY <1>0, <1>1 DEF OwnJob, OwnRetry, Retryable
  <2> QED
    BY <2>3, <2>4, <2>5 DEF OwnJob
<1>4. CASE /\ job'[j].snap = job[j].snap /\ job'[j].cursor = job[j].cursor
           /\ job'[j].ok = job[j].ok /\ job'[j].bad = job[j].bad
           /\ written'[j] # {} => written[j] # {} \/ IsRetry(j) \/ job[j].snap # None
  <2>1. OwnSnap(j)' /\ OwnCount(j)'
    BY <1>0, <1>1, <1>4 DEF OwnJob, OwnSnap, OwnCount, Processed
  <2>2. OwnRetry(j)'
    BY <1>0, <1>1 DEF OwnJob, OwnRetry, Retryable
  <2> QED
    BY <2>1, <2>2 DEF OwnJob
<1>5. CASE OpenJob(p)
  <2>1. job'[j] = job[j] \/ job'[j] = [job[j] EXCEPT !.lease = "live"]
    BY <1>0, <1>5 DEF OpenJob
  <2> QED
    BY <1>0, <1>4, <1>5, <2>1 DEF OpenJob, JobRow
<1>6. CASE Flush(p)
  <2>1. IsRetry(j) \/ job[j].snap # None
    BY <1>0, <1>6 DEF Flush, OwnWork, SnapFacts, Feeding
  <2> QED
    BY <1>4, <1>6, <2>1 DEF Flush
<1>7. CASE UNCHANGED <<job, written>>
  BY <1>4, <1>7
<1> QED
  BY <1>2, <1>3, <1>5, <1>6, <1>7 DEF Inner, ReadJob, TakeSnapshot, ReadRow, EndOfSource,
     BadRecord, CheckCancelled, FlushFails, RecordRow, BatchRecorded, CheckStatus,
     FinishCheck, IoFails, Crash

\* Moving on without touching rows or counters.
LEMMA OwnQuiet ==
    ASSUME TypeInv, HoldInv, OwnInv, Undisturbed, Grows, scope' = scope,
           NEW p \in scope.procs, NEW j, j = work[p].job, Inner(p),
           work'[p] = [work[p] EXCEPT !.pc = work'[p].pc], job'[j] = job[j],
           written'[j] = written[j],
           work[p].pc \in {"row", "bad_record", "check", "status", "finish_check"},
           work'[p].pc \in {"row", "bad_checkpoint", "check", "flush", "finish_check", "finish"},
           Feeding(p)
    PROVE  OwnWork(p)'
<1>0. /\ TypeOK /\ WorkFacts(p) /\ p \in Procs
      /\ work[p] \in WorkState /\ j \in Jobs /\ job[j] \in JobRow
      /\ job \in [Jobs -> JobRow] /\ work \in [Procs -> WorkState]
      /\ job'[j].parent = job[j].parent
      /\ OwnWork(p) /\ OwnJob(j)
      /\ Rows' = Rows /\ Bad' = Bad /\ SourceRows' = SourceRows
      /\ IsRetry(j) =>
                /\ job[j].parent \in Jobs \ {j}
                /\ failures'[job[j].parent] = failures[job[j].parent]
  BY OwnHand DEF Inner
<1>1. IsRetry(j)' <=> IsRetry(j)
  BY <1>0 DEF IsRetry
<1>2. IsRetry(j) => Retryable(job[j].parent)' = Retryable(job[j].parent)
  BY <1>0 DEF Retryable
<1>n. /\ SourceRows \in Nat /\ Rows = 1 .. SourceRows
      /\ work[p].ok \in Nat /\ work[p].bad \in Nat
      /\ work[p].batch \subseteq Rows /\ work[p].todo \subseteq Rows
      /\ Cardinality(work[p].batch) \in Nat
      /\ Cardinality({}) = 0
  BY <1>0, ScopeFacts, FS_EmptySet DEF WorkState, Rows
<1>3. /\ work'[p].job = work[p].job /\ work'[p].batch = work[p].batch
      /\ work'[p].todo = work[p].todo
      /\ work'[p].ok = work[p].ok /\ work'[p].bad = work[p].bad /\ work'[p].snap = work[p].snap
  BY <1>0 DEF WorkState
<1>4. ~ IsRetry(j) => SnapFacts(p)'
  BY <1>0, <1>3 DEF OwnWork, SnapFacts, Feeding
<1>5. IsRetry(j) => RetryFacts(p)'
  BY <1>0, <1>2, <1>3 DEF OwnWork, RetryFacts, Feeding
<1>6. ~ IsRetry(j) /\ Bad = {} => CountFacts(p)'
  BY <1>0, <1>3, <1>n DEF OwnWork, CountFacts, Last, Counted, Feeding
<1> QED
  BY <1>0, <1>1, <1>3, <1>4, <1>5, <1>6 DEF OwnWork

\* ReadJob keeps what an undisturbed worker knows.
LEMMA OwnReadJob ==
    ASSUME TypeInv, HoldInv, OwnInv, Undisturbed, Grows, scope' = scope,
           NEW p \in scope.procs, NEW j, j = work[p].job, ReadJob(p), Feeding(p)
    PROVE  OwnWork(p)'
<1>0. /\ TypeOK /\ WorkFacts(p) /\ p \in Procs
      /\ work[p] \in WorkState /\ j \in Jobs /\ job[j] \in JobRow
      /\ job \in [Jobs -> JobRow] /\ work \in [Procs -> WorkState]
      /\ job'[j].parent = job[j].parent
      /\ OwnWork(p) /\ OwnJob(j)
      /\ Rows' = Rows /\ Bad' = Bad /\ SourceRows' = SourceRows
      /\ IsRetry(j) =>
                /\ job[j].parent \in Jobs \ {j}
                /\ failures'[job[j].parent] = failures[job[j].parent]
  BY OwnHand DEF Inner
<1>1. IsRetry(j)' <=> IsRetry(j)
  BY <1>0 DEF IsRetry
<1>2. IsRetry(j) => Retryable(job[j].parent)' = Retryable(job[j].parent)
  BY <1>0 DEF Retryable
<1>n. /\ SourceRows \in Nat /\ Rows = 1 .. SourceRows
      /\ work[p].ok \in Nat /\ work[p].bad \in Nat
      /\ work[p].batch \subseteq Rows /\ work[p].todo \subseteq Rows
      /\ Cardinality(work[p].batch) \in Nat
      /\ Cardinality({}) = 0
  BY <1>0, ScopeFacts, FS_EmptySet DEF WorkState, Rows
<1>3. CASE IsRetry(j)
  <2>1. /\ work'[p] = [work[p] EXCEPT !.pc = "open", !.todo = Retryable(job[j].parent)]
        /\ UNCHANGED <<job, written>>
    BY <1>0, <1>3 DEF ReadJob
  <2>2. work'[p].job = j /\ work'[p].todo = Retryable(job[j].parent) /\ work'[p].pc = "open"
    BY <1>0, <2>1 DEF WorkState
  <2>3. RetryFacts(p)'
    BY <1>2, <1>3, <2>1, <2>2 DEF RetryFacts
  <2> QED
    BY <1>1, <1>3, <2>2, <2>3 DEF OwnWork
<1>4. CASE ~ IsRetry(j)
  <2>1. /\ work'[p] = [work[p] EXCEPT !.pc = "open", !.cursor = job[j].cursor,
                                 !.todo = {n \in Rows : n > job[j].cursor},
                                 !.ok = job[j].ok, !.bad = job[j].bad, !.snap = job[j].snap]
        /\ UNCHANGED <<job, written>>
    BY <1>0, <1>4 DEF ReadJob
  <2>2. /\ work'[p].job = j /\ work'[p].pc = "open" /\ work'[p].snap = job[j].snap
        /\ work'[p].todo = {n \in Rows : n > job[j].cursor}
        /\ work'[p].ok = job[j].ok /\ work'[p].bad = job[j].bad /\ work'[p].batch = {}
    BY <1>0, <2>1 DEF WorkState, ReadJob, WorkFacts
  <2>3. SnapFacts(p)'
    BY <2>1, <2>2 DEF SnapFacts
  <2>4. Bad = {} => CountFacts(p)'
    <3> SUFFICES ASSUME Bad = {} PROVE CountFacts(p)'
      OBVIOUS
    <3>1. job[j].ok + job[j].bad = job[j].cursor /\ job[j].cursor <= SourceRows
          /\ job[j].cursor \in Nat
      BY <1>0, <1>4 DEF OwnJob, OwnCount, Processed, JobRow
    <3>2. Counted(p)' = job[j].cursor /\ Last(p)' = job[j].cursor
      BY <1>n, <2>2, <3>1 DEF Counted, Last
    <3>3. {n \in Rows : job[j].cursor < n /\ n <= job[j].cursor} = {}
      BY <1>n, <3>1
    <3> QED
      BY <1>0, <2>1, <2>2, <3>1, <3>2, <3>3 DEF CountFacts
  <2> QED
    BY <1>0, <1>1, <1>4, <2>2, <2>3, <2>4 DEF OwnWork
<1> QED
  BY <1>3, <1>4

\* OpenJob keeps what an undisturbed worker knows.
LEMMA OwnOpenJob ==
    ASSUME TypeInv, HoldInv, OwnInv, Undisturbed, Grows, scope' = scope,
           NEW p \in scope.procs, NEW j, j = work[p].job, OpenJob(p), Feeding(p)
    PROVE  OwnWork(p)'
<1>0. /\ TypeOK /\ WorkFacts(p) /\ p \in Procs
      /\ work[p] \in WorkState /\ j \in Jobs /\ job[j] \in JobRow
      /\ job \in [Jobs -> JobRow] /\ work \in [Procs -> WorkState]
      /\ job'[j].parent = job[j].parent
      /\ OwnWork(p) /\ OwnJob(j)
      /\ Rows' = Rows /\ Bad' = Bad /\ SourceRows' = SourceRows
      /\ IsRetry(j) =>
                /\ job[j].parent \in Jobs \ {j}
                /\ failures'[job[j].parent] = failures[job[j].parent]
  BY OwnHand DEF Inner
<1>1. IsRetry(j)' <=> IsRetry(j)
  BY <1>0 DEF IsRetry
<1>2. IsRetry(j) => Retryable(job[j].parent)' = Retryable(job[j].parent)
  BY <1>0 DEF Retryable
<1>n. /\ SourceRows \in Nat /\ Rows = 1 .. SourceRows
      /\ work[p].ok \in Nat /\ work[p].bad \in Nat
      /\ work[p].batch \subseteq Rows /\ work[p].todo \subseteq Rows
      /\ Cardinality(work[p].batch) \in Nat
      /\ Cardinality({}) = 0
  BY <1>0, ScopeFacts, FS_EmptySet DEF WorkState, Rows
<1>3. PICK pc \in {"dead", "row", "snapshot"} :
        /\ Step(p, pc)
        /\ pc = "row" => IsRetry(j) \/ work[p].snap # None
        /\ pc = "snapshot" => ~ IsRetry(j) /\ work[p].snap = None
  BY DEF OpenJob
<1>4. /\ work'[p].job = work[p].job /\ work'[p].batch = work[p].batch
      /\ work'[p].todo = work[p].todo
      /\ work'[p].ok = work[p].ok /\ work'[p].bad = work[p].bad /\ work'[p].snap = work[p].snap
      /\ work'[p].pc = pc /\ work[p].pc = "open"
  <2>1. pc \in WorkPcs
    BY DEF WorkPcs
  <2>2. work'[p] = [work[p] EXCEPT !.pc = pc]
    BY <1>0, <1>3, <2>1, StepWritten
  <2> QED
    BY <1>0, <2>2 DEF WorkState, OpenJob
<1>5. /\ job'[j].snap = job[j].snap /\ job'[j].ok = job[j].ok /\ job'[j].bad = job[j].bad
      /\ written'[j] = written[j]
  <2>1. job'[j] = job[j] \/ job'[j] = [job[j] EXCEPT !.lease = "live"]
    BY <1>0 DEF OpenJob
  <2> QED
    BY <1>0, <2>1 DEF OpenJob, JobRow
<1>6. ~ IsRetry(j) /\ pc # "dead" => SnapFacts(p)'
  BY <1>0, <1>3, <1>4, <1>5 DEF OwnWork, SnapFacts
<1>7. IsRetry(j) => RetryFacts(p)'
  BY <1>0, <1>2, <1>4, <1>5 DEF OwnWork, RetryFacts, Feeding
<1>8. ~ IsRetry(j) /\ Bad = {} => CountFacts(p)'
  BY <1>0, <1>4, <1>5, <1>n DEF OwnWork, CountFacts, Last, Counted, Feeding
<1> QED
  BY <1>0, <1>1, <1>4, <1>6, <1>7, <1>8 DEF OwnWork, Feeding

\* TakeSnapshot keeps what an undisturbed worker knows.
LEMMA OwnTakeSnapshot ==
    ASSUME TypeInv, HoldInv, OwnInv, Undisturbed, Grows, scope' = scope,
           NEW p \in scope.procs, NEW j, j = work[p].job, TakeSnapshot(p), Feeding(p)
    PROVE  OwnWork(p)'
<1>0. /\ TypeOK /\ WorkFacts(p) /\ p \in Procs
      /\ work[p] \in WorkState /\ j \in Jobs /\ job[j] \in JobRow
      /\ job \in [Jobs -> JobRow] /\ work \in [Procs -> WorkState]
      /\ job'[j].parent = job[j].parent
      /\ OwnWork(p) /\ OwnJob(j)
      /\ Rows' = Rows /\ Bad' = Bad /\ SourceRows' = SourceRows
      /\ IsRetry(j) =>
                /\ job[j].parent \in Jobs \ {j}
                /\ failures'[job[j].parent] = failures[job[j].parent]
  BY OwnHand DEF Inner
<1>1. IsRetry(j)' <=> IsRetry(j)
  BY <1>0 DEF IsRetry
<1>2. IsRetry(j) => Retryable(job[j].parent)' = Retryable(job[j].parent)
  BY <1>0 DEF Retryable
<1>n. /\ SourceRows \in Nat /\ Rows = 1 .. SourceRows
      /\ work[p].ok \in Nat /\ work[p].bad \in Nat
      /\ work[p].batch \subseteq Rows /\ work[p].todo \subseteq Rows
      /\ Cardinality(work[p].batch) \in Nat
      /\ Cardinality({}) = 0
  BY <1>0, ScopeFacts, FS_EmptySet DEF WorkState, Rows
<1>3. /\ work[p].pc = "snapshot" /\ ~ IsRetry(j)
      /\ UNCHANGED <<job, written>>
  BY <1>0 DEF TakeSnapshot, WorkFacts
<1>4. CASE work' = [work EXCEPT ![p] = [@ EXCEPT !.pc = "dead"]]
  BY <1>0, <1>4 DEF OwnWork, Feeding, WorkState
<1>5. CASE work' = [work EXCEPT ![p] = [@ EXCEPT !.pc = "set_snapshot",
                 !.snap = IF written[j] = {} THEN "clean" ELSE "dirty"]]
  <2>1. written[j] = {}
    BY <1>0, <1>3 DEF OwnWork, OwnJob, OwnSnap, SnapFacts
  <2>2. work'[p] = [work[p] EXCEPT !.pc = "set_snapshot", !.snap = "clean"]
    BY <1>0, <1>5, <2>1
  <2>3. /\ work'[p].job = work[p].job /\ work'[p].batch = work[p].batch
        /\ work'[p].todo = work[p].todo
        /\ work'[p].ok = work[p].ok /\ work'[p].bad = work[p].bad /\ work'[p].snap = "clean"
        /\ work'[p].pc = "set_snapshot"
    BY <1>0, <2>2 DEF WorkState
  <2>4. SnapFacts(p)'
    BY <2>3 DEF SnapFacts
  <2>5. Bad = {} => CountFacts(p)'
    BY <1>0, <1>3, <1>n, <2>3 DEF OwnWork, CountFacts, Last, Counted
  <2> QED
    BY <1>0, <1>1, <1>3, <2>3, <2>4, <2>5 DEF OwnWork
<1> QED
  BY <1>4, <1>5 DEF TakeSnapshot

\* SetSnapshot keeps what an undisturbed worker knows.
LEMMA OwnSetSnapshot ==
    ASSUME TypeInv, HoldInv, OwnInv, Undisturbed, Grows, scope' = scope,
           NEW p \in scope.procs, NEW j, j = work[p].job, SetSnapshot(p), Feeding(p)
    PROVE  OwnWork(p)'
<1>0. /\ TypeOK /\ WorkFacts(p) /\ p \in Procs
      /\ work[p] \in WorkState /\ j \in Jobs /\ job[j] \in JobRow
      /\ job \in [Jobs -> JobRow] /\ work \in [Procs -> WorkState]
      /\ job'[j].parent = job[j].parent
      /\ OwnWork(p) /\ OwnJob(j)
      /\ Rows' = Rows /\ Bad' = Bad /\ SourceRows' = SourceRows
      /\ IsRetry(j) =>
                /\ job[j].parent \in Jobs \ {j}
                /\ failures'[job[j].parent] = failures[job[j].parent]
  BY OwnHand DEF Inner
<1>1. IsRetry(j)' <=> IsRetry(j)
  BY <1>0 DEF IsRetry
<1>2. IsRetry(j) => Retryable(job[j].parent)' = Retryable(job[j].parent)
  BY <1>0 DEF Retryable
<1>n. /\ SourceRows \in Nat /\ Rows = 1 .. SourceRows
      /\ work[p].ok \in Nat /\ work[p].bad \in Nat
      /\ work[p].batch \subseteq Rows /\ work[p].todo \subseteq Rows
      /\ Cardinality(work[p].batch) \in Nat
      /\ Cardinality({}) = 0
  BY <1>0, ScopeFacts, FS_EmptySet DEF WorkState, Rows
<1>3. /\ work'[p].job = work[p].job /\ work'[p].batch = work[p].batch
      /\ work'[p].todo = work[p].todo
      /\ work'[p].ok = work[p].ok /\ work'[p].bad = work[p].bad
      /\ work'[p].pc = "row" /\ work[p].pc = "set_snapshot" /\ ~ IsRetry(j)
  <2>1. "row" \in WorkPcs
    BY DEF WorkPcs
  <2>2. work'[p] = [work[p] EXCEPT !.pc = "row"]
    BY <1>0, <2>1, StepWritten DEF SetSnapshot
  <2> QED
    BY <1>0, <2>2 DEF WorkState, SetSnapshot, WorkFacts
<1>4. work[p].snap = "clean"
  BY <1>0, <1>3 DEF OwnWork, SnapFacts
<1>5. job'[j] = [job[j] EXCEPT !.snap = "clean"] /\ written'[j] = written[j]
  BY <1>0, <1>4 DEF SetSnapshot
<1>6. job'[j].snap = "clean" /\ job'[j].ok = job[j].ok /\ job'[j].bad = job[j].bad
  BY <1>0, <1>5 DEF JobRow
<1>7. SnapFacts(p)'
  BY <1>3, <1>6, NoneApart DEF SnapFacts
<1>8. Bad = {} => CountFacts(p)'
  BY <1>0, <1>3, <1>6, <1>n DEF OwnWork, CountFacts, Last, Counted
<1> QED
  BY <1>0, <1>1, <1>3, <1>7, <1>8 DEF OwnWork

\* ReadRow keeps what an undisturbed worker knows.
LEMMA OwnReadRow ==
    ASSUME TypeInv, HoldInv, OwnInv, Undisturbed, Grows, scope' = scope,
           NEW p \in scope.procs, NEW j, j = work[p].job, ReadRow(p), Feeding(p)
    PROVE  OwnWork(p)'
<1>0. /\ TypeOK /\ WorkFacts(p) /\ p \in Procs
      /\ work[p] \in WorkState /\ j \in Jobs /\ job[j] \in JobRow
      /\ job \in [Jobs -> JobRow] /\ work \in [Procs -> WorkState]
      /\ job'[j].parent = job[j].parent
      /\ OwnWork(p) /\ OwnJob(j)
      /\ Rows' = Rows /\ Bad' = Bad /\ SourceRows' = SourceRows
      /\ IsRetry(j) =>
                /\ job[j].parent \in Jobs \ {j}
                /\ failures'[job[j].parent] = failures[job[j].parent]
  BY OwnHand DEF Inner
<1>1. IsRetry(j)' <=> IsRetry(j)
  BY <1>0 DEF IsRetry
<1>2. IsRetry(j) => Retryable(job[j].parent)' = Retryable(job[j].parent)
  BY <1>0 DEF Retryable
<1>n. /\ SourceRows \in Nat /\ Rows = 1 .. SourceRows
      /\ work[p].ok \in Nat /\ work[p].bad \in Nat
      /\ work[p].batch \subseteq Rows /\ work[p].todo \subseteq Rows
      /\ Cardinality(work[p].batch) \in Nat
      /\ Cardinality({}) = 0
  BY <1>0, ScopeFacts, FS_EmptySet DEF WorkState, Rows
<1>r. /\ work[p].pc = "row" /\ work[p].todo # {} /\ UNCHANGED <<job, written>>
      /\ Min(work[p].todo) \in work[p].todo /\ \A n \in work[p].todo : Min(work[p].todo) <= n
  BY <1>0, <1>n, RowFacts DEF ReadRow
<1>3. CASE Quit(p)
  BY <1>0, <1>3, QuitWritten DEF OwnWork, Feeding, NoWork
<1>4. CASE Step(p, "fail")
  <2>1. work'[p].pc = "fail" /\ work'[p].job = j
    <3>1. "fail" \in WorkPcs
      BY DEF WorkPcs
    <3>2. work'[p] = [work[p] EXCEPT !.pc = "fail"]
      BY <1>0, <1>4, <3>1, StepWritten
    <3> QED
      BY <1>0, <3>2 DEF WorkState
  <2> QED
    BY <1>1, <2>1 DEF OwnWork, SnapFacts, RetryFacts, CountFacts
<1>5. CASE /\ Min(work[p].todo) \in Bad
           /\ work' = [work EXCEPT ![p] =
                 [work[p] EXCEPT !.pc = "bad_record", !.todo = work[p].todo \ {Min(work[p].todo)},
                                 !.cursor = Min(work[p].todo), !.bad = work[p].bad + 1]]
  <2>1. /\ work'[p].job = j /\ work'[p].pc = "bad_record"
        /\ work'[p].bad = work[p].bad + 1
    BY <1>0, <1>5 DEF WorkState
  <2>2. ~ IsRetry(j) => SnapFacts(p)'
    BY <1>0, <1>r, <2>1 DEF OwnWork, SnapFacts, Feeding
  <2>3. IsRetry(j) => RetryFacts(p)'
    BY <1>n, <2>1 DEF RetryFacts
  <2> QED
    BY <1>0, <1>1, <1>5, <2>1, <2>2, <2>3 DEF OwnWork
<1>6. ASSUME NEW pc \in {"row", "flush", "check"},
             work' = [work EXCEPT ![p] =
                 [work[p] EXCEPT !.todo = work[p].todo \ {Min(work[p].todo)},
                                 !.batch = work[p].batch \cup {Min(work[p].todo)}, !.pc = pc]]
      PROVE  OwnWork(p)'
  <2>1. /\ work'[p].job = j /\ work'[p].pc = pc
        /\ work'[p].ok = work[p].ok /\ work'[p].bad = work[p].bad
        /\ work'[p].todo = work[p].todo \ {Min(work[p].todo)}
        /\ work'[p].batch = work[p].batch \cup {Min(work[p].todo)}
    BY <1>0, <1>6 DEF WorkState
  <2>2. ~ IsRetry(j) => SnapFacts(p)'
    BY <1>0, <1>r, <2>1 DEF OwnWork, SnapFacts, Feeding
  <2>3. IsRetry(j) => RetryFacts(p)'
    BY <1>0, <1>2, <1>r, <2>1 DEF OwnWork, RetryFacts, Feeding
  <2>4. ASSUME ~ IsRetry(j), Bad = {} PROVE CountFacts(p)'
    <3>1. CountFacts(p)
      BY <1>0, <2>4 DEF OwnWork
    <3>2. /\ Last(p) \in Nat /\ Counted(p) \in Nat /\ Counted(p) <= Last(p)
      BY <1>n, <1>r DEF Last, Counted
    <3>l. Last(p) = Counted(p) + Cardinality(work[p].batch)
      BY <1>r DEF Last
    <3>3. /\ work[p].todo = {n \in 1 .. SourceRows : n > Last(p)}
          /\ work[p].batch = {n \in 1 .. SourceRows : Counted(p) < n /\ n <= Last(p)}
      BY <1>n, <1>r, <3>1 DEF CountFacts
    <3>4. /\ Last(p) + 1 <= SourceRows
          /\ Min(work[p].todo) \notin work[p].batch
          /\ work[p].todo \ {Min(work[p].todo)} = {n \in 1 .. SourceRows : n > Last(p) + 1}
          /\ work[p].batch \cup {Min(work[p].todo)}
               = {n \in 1 .. SourceRows : Counted(p) < n /\ n <= Last(p) + 1}
      <4>1. Min(work[p].todo) \in 1 .. SourceRows /\ Min(work[p].todo) > Last(p)
        BY <1>r, <3>3
      <4>2. Last(p) + 1 \in work[p].todo
        BY <1>n, <3>2, <3>3, <4>1
      <4>3. Min(work[p].todo) = Last(p) + 1
        BY <1>n, <1>r, <3>2, <4>1, <4>2
      <4>4. Last(p) + 1 <= SourceRows
        BY <1>n, <3>2, <4>1, <4>3
      <4>5. Min(work[p].todo) \notin work[p].batch
        BY <1>n, <3>2, <3>3, <4>3
      <4>6. work[p].todo \ {Min(work[p].todo)} = {n \in 1 .. SourceRows : n > Last(p) + 1}
        <5>1. SourceRows \in Nat
          BY <1>n
        <5>2. ASSUME NEW n \in 1 .. SourceRows, n > Last(p), n # Last(p) + 1
              PROVE  n > Last(p) + 1
          BY <3>2, <5>1, <5>2
        <5>3. ASSUME NEW n \in 1 .. SourceRows, n > Last(p) + 1
              PROVE  n > Last(p) /\ n # Last(p) + 1
          BY <3>2, <5>1, <5>3
        <5> QED
          BY <3>3, <4>3, <5>2, <5>3
      <4>7. work[p].batch \cup {Min(work[p].todo)}
            = {n \in 1 .. SourceRows : Counted(p) < n /\ n <= Last(p) + 1}
        <5>1. SourceRows \in Nat
          BY <1>n
        <5>2. ASSUME NEW n \in 1 .. SourceRows, Counted(p) < n, n <= Last(p) + 1, n # Last(p) + 1
              PROVE  n <= Last(p)
          BY <3>2, <5>1, <5>2
        <5>3. ASSUME NEW n \in 1 .. SourceRows, n <= Last(p)
              PROVE  n <= Last(p) + 1
          BY <3>2, <5>1, <5>3
        <5>4. Last(p) + 1 \in 1 .. SourceRows /\ Counted(p) < Last(p) + 1 /\ Last(p) + 1 <= Last(p) + 1
          BY <3>2, <4>4, <5>1
        <5> QED
          BY <3>3, <4>3, <5>2, <5>3, <5>4
      <4> QED
        BY <4>4, <4>5, <4>6, <4>7
    <3>5. Cardinality(work'[p].batch) = Cardinality(work[p].batch) + 1
      BY <1>0, <1>n, <1>r, <2>1, <3>4, BatchGrows
    <3>6. Counted(p)' = Counted(p) /\ Last(p)' = Last(p) + 1
      BY <1>n, <1>r, <2>1, <3>2, <3>l, <3>5 DEF Counted, Last
    <3> QED
      BY <1>0, <1>n, <1>r, <2>1, <3>1, <3>4, <3>6 DEF CountFacts
  <2> QED
    BY <1>0, <1>1, <2>1, <2>2, <2>3, <2>4 DEF OwnWork
<1> QED
  BY <1>3, <1>4, <1>5, <1>6, ReadRowCases

\* A worker that stops knows nothing.
LEMMA OwnStops ==
    ASSUME NEW p \in Procs, ~ Feeding(p)'
    PROVE  OwnWork(p)'
BY DEF OwnWork

\* Going to the next statement keeps what an undisturbed worker knows.
LEMMA OwnSteps ==
    ASSUME TypeInv, HoldInv, OwnInv, Undisturbed, Grows, scope' = scope,
           NEW p \in scope.procs, Feeding(p), NEW j, j = work[p].job,
           \/ EndOfSource(p) \/ CheckCancelled(p) \/ CheckStatus(p) \/ FinishCheck(p)
           \/ BadRecord(p)
    PROVE  OwnWork(p)'
<1>0. TypeOK /\ p \in Procs
  BY InHand
<1>1. CASE Quit(p)
  <2>1. ~ Feeding(p)'
    BY <1>0, <1>1, QuitWritten DEF Feeding, NoWork
  <2> QED
    BY <1>0, <2>1, OwnStops
<1>2. CASE \E pc \in {"row", "bad_checkpoint", "check", "flush", "finish_check",
                          "finish"} : Step(p, pc)
  <2>1. PICK pc \in {"row", "bad_checkpoint", "check", "flush", "finish_check",
                          "finish"} : Step(p, pc)
    BY <1>2
  <2>2. work'[p] = [work[p] EXCEPT !.pc = pc] /\ pc \in WorkPcs
    <3>1. pc \in WorkPcs
      BY DEF WorkPcs
    <3> QED
      BY <1>0, <2>1, <3>1, StepWritten
  <2>3. work'[p].pc = pc
    BY <1>0, <2>2 DEF TypeOK, WorkState
  <2>4. /\ job' = job /\ written' = written
        /\ work[p].pc \in {"row", "bad_record", "check", "status", "finish_check"}
        /\ Inner(p)
    BY DEF EndOfSource, CheckCancelled, CheckStatus, FinishCheck, BadRecord, Inner
  <2> QED
    BY <2>2, <2>3, <2>4, OwnQuiet
<1> QED
  BY <1>1, <1>2 DEF EndOfSource, CheckCancelled, CheckStatus, FinishCheck, BadRecord

\* BadCheckpoint keeps what an undisturbed worker knows.
LEMMA OwnBadCheckpoint ==
    ASSUME TypeInv, HoldInv, OwnInv, Undisturbed, Grows, scope' = scope,
           NEW p \in scope.procs, NEW j, j = work[p].job, BadCheckpoint(p), Feeding(p)
    PROVE  OwnWork(p)'
<1>0. /\ TypeOK /\ WorkFacts(p) /\ p \in Procs
      /\ work[p] \in WorkState /\ j \in Jobs /\ job[j] \in JobRow
      /\ job \in [Jobs -> JobRow] /\ work \in [Procs -> WorkState]
      /\ job'[j].parent = job[j].parent
      /\ OwnWork(p) /\ OwnJob(j)
      /\ Rows' = Rows /\ Bad' = Bad /\ SourceRows' = SourceRows
      /\ IsRetry(j) =>
                /\ job[j].parent \in Jobs \ {j}
                /\ failures'[job[j].parent] = failures[job[j].parent]
  BY OwnHand DEF Inner
<1>1. IsRetry(j)' <=> IsRetry(j)
  BY <1>0 DEF IsRetry
<1>2. IsRetry(j) => Retryable(job[j].parent)' = Retryable(job[j].parent)
  BY <1>0 DEF Retryable
<1>n. /\ SourceRows \in Nat /\ Rows = 1 .. SourceRows
      /\ work[p].ok \in Nat /\ work[p].bad \in Nat
      /\ work[p].batch \subseteq Rows /\ work[p].todo \subseteq Rows
      /\ Cardinality(work[p].batch) \in Nat
      /\ Cardinality({}) = 0
  BY <1>0, ScopeFacts, FS_EmptySet DEF WorkState, Rows
<1>3. PICK pc \in {"fail", "row"} : Step(p, pc)
  BY DEF BadCheckpoint
<1>4. /\ work'[p].job = work[p].job /\ work'[p].batch = work[p].batch
      /\ work'[p].todo = work[p].todo
      /\ work'[p].ok = work[p].ok /\ work'[p].bad = work[p].bad
      /\ work'[p].pc = pc /\ work[p].pc = "bad_checkpoint"
      /\ written' = written
  <2>1. pc \in WorkPcs
    BY DEF WorkPcs
  <2>2. work'[p] = [work[p] EXCEPT !.pc = pc]
    BY <1>0, <1>3, <2>1, StepWritten
  <2> QED
    BY <1>0, <2>2 DEF WorkState, BadCheckpoint
<1>5. job'[j].snap = job[j].snap
  BY <1>0 DEF BadCheckpoint, SaveCounters, JobRow
<1>6. ~ IsRetry(j) => SnapFacts(p)'
  BY <1>0, <1>4, <1>5 DEF OwnWork, SnapFacts
<1>7. IsRetry(j) => RetryFacts(p)'
  BY <1>0, <1>2, <1>4 DEF OwnWork, RetryFacts, Feeding
<1>8. Bad # {}
  BY <1>0, <1>4 DEF WorkFacts
<1> QED
  BY <1>0, <1>1, <1>4, <1>6, <1>7, <1>8 DEF OwnWork

\* Flush keeps what an undisturbed worker knows.
LEMMA OwnFlush ==
    ASSUME TypeInv, HoldInv, OwnInv, Undisturbed, Grows, scope' = scope,
           NEW p \in scope.procs, NEW j, j = work[p].job, Flush(p), Feeding(p)
    PROVE  OwnWork(p)'
<1>0. /\ TypeOK /\ WorkFacts(p) /\ p \in Procs
      /\ work[p] \in WorkState /\ j \in Jobs /\ job[j] \in JobRow
      /\ job \in [Jobs -> JobRow] /\ work \in [Procs -> WorkState]
      /\ job'[j].parent = job[j].parent
      /\ OwnWork(p) /\ OwnJob(j)
      /\ Rows' = Rows /\ Bad' = Bad /\ SourceRows' = SourceRows
      /\ IsRetry(j) =>
                /\ job[j].parent \in Jobs \ {j}
                /\ failures'[job[j].parent] = failures[job[j].parent]
  BY OwnHand DEF Inner
<1>1. IsRetry(j)' <=> IsRetry(j)
  BY <1>0 DEF IsRetry
<1>2. IsRetry(j) => Retryable(job[j].parent)' = Retryable(job[j].parent)
  BY <1>0 DEF Retryable
<1>n. /\ SourceRows \in Nat /\ Rows = 1 .. SourceRows
      /\ work[p].ok \in Nat /\ work[p].bad \in Nat
      /\ work[p].batch \subseteq Rows /\ work[p].todo \subseteq Rows
      /\ Cardinality(work[p].batch) \in Nat
      /\ Cardinality({}) = 0
  BY <1>0, ScopeFacts, FS_EmptySet DEF WorkState, Rows
<1>3. work[p].pc = "flush" /\ work[p].batch # {} /\ job' = job
  BY <1>0 DEF Flush, WorkFacts
<1>4. /\ work'[p].job = work[p].job /\ work'[p].batch = work[p].batch
      /\ work'[p].todo = work[p].todo
      /\ work'[p].ok = work[p].ok + Cardinality(work[p].batch) /\ work'[p].bad = work[p].bad
      /\ work'[p].pc = "checkpoint" /\ work'[p].cursor = NextCursor(p)
  <2>1. work'[p] = [work[p] EXCEPT !.pc = "checkpoint",
                                 !.ok = work[p].ok + Cardinality(work[p].batch),
                                 !.cursor = NextCursor(p)]
    BY <1>0 DEF Flush
  <2> QED
    BY <1>0, <2>1 DEF WorkState
<1>w. written'[j] = written[j] \cup work[p].batch
  BY <1>0 DEF Flush, TypeOK
<1>5. ~ IsRetry(j) => SnapFacts(p)'
  BY <1>0, <1>3, <1>4 DEF OwnWork, SnapFacts
<1>6. IsRetry(j) => RetryFacts(p)'
  BY <1>0, <1>2, <1>3, <1>4, <1>w DEF OwnWork, RetryFacts
<1>7. ASSUME ~ IsRetry(j), Bad = {} PROVE CountFacts(p)'
  <2>1. CountFacts(p)
    BY <1>0, <1>7 DEF OwnWork
  <2>2. /\ Last(p) \in Nat /\ Counted(p) \in Nat
        /\ Last(p) = Counted(p) + Cardinality(work[p].batch)
    BY <1>n, <1>3 DEF Last, Counted
  <2>3. NextCursor(p) = Last(p)
    <3>1. /\ Max(work[p].batch) \in work[p].batch
          /\ \A n \in work[p].batch : n <= Max(work[p].batch)
      BY <1>0, <1>n, <1>3, RowFacts
    <3>2. work[p].batch = {n \in Rows : Counted(p) < n /\ n <= Last(p)} /\ Last(p) <= SourceRows
      BY <1>3, <2>1 DEF CountFacts
    <3>3. Counted(p) < Last(p) /\ Max(work[p].batch) \in Nat /\ Max(work[p].batch) <= Last(p)
      <4>1. Max(work[p].batch) \in Rows /\ Counted(p) < Max(work[p].batch) /\ Max(work[p].batch) <= Last(p)
        BY <3>1, <3>2
      <4>2. Max(work[p].batch) \in Nat
        BY <1>n, <4>1
      <4> QED
        BY <2>2, <4>1, <4>2
    <3>4. Last(p) \in work[p].batch
      <4>1. Last(p) \in Rows
        BY <1>n, <2>2, <3>2, <3>3
      <4>2. Last(p) <= Last(p)
        BY <2>2
      <4> QED
        BY <3>2, <3>3, <4>1, <4>2
    <3>5. Last(p) <= Max(work[p].batch)
      BY <3>1, <3>4
    <3> QED
      BY <1>7, <2>2, <3>3, <3>5 DEF NextCursor
  <2>4. Counted(p)' = Last(p) /\ Last(p)' = Last(p)
    BY <1>n, <1>4, <2>2 DEF Counted, Last
  <2> QED
    BY <1>0, <1>3, <1>4, <2>1, <2>3, <2>4 DEF CountFacts
<1> QED
  BY <1>0, <1>1, <1>4, <1>5, <1>6, <1>7 DEF OwnWork

\* BatchRecorded keeps what an undisturbed worker knows.
LEMMA OwnBatchRecorded ==
    ASSUME TypeInv, HoldInv, OwnInv, Undisturbed, Grows, scope' = scope,
           NEW p \in scope.procs, NEW j, j = work[p].job, BatchRecorded(p), Feeding(p)
    PROVE  OwnWork(p)'
<1>0. /\ TypeOK /\ WorkFacts(p) /\ p \in Procs
      /\ work[p] \in WorkState /\ j \in Jobs /\ job[j] \in JobRow
      /\ job \in [Jobs -> JobRow] /\ work \in [Procs -> WorkState]
      /\ job'[j].parent = job[j].parent
      /\ OwnWork(p) /\ OwnJob(j)
      /\ Rows' = Rows /\ Bad' = Bad /\ SourceRows' = SourceRows
      /\ IsRetry(j) =>
                /\ job[j].parent \in Jobs \ {j}
                /\ failures'[job[j].parent] = failures[job[j].parent]
  BY OwnHand DEF Inner
<1>1. IsRetry(j)' <=> IsRetry(j)
  BY <1>0 DEF IsRetry
<1>2. IsRetry(j) => Retryable(job[j].parent)' = Retryable(job[j].parent)
  BY <1>0 DEF Retryable
<1>n. /\ SourceRows \in Nat /\ Rows = 1 .. SourceRows
      /\ work[p].ok \in Nat /\ work[p].bad \in Nat
      /\ work[p].batch \subseteq Rows /\ work[p].todo \subseteq Rows
      /\ Cardinality(work[p].batch) \in Nat
      /\ Cardinality({}) = 0
  BY <1>0, ScopeFacts, FS_EmptySet DEF WorkState, Rows
<1>3. work[p].pc = "record" /\ work[p].batch # {} /\ job' = job
  BY <1>0 DEF BatchRecorded, WorkFacts
<1>4. /\ work'[p].job = work[p].job /\ work'[p].batch = work[p].batch
      /\ work'[p].todo = work[p].todo
      /\ work'[p].ok = work[p].ok /\ work'[p].bad = work[p].bad + Cardinality(work[p].batch)
      /\ work'[p].pc = "checkpoint" /\ work'[p].cursor = NextCursor(p)
  <2>1. PICK b \in BOOLEAN : work' = [work EXCEPT ![p] =
             [work[p] EXCEPT !.pc = "checkpoint",
                             !.bad = work[p].bad + Cardinality(work[p].batch),
                             !.cursor = NextCursor(p), !.stop = b]]
    BY RecordedCase
  <2>2. work'[p] = [work[p] EXCEPT !.pc = "checkpoint",
                             !.bad = work[p].bad + Cardinality(work[p].batch),
                                   !.cursor = NextCursor(p), !.stop = b]
    BY <1>0, <2>1
  <2> QED
    BY <1>0, <2>2 DEF WorkState
<1>5. ~ IsRetry(j) => SnapFacts(p)'
  BY <1>0, <1>3, <1>4 DEF OwnWork, SnapFacts
<1>c. Cardinality(work[p].batch) # 0
  BY <1>0, <1>n, <1>3, ScopeFacts
<1>6. IsRetry(j) => RetryFacts(p)'
  <2>1. work'[p].bad # 0
    BY <1>n, <1>4, <1>c
  <2> QED
    BY <2>1 DEF RetryFacts
<1>7. ASSUME ~ IsRetry(j), Bad = {} PROVE CountFacts(p)'
  <2>1. CountFacts(p)
    BY <1>0, <1>7 DEF OwnWork
  <2>2. /\ Last(p) \in Nat /\ Counted(p) \in Nat
        /\ Last(p) = Counted(p) + Cardinality(work[p].batch)
    BY <1>n, <1>3 DEF Last, Counted
  <2>3. NextCursor(p) = Last(p)
    <3>1. /\ Max(work[p].batch) \in work[p].batch
          /\ \A n \in work[p].batch : n <= Max(work[p].batch)
      BY <1>0, <1>n, <1>3, RowFacts
    <3>2. work[p].batch = {n \in Rows : Counted(p) < n /\ n <= Last(p)} /\ Last(p) <= SourceRows
      BY <1>3, <2>1 DEF CountFacts
    <3>3. Counted(p) < Last(p) /\ Max(work[p].batch) \in Nat /\ Max(work[p].batch) <= Last(p)
      <4>1. Max(work[p].batch) \in Rows /\ Counted(p) < Max(work[p].batch) /\ Max(work[p].batch) <= Last(p)
        BY <3>1, <3>2
      <4>2. Max(work[p].batch) \in Nat
        BY <1>n, <4>1
      <4> QED
        BY <2>2, <4>1, <4>2
    <3>4. Last(p) \in work[p].batch
      <4>1. Last(p) \in Rows
        BY <1>n, <2>2, <3>2, <3>3
      <4>2. Last(p) <= Last(p)
        BY <2>2
      <4> QED
        BY <3>2, <3>3, <4>1, <4>2
    <3>5. Last(p) <= Max(work[p].batch)
      BY <3>1, <3>4
    <3> QED
      BY <1>7, <2>2, <3>3, <3>5 DEF NextCursor
  <2>4. Counted(p)' = Last(p) /\ Last(p)' = Last(p)
    BY <1>n, <1>4, <2>2 DEF Counted, Last
  <2> QED
    BY <1>0, <1>3, <1>4, <2>1, <2>3, <2>4 DEF CountFacts
<1> QED
  BY <1>0, <1>1, <1>4, <1>5, <1>6, <1>7 DEF OwnWork

\* Recording a failed batch keeps what an undisturbed worker knows.
LEMMA OwnRecording ==
    ASSUME TypeInv, HoldInv, OwnInv, Undisturbed, Grows, scope' = scope,
           NEW p \in scope.procs, NEW j, j = work[p].job, FlushFails(p) \/ RecordRow(p), Feeding(p)
    PROVE  OwnWork(p)'
<1>0. /\ TypeOK /\ WorkFacts(p) /\ p \in Procs
      /\ work[p] \in WorkState /\ j \in Jobs /\ job[j] \in JobRow
      /\ job \in [Jobs -> JobRow] /\ work \in [Procs -> WorkState]
      /\ job'[j].parent = job[j].parent
      /\ OwnWork(p) /\ OwnJob(j)
      /\ Rows' = Rows /\ Bad' = Bad /\ SourceRows' = SourceRows
      /\ IsRetry(j) =>
                /\ job[j].parent \in Jobs \ {j}
                /\ failures'[job[j].parent] = failures[job[j].parent]
  BY OwnHand DEF Inner
<1>1. IsRetry(j)' <=> IsRetry(j)
  BY <1>0 DEF IsRetry
<1>2. IsRetry(j) => Retryable(job[j].parent)' = Retryable(job[j].parent)
  BY <1>0 DEF Retryable
<1>n. /\ SourceRows \in Nat /\ Rows = 1 .. SourceRows
      /\ work[p].ok \in Nat /\ work[p].bad \in Nat
      /\ work[p].batch \subseteq Rows /\ work[p].todo \subseteq Rows
      /\ Cardinality(work[p].batch) \in Nat
      /\ Cardinality({}) = 0
  BY <1>0, ScopeFacts, FS_EmptySet DEF WorkState, Rows
<1>3. work[p].pc \in {"flush", "record"} /\ job' = job /\ written' = written
  BY DEF FlushFails, RecordRow
<1>4. /\ work'[p].job = work[p].job /\ work'[p].batch = work[p].batch
      /\ work'[p].todo = work[p].todo
      /\ work'[p].ok = work[p].ok /\ work'[p].bad = work[p].bad
      /\ work'[p].pc = "record"
  <2>1. CASE FlushFails(p)
    <3>1. work'[p] = [work[p] EXCEPT !.pc = "record", !.left = work[p].batch]
      BY <1>0, <2>1 DEF FlushFails
    <3> QED
      BY <1>0, <3>1 DEF WorkState
  <2>2. CASE RecordRow(p)
    <3>1. work'[p] = [work[p] EXCEPT !.left = work[p].left \ {Min(work[p].left)}]
      BY <1>0, <2>2 DEF RecordRow
    <3> QED
      BY <1>0, <2>2, <3>1 DEF RecordRow, WorkState
  <2> QED
    BY <2>1, <2>2
<1>5. ~ IsRetry(j) => SnapFacts(p)'
  BY <1>0, <1>3, <1>4 DEF OwnWork, SnapFacts
<1>6. IsRetry(j) => RetryFacts(p)'
  BY <1>0, <1>2, <1>3, <1>4 DEF OwnWork, RetryFacts
<1>7. ~ IsRetry(j) /\ Bad = {} => CountFacts(p)'
  BY <1>0, <1>3, <1>4, <1>n DEF OwnWork, CountFacts, Last, Counted
<1> QED
  BY <1>0, <1>1, <1>4, <1>5, <1>6, <1>7 DEF OwnWork

\* Checkpoint keeps what an undisturbed worker knows.
LEMMA OwnCheckpoint ==
    ASSUME TypeInv, HoldInv, OwnInv, Undisturbed, Grows, scope' = scope,
           NEW p \in scope.procs, NEW j, j = work[p].job, Checkpoint(p), Feeding(p)
    PROVE  OwnWork(p)'
<1>0. /\ TypeOK /\ WorkFacts(p) /\ p \in Procs
      /\ work[p] \in WorkState /\ j \in Jobs /\ job[j] \in JobRow
      /\ job \in [Jobs -> JobRow] /\ work \in [Procs -> WorkState]
      /\ job'[j].parent = job[j].parent
      /\ OwnWork(p) /\ OwnJob(j)
      /\ Rows' = Rows /\ Bad' = Bad /\ SourceRows' = SourceRows
      /\ IsRetry(j) =>
                /\ job[j].parent \in Jobs \ {j}
                /\ failures'[job[j].parent] = failures[job[j].parent]
  BY OwnHand DEF Inner
<1>1. IsRetry(j)' <=> IsRetry(j)
  BY <1>0 DEF IsRetry
<1>2. IsRetry(j) => Retryable(job[j].parent)' = Retryable(job[j].parent)
  BY <1>0 DEF Retryable
<1>n. /\ SourceRows \in Nat /\ Rows = 1 .. SourceRows
      /\ work[p].ok \in Nat /\ work[p].bad \in Nat
      /\ work[p].batch \subseteq Rows /\ work[p].todo \subseteq Rows
      /\ Cardinality(work[p].batch) \in Nat
      /\ Cardinality({}) = 0
  BY <1>0, ScopeFacts, FS_EmptySet DEF WorkState, Rows
<1>3. PICK pc \in {"fail", "finish_check", "row", "status"} :
        work' = [work EXCEPT ![p] = [work[p] EXCEPT !.batch = {}, !.pc = pc]]
  BY DEF Checkpoint
<1>4. /\ work'[p].job = work[p].job /\ work'[p].batch = {} /\ work'[p].todo = work[p].todo
      /\ work'[p].ok = work[p].ok /\ work'[p].bad = work[p].bad
      /\ work'[p].pc = pc /\ work[p].pc = "checkpoint" /\ written' = written
  <2>1. work'[p] = [work[p] EXCEPT !.batch = {}, !.pc = pc]
    BY <1>0, <1>3
  <2> QED
    BY <1>0, <2>1 DEF WorkState, Checkpoint
<1>w. /\ job'[j].snap = job[j].snap
      /\ job'[j].ok = work[p].ok /\ job'[j].bad = work[p].bad
  <2>1. job'[j] = [job[j] EXCEPT !.cursor = work[p].cursor, !.ok = work[p].ok,
                                !.bad = work[p].bad, !.lease = "live"]
    BY <1>0, OwnHand DEF Checkpoint, SaveCounters, Holds, Inner
  <2> QED
    BY <1>0, <2>1 DEF JobRow
<1>5. ~ IsRetry(j) => SnapFacts(p)'
  BY <1>0, <1>4, <1>w DEF OwnWork, SnapFacts
<1>6. IsRetry(j) => RetryFacts(p)'
  BY <1>0, <1>2, <1>4 DEF OwnWork, RetryFacts
<1>7. ASSUME ~ IsRetry(j), Bad = {}, pc # "fail" PROVE CountFacts(p)'
  <2>1. CountFacts(p)
    BY <1>0, <1>7 DEF OwnWork
  <2>2. Counted(p) \in Nat /\ Last(p) = Counted(p)
    BY <1>n, <1>4 DEF Last, Counted
  <2>3. Counted(p)' = Counted(p) /\ Last(p)' = Counted(p)
    BY <1>n, <1>4, <2>2 DEF Counted, Last
  <2>4. {n \in Rows : Counted(p) < n /\ n <= Counted(p)} = {}
    BY <1>n, <2>2
  <2> QED
    BY <1>0, <1>4, <1>7, <1>w, <2>1, <2>2, <2>3, <2>4 DEF CountFacts
<1>8. pc = "fail" => CountFacts(p)'
  BY <1>4 DEF CountFacts
<1> QED
  BY <1>0, <1>1, <1>4, <1>5, <1>6, <1>7, <1>8 DEF OwnWork

\* Exceptions and crashes.
LEMMA OwnFaults ==
    ASSUME TypeInv, NEW p \in scope.procs, IoFails(p) \/ Crash(p)
    PROVE  OwnWork(p)'
<1>0. TypeOK /\ p \in Procs /\ work[p] \in WorkState /\ work \in [Procs -> WorkState]
  BY InHand
<1>1. CASE Step(p, "fail")
  <2>1. "fail" \in WorkPcs
    BY DEF WorkPcs
  <2>2. work'[p] = [work[p] EXCEPT !.pc = "fail"]
    BY <1>0, <1>1, <2>1, StepWritten
  <2>3. work'[p].pc = "fail"
    BY <1>0, <2>2 DEF WorkState
  <2> QED
    BY <2>3 DEF OwnWork, SnapFacts, RetryFacts, CountFacts
<1>2. CASE Step(p, "dead")
  <2>1. "dead" \in WorkPcs
    BY DEF WorkPcs
  <2>2. work'[p] = [work[p] EXCEPT !.pc = "dead"]
    BY <1>0, <1>2, <2>1, StepWritten
  <2>3. work'[p].pc = "dead"
    BY <1>0, <2>2 DEF WorkState
  <2> QED
    BY <1>0, <2>3, OwnStops DEF Feeding
<1>3. CASE Crash(p)
  <2>1. ~ Feeding(p)'
    BY <1>0, <1>3, QuitWritten DEF Crash, Feeding, NoWork
  <2> QED
    BY <1>0, <2>1, OwnStops
<1> QED
  BY <1>1, <1>2, <1>3 DEF IoFails

\* A worker that goes on keeps what it knows.
LEMMA OwnInnerWork ==
    ASSUME TypeInv, HoldInv, OwnInv, Undisturbed, Grows, scope' = scope,
           NEW p \in scope.procs, Inner(p), Feeding(p)
    PROVE  OwnWork(p)'
BY OwnReadJob, OwnOpenJob, OwnTakeSnapshot, OwnSetSnapshot, OwnReadRow, OwnSteps,
   OwnBadCheckpoint, OwnFlush, OwnBatchRecorded, OwnRecording, OwnCheckpoint,
   OwnFaults DEF Inner

\* A step within a job keeps what an undisturbed worker knows.
LEMMA OwnInner ==
    ASSUME TypeInv, HoldInv, OwnInv, Undisturbed, Grows, scope' = scope,
           NEW p \in scope.procs, Inner(p)
    PROVE  OwnInv'
<1>0. p \in Procs /\ \A q \in Procs \ {p} : work'[q] = work[q]
  BY InHand, InnerLocal
<1>1. CASE Feeding(p)
  <2> PICK own : own = work[p].job
    OBVIOUS
  <2>1. own \in Jobs /\ Holds(p) /\ job[own].status \notin Terminal
    BY <1>1, OwnHand DEF Terminal
  <2>2. \A q \in Procs \ {p} : work'[q] = work[q] /\ (Feeding(q) => work[q].job # own)
    BY <1>0, <1>1, <2>1 DEF HoldInv, Holds
  <2>3. OwnWork(p)' /\ OwnJob(own)'
    BY <1>1, OwnInnerWork, OwnInnerJob
  <2>4. \A j \in Jobs \ {own} : /\ job'[j] = job[j]
                               /\ written'[j] = written[j]
                               /\ failures'[j] = failures[j]
    BY InnerOwn
  <2>5. own \in Jobs => (job[own].status \notin Terminal
                          \/ (job'[own].status = job[own].status /\ failures'[own] = failures[own]))
    BY <2>1
  <2> QED
    BY <2>2, <2>3, <2>4, <2>5, OwnFrame
<1>2. CASE ~ Feeding(p)
  <2>1. (Crash(p) \/ IoFails(p)) /\ UNCHANGED <<job, written, failures>>
    BY <1>2, InnerLocal DEF Crash, IoFails
  <2>2. OwnWork(p)'
    BY <2>1, OwnFaults
  <2>3. \A q \in Procs \ {p} : work'[q] = work[q] /\ (Feeding(q) => work[q].job # None)
    BY <1>0, NoneApart DEF TypeInv, WorkFacts, Feeding
  <2>4. \A j \in Jobs \ {None} : /\ job'[j] = job[j]
                                /\ written'[j] = written[j]
                                /\ failures'[j] = failures[j]
    BY <2>1
  <2> QED
    BY <2>2, <2>3, <2>4, NoneApart, OwnFrame
<1> QED
  BY <1>1, <1>2

\* Claim keeps what an undisturbed worker knows.
LEMMA OwnClaim ==
    ASSUME TypeInv, HoldInv, OwnInv, Undisturbed, scope' = scope,
           NEW p \in scope.procs, Claim(p)
    PROVE  OwnInv'
<1>0. p \in Procs /\ job \in [Jobs -> JobRow]
  BY InHand
<1>1. PICK j \in Jobs : Claims(p, j)
  BY ClaimRows
<1>2. /\ Claimable(j)
      /\ \A k \in Jobs \ {j} : job'[k] = job[k]
      /\ job'[j].status = "running"
      /\ job'[j].parent = job[j].parent /\ job'[j].snap = job[j].snap
      /\ job'[j].cursor = job[j].cursor
      /\ job'[j].ok = job[j].ok /\ job'[j].bad = job[j].bad
      /\ \A q \in Procs \ {p} : work'[q] = work[q]
      /\ work'[p].pc = "claimed" /\ work'[p].job = j
      /\ UNCHANGED <<failures, written>>
  BY <1>1 DEF Claims
<1>3. job[j].status \notin Terminal
  BY <1>2 DEF Claimable, Terminal
<1>4. \A q \in Procs \ {p} : work'[q] = work[q] /\ (Feeding(q) => work[q].job # j)
  BY <1>2 DEF HoldInv, Holds, Claimable
<1>5. OwnWork(p)'
  BY <1>2 DEF OwnWork, SnapFacts, RetryFacts, CountFacts
<1>6. OwnJob(j)'
  <2>1. OwnJob(j) /\ (IsRetry(j)' <=> IsRetry(j))
    BY <1>2 DEF OwnInv, IsRetry
  <2>2. OwnSnap(j)'
    BY <1>2, <2>1 DEF OwnJob, OwnSnap
  <2>3. OwnRetry(j)'
    <3>1. IsRetry(j) => job[j].parent \in Jobs \ {j}
      BY <1>0, <1>2, <1>3, <2>1 DEF OwnJob, OwnRetry, IsRetry, JobRow
    <3> QED
      BY <1>2, <2>1, <3>1 DEF OwnJob, OwnRetry
  <2>4. OwnCount(j)'
    BY <1>2, <2>1 DEF OwnJob, OwnCount, Processed, Bad, SourceRows
  <2> QED
    BY <2>2, <2>3, <2>4 DEF OwnJob
<1>7. \A i \in Jobs \ {j} : /\ job'[i] = job[i]
                          /\ written'[i] = written[i]
                          /\ failures'[i] = failures[i]
  BY <1>2
<1>8. j \in Jobs => (job[j].status \notin Terminal
                          \/ (job'[j].status = job[j].status /\ failures'[j] = failures[j]))
  BY <1>3
<1> QED
  BY <1>4, <1>5, <1>6, <1>7, <1>8, OwnFrame

\* The end of a job keeps what an undisturbed worker knows.
LEMMA OwnEnd ==
    ASSUME TypeInv, HoldInv, OwnInv, Undisturbed, scope' = scope,
           NEW p \in scope.procs, Finish(p) \/ Fail(p)
    PROVE  OwnInv'
<1>0. /\ TypeOK /\ WorkFacts(p) /\ p \in Procs
      /\ work[p] \in WorkState
      /\ work[p].pc \notin {"idle", "dead"} \/ work[p].job # None =>
              work[p].job \in Jobs /\ job[work[p].job] \in JobRow
      /\ job \in [Jobs -> JobRow]
  BY InHand
<1>1. /\ work[p].job \in Jobs /\ Feeding(p)
      /\ \A q \in Procs \ {p} : work'[q] = work[q]
      /\ work'[p] = NoWork
      /\ \A j \in Jobs \ {work[p].job} : job'[j] = job[j]
      /\ UNCHANGED <<failures, written>>
  BY EndRows
<1> PICK j : j = work[p].job
  OBVIOUS
<1>2. Holds(p) /\ OwnWork(p) /\ OwnJob(j) /\ job[j].status = "running"
  BY <1>0, <1>1 DEF HoldInv, OwnInv, Holds
<1>3. job[j].status \notin Terminal
  BY <1>2 DEF Terminal
<1>4. \A q \in Procs \ {p} : work'[q] = work[q] /\ (Feeding(q) => work[q].job # j)
  BY <1>0, <1>1, <1>2 DEF HoldInv, Holds
<1>5. OwnWork(p)'
  BY <1>1 DEF OwnWork, Feeding, NoWork
<1>r. PICK s \in Terminal :
        /\ Release(j, s)
        /\ s \in {"completed", "completed_with_errors"} =>
             work[p].pc = "finish" /\ (s = "completed" => work[p].bad = 0)
  BY DEF Finish, Fail, Terminal
<1>6. /\ job'[j].status = s /\ job'[j].parent = job[j].parent /\ job'[j].snap = job[j].snap
      /\ job'[j].cursor = job[j].cursor /\ job'[j].ok = job[j].ok /\ job'[j].bad = job[j].bad
  BY <1>0, <1>1, <1>r DEF Release, JobRow
<1>7. OwnJob(j)'
  <2>1. (IsRetry(j)' <=> IsRetry(j)) /\ Rows' = Rows /\ SourceRows' = SourceRows /\ Bad' = Bad
    BY <1>6 DEF IsRetry, Rows, SourceRows, Bad
  <2>2. OwnSnap(j)'
    BY <1>1, <1>2, <1>6, <2>1 DEF OwnJob, OwnSnap
  <2>3. OwnRetry(j)'
    <3> SUFFICES ASSUME IsRetry(j) PROVE OwnRetry(j)'
      BY <2>1 DEF OwnRetry
    <3>1. job[j].parent \in Jobs \ {j} /\ job[job[j].parent].status \in Terminal
      BY <1>0, <1>1, <1>2, <1>3 DEF OwnJob, OwnRetry, IsRetry, JobRow
    <3>2. s = "completed" => Retryable(job[j].parent) \subseteq written[j]
      <4>1. work[p].pc = "finish" => work[p].batch = {} /\ work[p].todo = {}
        BY <1>0 DEF WorkFacts
      <4> QED
        BY <1>1, <1>2, <1>r, <4>1 DEF OwnWork, RetryFacts
    <3> QED
      BY <1>1, <1>6, <3>1, <3>2 DEF OwnRetry, Retryable
  <2>4. OwnCount(j)'
    <3> SUFFICES ASSUME ~ IsRetry(j), Bad = {} PROVE OwnCount(j)'
      BY <2>1 DEF OwnCount
    <3>1. s \in {"completed", "completed_with_errors"} => Processed(job[j]) = SourceRows
      <4> SUFFICES ASSUME work[p].pc = "finish" PROVE Processed(job[j]) = SourceRows
        BY <1>r
      <4>1. work[p].batch = {} /\ work[p].todo = {}
        BY <1>0 DEF WorkFacts
      <4>2. /\ Last(p) <= SourceRows
            /\ work[p].todo = {n \in Rows : n > Last(p)}
            /\ job[j].ok = work[p].ok /\ job[j].bad = work[p].bad
        BY <1>1, <1>2 DEF OwnWork, CountFacts
      <4>3. Last(p) = work[p].ok + work[p].bad /\ Last(p) \in Nat /\ SourceRows \in Nat
        BY <1>0, <4>1, FS_EmptySet, ScopeFacts DEF Last, Counted, WorkState
      <4>4. ~ (Last(p) < SourceRows)
        <5>1. ASSUME Last(p) < SourceRows PROVE SourceRows \in Rows /\ SourceRows > Last(p)
          BY <4>3, <5>1 DEF Rows
        <5> QED
          BY <4>1, <4>2, <5>1
      <4> QED
        BY <4>2, <4>3, <4>4 DEF Processed
    <3> QED
      BY <1>2, <1>6, <2>1, <3>1 DEF OwnJob, OwnCount, Processed
  <2> QED
    BY <2>2, <2>3, <2>4 DEF OwnJob
<1>8. \A i \in Jobs \ {j} : /\ job'[i] = job[i]
                          /\ written'[i] = written[i]
                          /\ failures'[i] = failures[i]
  BY <1>1
<1> QED
  BY <1>1, <1>3, <1>4, <1>5, <1>7, <1>8, OwnFrame

\* A request, or the clock, keeps what an undisturbed worker knows.
LEMMA OwnRequest ==
    ASSUME TypeInv, HoldInv, OwnInv, Undisturbed, scope' = scope,
           NEW j \in Jobs, Request(j) \/ Expire(j)
    PROVE  OwnInv'
<1>0. TypeOK /\ job \in [Jobs -> JobRow] /\ job[j] \in JobRow
  BY DEF TypeInv, TypeOK
<1>1. UNCHANGED <<failures, written, work>>
  BY DEF Request, Create, CreateRetry, Pause, Resume, Cancel, Expire
<1>2. ~ Pause(j) /\ ~ Resume(j) /\ ~ Cancel(j)
  BY DEF Undisturbed, Pause, Resume, Cancel
<1>3. \A q \in Procs : Feeding(q) => job[work[q].job].status = "running" /\ job[work[q].job].worker = q
  BY DEF HoldInv, Holds
<1>4. OwnJob(j)
  BY DEF OwnInv
<1>c. Rows' = Rows /\ SourceRows' = SourceRows /\ Bad' = Bad
  BY DEF Rows, SourceRows, Bad
<1> DEFINE Goal == /\ job[j].status \notin Terminal \/ job'[j].status = job[j].status
                   /\ \A q \in Procs : Feeding(q) => work[q].job # j
                   /\ \A i \in Jobs \ {j} : job'[i] = job[i]
                   /\ OwnJob(j)'
<1>5. ASSUME Create(j) PROVE Goal
  <2>1. job' = [job EXCEPT ![j] = [job[j] EXCEPT !.status = "queued"]] /\ job[j].status = "none"
    BY <1>5 DEF Create, NextFree
  <2>2. /\ job'[j].status = "queued" /\ job'[j].parent = job[j].parent /\ job'[j].snap = job[j].snap
        /\ job'[j].cursor = job[j].cursor /\ job'[j].ok = job[j].ok /\ job'[j].bad = job[j].bad
        /\ \A i \in Jobs \ {j} : job'[i] = job[i]
    BY <1>0, <2>1 DEF JobRow
  <2>3. IsRetry(j)' <=> IsRetry(j)
    BY <2>2 DEF IsRetry
  <2>4. OwnSnap(j)' /\ OwnCount(j)'
    BY <1>1, <1>4, <1>c, <2>2, <2>3 DEF OwnJob, OwnSnap, OwnCount, Processed
  <2>5. OwnRetry(j)'
    <3>1. IsRetry(j) => job[j].parent \in Jobs \ {j} /\ job[job[j].parent].status \in Terminal
      BY <1>0, <1>4, <2>1 DEF OwnJob, OwnRetry, IsRetry, JobRow, Terminal
    <3> QED
      BY <2>2, <2>3, <3>1 DEF OwnRetry
  <2> QED
    BY <1>3, <2>1, <2>2, <2>4, <2>5 DEF OwnJob, Terminal
<1>6. ASSUME NEW parent \in Jobs, CreateRetry(j, parent) PROVE Goal
  <2>1. /\ job' = [job EXCEPT ![j] = [job[j] EXCEPT !.status = "queued", !.parent = parent]]
        /\ job[j].status = "none" /\ job[parent].status \in Terminal
    BY <1>6 DEF CreateRetry, NextFree, Terminal
  <2>2. /\ job'[j].status = "queued" /\ job'[j].parent = parent /\ job'[j].snap = job[j].snap
        /\ \A i \in Jobs \ {j} : job'[i] = job[i]
    BY <1>0, <2>1 DEF JobRow
  <2>3. IsRetry(j)' /\ parent # j
    BY <2>1, <2>2, NoneApart DEF IsRetry, Terminal
  <2>4. OwnSnap(j)' /\ OwnCount(j)' /\ OwnRetry(j)'
    BY <1>4, <2>1, <2>2, <2>3 DEF OwnJob, OwnSnap, OwnCount, OwnRetry
  <2> QED
    BY <1>3, <2>1, <2>2, <2>4 DEF OwnJob, Terminal
<1>7. ASSUME Expire(j) PROVE Goal
  <2>1. job' = [job EXCEPT ![j] = [job[j] EXCEPT !.lease = "expired"]]
    BY <1>7 DEF Expire
  <2>2. /\ job'[j].status = job[j].status /\ job'[j].parent = job[j].parent
        /\ job'[j].snap = job[j].snap
        /\ job'[j].cursor = job[j].cursor /\ job'[j].ok = job[j].ok /\ job'[j].bad = job[j].bad
        /\ \A i \in Jobs \ {j} : job'[i] = job[i]
    BY <1>0, <2>1 DEF JobRow
  <2>3. IsRetry(j)' <=> IsRetry(j)
    BY <2>2 DEF IsRetry
  <2>4. OwnSnap(j)' /\ OwnCount(j)'
    BY <1>1, <1>4, <1>c, <2>2, <2>3 DEF OwnJob, OwnSnap, OwnCount, Processed
  <2>5. OwnRetry(j)'
    <3>1. IsRetry(j) => job[j].parent \in Jobs /\ job'[job[j].parent].status = job[job[j].parent].status
      BY <1>0, <2>2 DEF IsRetry, JobRow
    <3> QED
      BY <1>1, <1>4, <2>2, <2>3, <3>1 DEF OwnJob, OwnRetry, Retryable
  <2>6. \A q \in Procs : Feeding(q) => work[q].job # j
    BY <1>3, <1>7 DEF Expire, Abandoned, Undisturbed, Feeding
  <2> QED
    BY <2>2, <2>4, <2>5, <2>6 DEF OwnJob
<1>8. Goal
  <2> HIDE DEF Goal
  <2> QED
    BY <1>2, <1>5, <1>6, <1>7 DEF Request
<1>9. /\ job[j].status \notin Terminal \/ (job'[j].status = job[j].status /\ failures'[j] = failures[j])
      /\ \A q \in Procs \ {None} : work'[q] = work[q] /\ (Feeding(q) => work[q].job # j)
      /\ \A i \in Jobs \ {j} : /\ job'[i] = job[i]
                               /\ written'[i] = written[i]
                               /\ failures'[i] = failures[i]
      /\ OwnJob(j)'
  BY <1>1, <1>8
<1> HIDE DEF Goal
<1>10. j \in Jobs => (job[j].status \notin Terminal
                          \/ (job'[j].status = job[j].status /\ failures'[j] = failures[j]))
  BY <1>9
<1>11. None \in Procs => OwnWork(None)'
  BY NoneApart
<1> QED
  BY <1>9, <1>10, <1>11, OwnFrame

\* Every step keeps what an undisturbed worker knows.
LEMMA OwnNext == TypeInv /\ HoldInv /\ OwnInv /\ Grows /\ [Next]_vars => OwnInv'
<1> SUFFICES ASSUME TypeInv, HoldInv, OwnInv, Grows, [Next]_vars, Undisturbed, scope' = scope
             PROVE  OwnInv'
  BY DEF OwnInv, Next, vars, Undisturbed, Controls, Faults
<1>1. ASSUME NEW p \in scope.procs, Work(p) \/ IoFails(p) \/ Crash(p)
      PROVE  OwnInv'
  BY <1>1, OwnInner, OwnClaim, OwnEnd DEF Work, Inner
<1>2. ASSUME NEW j \in Jobs, Request(j) \/ Expire(j)
      PROVE  OwnInv'
  BY <1>2, OwnRequest
<1>3. ASSUME UNCHANGED <<job, failures, written, work>>
      PROVE  OwnInv'
  <2>1. /\ \A q \in Procs \ {None} : work'[q] = work[q] /\ (Feeding(q) => work[q].job # None)
        /\ \A i \in Jobs \ {None} : /\ job'[i] = job[i]
                                  /\ written'[i] = written[i]
                                  /\ failures'[i] = failures[i]
    BY <1>3, NoneApart DEF TypeInv, WorkFacts, Feeding
  <2> QED
    BY <2>1, NoneApart, OwnFrame
<1> QED
  BY <1>1, <1>2, <1>3 DEF Next, DeleteCatalog, vars

\* The initial states satisfy OwnInv.
LEMMA OwnInit == Init => OwnInv
<1> SUFFICES ASSUME Init PROVE OwnInv
  OBVIOUS
<1>1. \A p \in Procs : OwnWork(p)
  BY DEF Init, NoWork, OwnWork, Feeding
<1>2. ASSUME NEW j \in Jobs PROVE OwnJob(j)
  <2>1. job[j] = FreeRow /\ written[j] = {} /\ SourceRows \in Nat
    BY JobAssumption DEF Init, SourceRows
  <2> QED
    BY <2>1, NoneApart DEF FreeRow, OwnJob, OwnSnap, OwnRetry, OwnCount, IsRetry, Processed
<1> QED
  BY <1>1, <1>2 DEF OwnInv

-----------------------------------------------------------------------------
(* Where the rows of a source are *)

Accounted(j) == written[j] \cup Failed(j)

\* What a worker has read and not written is in its batch, or is the bad row in
\* its hands; what it has not read follows.
CoverWork(p) ==
    LET w == work[p]
    IN  w.pc \notin {"idle", "dead", "claimed", "fail"} /\ ~ IsRetry(w.job) =>
           /\ \A b \in w.todo, n \in Rows : n > b => n \in w.todo
           /\ w.batch \cap w.todo = {}
           /\ \A n \in Rows \ w.todo :
                 \/ n \in Accounted(w.job) \cup w.batch
                 \/ w.pc = "bad_record" /\ n = w.cursor
           /\ w.pc = "record" => w.batch \subseteq Accounted(w.job) \cup w.left
           /\ w.pc = "checkpoint" => w.batch \subseteq Accounted(w.job)
           /\ w.pc \in {"bad_record", "bad_checkpoint", "checkpoint"} => w.cursor \in Rows \ w.todo

\* A row that a checkpoint has passed is in a batch, or was in one when the job
\* ended.
Passed(j, n) ==
    /\ Solo
    /\ \/ \E p \in Procs : work[p].job = j /\ n \in work[p].batch
       \/ /\ job[j].status \in {"cancelled", "failed"}
          /\ \A p \in Procs : work[p].job # j

CoverJob(j) ==
    ~ IsRetry(j) =>
        /\ \A n \in Rows : n <= job[j].cursor => n \in Accounted(j) \/ Passed(j, n)
        /\ job[j].status \in {"completed", "completed_with_errors"} => Rows \subseteq Accounted(j)

CoverInv == NothingPassed => /\ \A p \in Procs : CoverWork(p)
                             /\ \A j \in Jobs : CoverJob(j)


\* What the steps of others keep.
LEMMA CoverFrame ==
    ASSUME TypeInv, CoverInv, Grows, NothingPassed, scope' = scope, NEW p,
           \A q \in Procs \ {p} : work'[q] = work[q],
           p \in Procs => CoverWork(p)',
           \A j \in Jobs :
              \/ IsRetry(j)'
              \/ /\ ~ IsRetry(j)
                 /\ job'[j].status \in {"completed", "completed_with_errors"} =>
                      \/ job[j].status \in {"completed", "completed_with_errors"}
                      \/ Rows \subseteq Accounted(j)'
                 /\ \A n \in Rows : n <= job'[j].cursor =>
                      n <= job[j].cursor \/ n \in Accounted(j)' \/ Passed(j, n)'
                 /\ \A n \in Rows : Passed(j, n) => n \in Accounted(j)' \/ Passed(j, n)'
    PROVE  CoverInv'
<1>0. Rows' = Rows /\ \A j \in Jobs : Accounted(j) \subseteq Accounted(j)'
  BY DEF Rows, SourceRows, Grows, Accounted
<1>1. ASSUME NEW q \in Procs, q # p PROVE CoverWork(q)'
  <2> SUFFICES ASSUME work[q].pc \notin {"idle", "dead", "claimed", "fail"}
               PROVE  CoverWork(q)'
    BY <1>1 DEF CoverWork
  <2>1. work'[q] = work[q] /\ CoverWork(q)
    BY <1>1 DEF CoverInv
  <2>2. work[q].job \in Jobs /\ job[work[q].job].status # "none"
    BY DEF TypeInv, TypeOK, WorkFacts, WorkState
  <2>3. IsRetry(work[q].job)' <=> IsRetry(work[q].job)
    BY <2>1, <2>2 DEF Grows, IsRetry
  <2>4. Accounted(work[q].job) \subseteq Accounted(work[q].job)'
    BY <1>0, <2>1, <2>2
  <2> QED
    BY <1>0, <2>1, <2>3, <2>4 DEF CoverWork
<1>2. ASSUME NEW j \in Jobs PROVE CoverJob(j)'
  <2>1. CoverJob(j)
    BY DEF CoverInv
  <2> QED
    BY <1>0, <1>2, <2>1 DEF CoverJob
<1> QED
  BY <1>1, <1>2 DEF CoverInv

\* Where there is one worker, the others are idle.
LEMMA Alone ==
    ASSUME TypeInv, NEW p \in scope.procs, Solo
    PROVE  \A q \in Procs : q # p => work[q].job = None /\ work[q].batch = {}
BY DEF Solo, TypeInv, WorkFacts

\* A step of a worker, but a claim, matters to its own job only.
LEMMA CoverOwn ==
    ASSUME TypeInv, CoverInv, Grows, NothingPassed, scope' = scope,
           NEW p \in scope.procs,
           \A q \in Procs \ {p} : work'[q] = work[q],
           CoverWork(p)',
           NEW own, own = work[p].job, work'[p].job \in {own, None},
           \A j \in Jobs \ {own} : job'[j] = job[j],
           \/ own \notin Jobs
           \/ IsRetry(own) /\ IsRetry(own)'
           \/ /\ ~ IsRetry(own)
              /\ job'[own].status \in {"completed", "completed_with_errors"} =>
                   \/ job[own].status \in {"completed", "completed_with_errors"}
                   \/ Rows \subseteq Accounted(own)'
              /\ \A n \in Rows : n <= job'[own].cursor =>
                   n <= job[own].cursor \/ n \in Accounted(own)' \/ Passed(own, n)'
              /\ \A n \in Rows : Passed(own, n) => n \in Accounted(own)' \/ Passed(own, n)'
    PROVE  CoverInv'
<1>0. p \in Procs
  BY InHand
<1>s. Solo' <=> Solo
  BY DEF Solo, MaxCrashes
<1>1. ASSUME NEW j \in Jobs, j # own, NEW n, Passed(j, n)
      PROVE  Passed(j, n)'
  <2>1. Solo /\ \A q \in Procs : q # p => work[q].job = None /\ work[q].batch = {}
    BY <1>1, Alone DEF Passed
  <2>2. j # None
    BY NoneApart
  <2>3. /\ job[j].status \in {"cancelled", "failed"}
        /\ \A q \in Procs : work[q].job # j
    BY <1>0, <1>1, <2>1, <2>2 DEF Passed
  <2>4. job'[j] = job[j] /\ \A q \in Procs : work'[q].job # j
    BY <1>1, <2>1, <2>2
  <2> QED
    BY <1>s, <2>1, <2>3, <2>4 DEF Passed
<1>2. ASSUME NEW j \in Jobs, j # own PROVE job'[j] = job[j]
  BY <1>2
<1>3. \A j \in Jobs :
         \/ IsRetry(j)'
         \/ /\ ~ IsRetry(j)
            /\ job'[j].status \in {"completed", "completed_with_errors"} =>
                 \/ job[j].status \in {"completed", "completed_with_errors"}
                 \/ Rows \subseteq Accounted(j)'
            /\ \A n \in Rows : n <= job'[j].cursor =>
                 n <= job[j].cursor \/ n \in Accounted(j)' \/ Passed(j, n)'
            /\ \A n \in Rows : Passed(j, n) => n \in Accounted(j)' \/ Passed(j, n)'
  <2> SUFFICES ASSUME NEW j \in Jobs
               PROVE \/ IsRetry(j)'
                     \/ /\ ~ IsRetry(j)
                        /\ job'[j].status \in {"completed", "completed_with_errors"} =>
                             \/ job[j].status \in {"completed", "completed_with_errors"}
                             \/ Rows \subseteq Accounted(j)'
                        /\ \A n \in Rows : n <= job'[j].cursor =>
                             n <= job[j].cursor \/ n \in Accounted(j)' \/ Passed(j, n)'
                        /\ \A n \in Rows : Passed(j, n) => n \in Accounted(j)' \/ Passed(j, n)'
    OBVIOUS
  <2>1. CASE j = own
    BY <2>1
  <2>2. CASE j # own
    <3>1. IsRetry(j)' <=> IsRetry(j)
      BY <1>2, <2>2 DEF IsRetry
    <3> QED
      BY <1>1, <1>2, <2>2, <3>1
  <2> QED
    BY <2>1, <2>2
<1> QED
  BY <1>0, <1>3, CoverFrame

\* What a worker in the middle of its job has in hand.
LEMMA CoverHand ==
    ASSUME TypeInv, CoverInv, NothingPassed, Grows, scope' = scope, NEW p \in scope.procs,
           NEW j, j = work[p].job, work[p].pc \notin {"idle", "dead"} \/ j # None
    PROVE  /\ TypeOK /\ WorkFacts(p) /\ p \in Procs /\ work[p] \in WorkState
           /\ j \in Jobs /\ job[j] \in JobRow
           /\ job \in [Jobs -> JobRow] /\ work \in [Procs -> WorkState]
           /\ CoverWork(p) /\ CoverJob(j)
           /\ Rows' = Rows /\ SourceRows \in Nat /\ Rows = 1 .. SourceRows
           /\ IsRetry(j)' <=> IsRetry(j)
           /\ Accounted(j) \subseteq Accounted(j)'
<1>0. /\ TypeOK /\ WorkFacts(p) /\ p \in Procs /\ work[p] \in WorkState
      /\ j \in Jobs /\ job[j] \in JobRow
      /\ job \in [Jobs -> JobRow] /\ work \in [Procs -> WorkState]
  BY InHand
<1>1. CoverWork(p) /\ CoverJob(j)
  BY <1>0 DEF CoverInv
<1>2. Rows' = Rows /\ SourceRows \in Nat /\ Rows = 1 .. SourceRows
  BY <1>0, ScopeFacts DEF Rows, SourceRows
<1>3. IsRetry(j)' <=> IsRetry(j)
  <2>1. j # None
    BY <1>0, NoneApart
  <2>2. job'[j].parent = job[j].parent
    BY <1>0, <2>1 DEF WorkFacts, Grows
  <2> QED
    BY <2>2 DEF IsRetry
<1>4. Accounted(j) \subseteq Accounted(j)'
  BY <1>0 DEF Accounted, Grows
<1> QED
  BY <1>0, <1>1, <1>2, <1>3, <1>4

\* A worker that keeps its batch, and its row's counters and status.
LEMMA CoverQuiet ==
    ASSUME TypeInv, CoverInv, NothingPassed, Grows, scope' = scope, NEW p \in scope.procs,
           NEW j, j = work[p].job, work[p].pc \notin {"idle", "dead"} \/ j # None,
           \A q \in Procs \ {p} : work'[q] = work[q],
           \A k \in Jobs \ {j} : job'[k] = job[k],
           CoverWork(p)', work'[p].job = j, work[p].batch \subseteq work'[p].batch,
           job'[j].status = job[j].status, job'[j].cursor = job[j].cursor
    PROVE  CoverInv'
<1>0. /\ TypeOK /\ WorkFacts(p) /\ p \in Procs /\ work[p] \in WorkState
      /\ j \in Jobs /\ job[j] \in JobRow
      /\ job \in [Jobs -> JobRow] /\ work \in [Procs -> WorkState]
      /\ CoverWork(p) /\ CoverJob(j)
      /\ Rows' = Rows /\ SourceRows \in Nat /\ Rows = 1 .. SourceRows
      /\ IsRetry(j)' <=> IsRetry(j)
      /\ Accounted(j) \subseteq Accounted(j)'
  BY CoverHand
<1>1. ASSUME NEW n, Passed(j, n) PROVE Passed(j, n)'
  <2>1. Solo' /\ n \in work[p].batch
    BY <1>0, <1>1, Alone DEF Passed, Solo, MaxCrashes
  <2> QED
    BY <1>0, <2>1 DEF Passed
<1> QED
  BY <1>0, <1>1, CoverOwn

\* A worker that stops with nothing in its batch, or because its job was cancelled.
LEMMA CoverStops ==
    ASSUME TypeInv, CoverInv, NothingPassed, Grows, scope' = scope, NEW p \in scope.procs,
           NEW j, j = work[p].job, work[p].pc \notin {"idle", "dead"} \/ j # None, Quit(p), UNCHANGED job,
           \/ work[p].batch = {}
           \/ IsRetry(j)
           \/ job[j].status = "cancelled"
    PROVE  CoverInv'
<1>0. /\ TypeOK /\ WorkFacts(p) /\ p \in Procs /\ work[p] \in WorkState
      /\ j \in Jobs /\ job[j] \in JobRow
      /\ job \in [Jobs -> JobRow] /\ work \in [Procs -> WorkState]
      /\ CoverWork(p) /\ CoverJob(j)
      /\ Rows' = Rows /\ SourceRows \in Nat /\ Rows = 1 .. SourceRows
      /\ IsRetry(j)' <=> IsRetry(j)
      /\ Accounted(j) \subseteq Accounted(j)'
  BY CoverHand
<1>1. work'[p] = NoWork /\ \A q \in Procs \ {p} : work'[q] = work[q]
  BY <1>0, QuitWritten
<1>2. CoverWork(p)' /\ work'[p].job = None
  BY <1>1 DEF CoverWork, NoWork
<1>3. ASSUME ~ IsRetry(j), NEW n, Passed(j, n) PROVE Passed(j, n)'
  <2>1. Solo /\ n \in work[p].batch /\ \A q \in Procs : q # p => work[q].job = None
    BY <1>0, <1>3, Alone DEF Passed
  <2>2. job[j].status = "cancelled"
    BY <1>3, <2>1
  <2>3. Solo' /\ \A q \in Procs : work'[q].job # j
    BY <1>0, <1>1, <1>2, <2>1, NoneApart DEF Solo, MaxCrashes
  <2> QED
    BY <2>2, <2>3 DEF Passed
<1> QED
  BY <1>0, <1>1, <1>2, <1>3, CoverOwn

\* A worker that moves on with what it has.
LEMMA CoverMoves ==
    ASSUME TypeInv, CoverInv, NothingPassed, Grows, scope' = scope, NEW p \in scope.procs,
           NEW j, j = work[p].job,
           NEW pc \in {"dead", "fail", "row", "snapshot", "set_snapshot", "bad_checkpoint",
                      "check", "flush", "finish_check", "finish"},
           work[p].pc \notin {"idle", "claimed", "dead", "fail", "record", "checkpoint"},
           pc = "bad_checkpoint" => work[p].pc = "bad_record",
           work[p].pc = "bad_record" =>
              /\ pc \in {"dead", "fail", "bad_checkpoint"}
              /\ pc = "bad_checkpoint" => work[p].cursor \in Accounted(j)',
           work'[p].pc = pc, work'[p].job = j, work'[p].todo = work[p].todo,
           work'[p].batch = work[p].batch, work'[p].cursor = work[p].cursor
    PROVE  CoverWork(p)'
<1>0. /\ TypeOK /\ WorkFacts(p) /\ p \in Procs /\ work[p] \in WorkState
      /\ j \in Jobs /\ job[j] \in JobRow
      /\ job \in [Jobs -> JobRow] /\ work \in [Procs -> WorkState]
      /\ CoverWork(p) /\ CoverJob(j)
      /\ Rows' = Rows /\ SourceRows \in Nat /\ Rows = 1 .. SourceRows
      /\ IsRetry(j)' <=> IsRetry(j)
      /\ Accounted(j) \subseteq Accounted(j)'
  BY CoverHand
<1> QED
  BY <1>0 DEF CoverWork

\* ReadJob loses no row.
LEMMA CoverReadJob ==
    ASSUME TypeInv, CoverInv, NothingPassed, Grows, scope' = scope, NEW p \in scope.procs,
           NEW j, j = work[p].job, ReadJob(p)
    PROVE  CoverInv'
<1>i. work[p].pc = "claimed"
  BY DEF ReadJob
<1>0. /\ TypeOK /\ WorkFacts(p) /\ p \in Procs /\ work[p] \in WorkState
      /\ j \in Jobs /\ job[j] \in JobRow
      /\ job \in [Jobs -> JobRow] /\ work \in [Procs -> WorkState]
      /\ CoverWork(p) /\ CoverJob(j)
      /\ Rows' = Rows /\ SourceRows \in Nat /\ Rows = 1 .. SourceRows
      /\ IsRetry(j)' <=> IsRetry(j)
      /\ Accounted(j) \subseteq Accounted(j)'
  BY <1>i, CoverHand
<1>1. /\ work'[p].pc = "open" /\ work'[p].job = j /\ work'[p].batch = {}
      /\ \A q \in Procs \ {p} : work'[q] = work[q]
      /\ job' = job /\ work[p].batch = {}
  BY <1>0 DEF ReadJob, WorkState, WorkFacts
<1>2. CoverWork(p)'
  <2> SUFFICES ASSUME ~ IsRetry(j) PROVE CoverWork(p)'
    BY <1>0, <1>1 DEF CoverWork
  <2>1. work'[p].todo = {n \in Rows : n > job[j].cursor} /\ job[j].cursor \in Nat
    <3>1. work'[p] = [work[p] EXCEPT !.pc = "open", !.cursor = job[j].cursor,
                                 !.todo = {n \in Rows : n > job[j].cursor},
                                 !.ok = job[j].ok, !.bad = job[j].bad, !.snap = job[j].snap]
      BY <1>0 DEF ReadJob
    <3> QED
      BY <1>0, <3>1 DEF WorkState, JobRow
  <2>2. ASSUME NEW n \in Rows, n <= job[j].cursor PROVE n \in Accounted(j)
    <3>1. n \in Accounted(j) \/ Passed(j, n)
      BY <1>0, <2>2 DEF CoverJob
    <3>2. ~ Passed(j, n)
      BY <1>0, <1>1, Alone DEF Passed
    <3> QED
      BY <3>1, <3>2
  <2>3. ASSUME NEW b \in work'[p].todo, NEW n \in Rows, n > b PROVE n \in work'[p].todo
    BY <1>0, <2>1, <2>3
  <2>4. ASSUME NEW n \in Rows \ work'[p].todo PROVE n \in Accounted(j)'
    <3>1. n <= job[j].cursor
      BY <1>0, <2>1
    <3> QED
      BY <1>0, <2>2, <3>1
  <2> QED
    BY <1>0, <1>1, <2>3, <2>4 DEF CoverWork
<1> QED
  BY <1>0, <1>1, <1>2, <1>i, CoverQuiet

\* Opening the job loses no row.
LEMMA CoverOpening ==
    ASSUME TypeInv, CoverInv, NothingPassed, Grows, scope' = scope, NEW p \in scope.procs,
           NEW j, j = work[p].job, OpenJob(p) \/ TakeSnapshot(p) \/ SetSnapshot(p)
    PROVE  CoverInv'
<1>i. work[p].pc \in {"open", "snapshot", "set_snapshot"}
  BY DEF OpenJob, TakeSnapshot, SetSnapshot
<1>0. /\ TypeOK /\ WorkFacts(p) /\ p \in Procs /\ work[p] \in WorkState
      /\ j \in Jobs /\ job[j] \in JobRow
      /\ job \in [Jobs -> JobRow] /\ work \in [Procs -> WorkState]
      /\ CoverWork(p) /\ CoverJob(j)
      /\ Rows' = Rows /\ SourceRows \in Nat /\ Rows = 1 .. SourceRows
      /\ IsRetry(j)' <=> IsRetry(j)
      /\ Accounted(j) \subseteq Accounted(j)'
  BY <1>i, CoverHand
<1>1. PICK pc \in {"dead", "row", "snapshot", "set_snapshot"} :
        /\ work'[p].pc = pc /\ work'[p].job = j /\ work'[p].todo = work[p].todo
        /\ work'[p].batch = work[p].batch /\ work'[p].cursor = work[p].cursor
        /\ \A q \in Procs \ {p} : work'[q] = work[q]
  <2>1. CASE OpenJob(p) \/ SetSnapshot(p)
    <3>1. PICK pc \in {"dead", "row", "snapshot"} : Step(p, pc)
      BY <2>1 DEF OpenJob, SetSnapshot
    <3>2. work' = [work EXCEPT ![p] = [work[p] EXCEPT !.pc = pc]]
      BY <1>0, <3>1 DEF Step
    <3> QED
      BY <1>0, <3>2 DEF WorkState
  <2>2. CASE TakeSnapshot(p)
    <3>1. CASE work' = [work EXCEPT ![p] = [work[p] EXCEPT !.pc = "dead"]]
      BY <1>0, <3>1 DEF WorkState
    <3>2. CASE \E s : work' = [work EXCEPT ![p] = [work[p] EXCEPT !.pc = "set_snapshot", !.snap = s]]
      <4>1. PICK s : work' = [work EXCEPT ![p] = [work[p] EXCEPT !.pc = "set_snapshot", !.snap = s]]
        BY <3>2
      <4> QED
        BY <1>0, <4>1 DEF WorkState
    <3> QED
      BY <1>0, <2>2, <3>1, <3>2 DEF TakeSnapshot
  <2> QED
    BY <2>1, <2>2
<1>2. /\ job'[j].status = job[j].status /\ job'[j].cursor = job[j].cursor
      /\ \A k \in Jobs \ {j} : job'[k] = job[k]
  BY <1>0 DEF OpenJob, TakeSnapshot, SetSnapshot, JobRow
<1>3. CoverWork(p)'
  BY <1>i, <1>1, CoverMoves
<1> QED
  BY <1>0, <1>1, <1>2, <1>3, <1>i, CoverQuiet

\* ReadRow loses no row.
LEMMA CoverReadRow ==
    ASSUME TypeInv, CoverInv, NothingPassed, Grows, scope' = scope, NEW p \in scope.procs,
           NEW j, j = work[p].job, ReadRow(p)
    PROVE  CoverInv'
<1>i. work[p].pc = "row"
  BY DEF ReadRow
<1>0. /\ TypeOK /\ WorkFacts(p) /\ p \in Procs /\ work[p] \in WorkState
      /\ j \in Jobs /\ job[j] \in JobRow
      /\ job \in [Jobs -> JobRow] /\ work \in [Procs -> WorkState]
      /\ CoverWork(p) /\ CoverJob(j)
      /\ Rows' = Rows /\ SourceRows \in Nat /\ Rows = 1 .. SourceRows
      /\ IsRetry(j)' <=> IsRetry(j)
      /\ Accounted(j) \subseteq Accounted(j)'
  BY <1>i, CoverHand
<1>r. /\ work[p].todo # {} /\ job' = job
      /\ Min(work[p].todo) \in work[p].todo /\ \A n \in work[p].todo : Min(work[p].todo) <= n
      /\ work[p].todo \subseteq Rows
  <2>1. work[p].todo # {} /\ job' = job /\ work[p].todo \subseteq Rows
    BY <1>0 DEF ReadRow, WorkState
  <2> QED
    BY <1>0, <2>1, RowFacts
<1>1. CASE Quit(p) /\ IsRetry(j)
  BY <1>1, <1>i, <1>r, CoverStops
<1>2. CASE Step(p, "fail")
  <2>1. work' = [work EXCEPT ![p] = [work[p] EXCEPT !.pc = "fail"]]
    BY <1>0, <1>2 DEF Step
  <2>2. /\ work'[p].pc = "fail" /\ work'[p].job = j /\ work'[p].todo = work[p].todo
        /\ work'[p].batch = work[p].batch /\ work'[p].cursor = work[p].cursor
        /\ \A q \in Procs \ {p} : work'[q] = work[q]
    BY <1>0, <2>1 DEF WorkState
  <2>3. CoverWork(p)'
    BY <2>2 DEF CoverWork
  <2> QED
    BY <1>0, <1>i, <1>r, <2>2, <2>3, CoverQuiet
<1>3. CASE work' = [work EXCEPT ![p] =
                 [work[p] EXCEPT !.pc = "bad_record", !.todo = work[p].todo \ {Min(work[p].todo)},
                                 !.cursor = Min(work[p].todo), !.bad = work[p].bad + 1]]
  <2>1. /\ work'[p].pc = "bad_record" /\ work'[p].job = j /\ work'[p].batch = work[p].batch
        /\ work'[p].todo = work[p].todo \ {Min(work[p].todo)}
        /\ work'[p].cursor = Min(work[p].todo)
        /\ \A q \in Procs \ {p} : work'[q] = work[q]
    BY <1>0, <1>3 DEF WorkState
  <2>2. CoverWork(p)'
    <3> SUFFICES ASSUME ~ IsRetry(j) PROVE CoverWork(p)'
      BY <1>0, <2>1 DEF CoverWork
    <3>1. ASSUME NEW b \in work'[p].todo, NEW n \in Rows, n > b PROVE n \in work'[p].todo
      <4>1. b \in work[p].todo /\ n \in work[p].todo
        BY <1>0, <1>i, <2>1, <3>1 DEF CoverWork
      <4>2. n # Min(work[p].todo)
        BY <1>0, <1>r, <3>1, <4>1
      <4> QED
        BY <2>1, <4>1, <4>2
    <3>2. ASSUME NEW n \in Rows \ work'[p].todo
          PROVE  n \in Accounted(j)' \cup work'[p].batch \/ n = work'[p].cursor
      BY <1>0, <1>i, <2>1 DEF CoverWork
    <3>3. work'[p].batch \cap work'[p].todo = {}
      BY <1>0, <1>i, <2>1 DEF CoverWork
    <3> QED
      BY <1>0, <1>r, <2>1, <3>1, <3>2, <3>3 DEF CoverWork
  <2> QED
    BY <1>0, <1>i, <1>r, <2>1, <2>2, CoverQuiet
<1>4. ASSUME NEW pc \in {"row", "flush", "check"},
             work' = [work EXCEPT ![p] =
                 [work[p] EXCEPT !.todo = work[p].todo \ {Min(work[p].todo)},
                                 !.batch = work[p].batch \cup {Min(work[p].todo)}, !.pc = pc]]
      PROVE  CoverInv'
  <2>1. /\ work'[p].pc = pc /\ work'[p].job = j
        /\ work'[p].batch = work[p].batch \cup {Min(work[p].todo)}
        /\ work'[p].todo = work[p].todo \ {Min(work[p].todo)}
        /\ \A q \in Procs \ {p} : work'[q] = work[q]
    BY <1>0, <1>4 DEF WorkState
  <2>2. CoverWork(p)'
    <3> SUFFICES ASSUME ~ IsRetry(j) PROVE CoverWork(p)'
      BY <1>0, <2>1 DEF CoverWork
    <3>1. ASSUME NEW b \in work'[p].todo, NEW n \in Rows, n > b PROVE n \in work'[p].todo
      <4>1. b \in work[p].todo /\ n \in work[p].todo
        BY <1>0, <1>i, <2>1, <3>1 DEF CoverWork
      <4>2. n # Min(work[p].todo)
        BY <1>0, <1>r, <3>1, <4>1
      <4> QED
        BY <2>1, <4>1, <4>2
    <3>2. ASSUME NEW n \in Rows \ work'[p].todo
          PROVE  n \in Accounted(j)' \cup work'[p].batch
      BY <1>0, <1>i, <2>1 DEF CoverWork
    <3>3. work'[p].batch \cap work'[p].todo = {}
      BY <1>0, <1>i, <2>1 DEF CoverWork
    <3> QED
      BY <1>0, <2>1, <3>1, <3>2, <3>3 DEF CoverWork
  <2> QED
    BY <1>0, <1>i, <1>r, <2>1, <2>2, CoverQuiet
<1>5. CASE Interrupted(p)
  BY <1>1, <1>5 DEF ReadRow, Interrupted
<1>6. CASE ~ Interrupted(p)
  <2>1. \/ Step(p, "fail")
        \/ work' = [work EXCEPT ![p] =
                 [work[p] EXCEPT !.pc = "bad_record", !.todo = work[p].todo \ {Min(work[p].todo)},
                                 !.cursor = Min(work[p].todo), !.bad = work[p].bad + 1]]
        \/ \E pc \in {"row", "flush", "check"} :
              work' = [work EXCEPT ![p] =
                 [work[p] EXCEPT !.todo = work[p].todo \ {Min(work[p].todo)},
                                 !.batch = work[p].batch \cup {Min(work[p].todo)}, !.pc = pc]]
    BY <1>6 DEF ReadRow
  <2> QED
    BY <1>2, <1>3, <1>4, <2>1
<1> QED
  BY <1>5, <1>6

\* Going to the next statement loses no row.
LEMMA CoverSteps ==
    ASSUME TypeInv, CoverInv, NothingPassed, Grows, scope' = scope, NEW p \in scope.procs,
           NEW j, j = work[p].job,
           \/ EndOfSource(p) \/ BadRecord(p) \/ CheckCancelled(p) \/ CheckStatus(p)
           \/ FinishCheck(p)
    PROVE  CoverInv'
<1>i. work[p].pc \in {"row", "bad_record", "check", "status", "finish_check"}
  BY DEF EndOfSource, BadRecord, CheckCancelled, CheckStatus, FinishCheck
<1>0. /\ TypeOK /\ WorkFacts(p) /\ p \in Procs /\ work[p] \in WorkState
      /\ j \in Jobs /\ job[j] \in JobRow
      /\ job \in [Jobs -> JobRow] /\ work \in [Procs -> WorkState]
      /\ CoverWork(p) /\ CoverJob(j)
      /\ Rows' = Rows /\ SourceRows \in Nat /\ Rows = 1 .. SourceRows
      /\ IsRetry(j)' <=> IsRetry(j)
      /\ Accounted(j) \subseteq Accounted(j)'
  BY <1>i, CoverHand
<1>1. ASSUME Quit(p), work[p].batch = {} \/ job[j].status = "cancelled"
      PROVE  CoverInv'
  <2>1. job' = job
    BY DEF EndOfSource, BadRecord, CheckCancelled, CheckStatus, FinishCheck
  <2> QED
    BY <1>1, <1>i, <2>1, CoverStops
<1>2. ASSUME NEW pc \in {"row", "bad_checkpoint", "check", "flush", "finish_check", "finish"},
             Step(p, pc),
             pc = "bad_checkpoint" <=> work[p].pc = "bad_record"
      PROVE  CoverInv'
  <2>1. work' = [work EXCEPT ![p] = [work[p] EXCEPT !.pc = pc]]
    BY <1>0, <1>2 DEF Step
  <2>2. /\ work'[p].pc = pc /\ work'[p].job = j /\ work'[p].todo = work[p].todo
        /\ work'[p].batch = work[p].batch /\ work'[p].cursor = work[p].cursor
        /\ \A q \in Procs \ {p} : work'[q] = work[q]
    BY <1>0, <2>1 DEF WorkState
  <2>3. work[p].pc = "bad_record" => work[p].cursor \in Accounted(j)'
    <3>1. ASSUME BadRecord(p) PROVE work[p].cursor \in Failed(j)'
      <4>1. work[p].cursor \in Rows
        BY <1>0, <3>1, ScopeFacts DEF BadRecord, WorkFacts
      <4>2. failures' = [failures EXCEPT ![j] = WithFailure(j, work[p].cursor, FALSE)]
        BY <3>1 DEF BadRecord
      <4>3. PICK c : c = work[p].cursor
        OBVIOUS
      <4> QED
        BY <1>0, <4>1, <4>2, <4>3, FailureRows
    <3> QED
      BY <3>1 DEF EndOfSource, BadRecord, CheckCancelled, CheckStatus, FinishCheck, Accounted
  <2>4. CoverWork(p)'
    BY <1>2, <1>i, <2>2, <2>3, CoverMoves
  <2>5. job' = job
    BY DEF EndOfSource, BadRecord, CheckCancelled, CheckStatus, FinishCheck
  <2> QED
    BY <1>0, <1>i, <2>2, <2>4, <2>5, CoverQuiet
<1>3. work[p].pc \in {"status", "finish_check"} => work[p].batch = {}
  BY <1>0 DEF WorkFacts
<1> QED
  BY <1>1, <1>2, <1>3 DEF EndOfSource, BadRecord, CheckCancelled, CheckStatus, FinishCheck

\* BadCheckpoint loses no row.
LEMMA CoverBadCheckpoint ==
    ASSUME TypeInv, CoverInv, NothingPassed, Grows, scope' = scope, NEW p \in scope.procs,
           NEW j, j = work[p].job, BadCheckpoint(p)
    PROVE  CoverInv'
<1>i. work[p].pc = "bad_checkpoint"
  BY DEF BadCheckpoint
<1>0. /\ TypeOK /\ WorkFacts(p) /\ p \in Procs /\ work[p] \in WorkState
      /\ j \in Jobs /\ job[j] \in JobRow
      /\ job \in [Jobs -> JobRow] /\ work \in [Procs -> WorkState]
      /\ CoverWork(p) /\ CoverJob(j)
      /\ Rows' = Rows /\ SourceRows \in Nat /\ Rows = 1 .. SourceRows
      /\ IsRetry(j)' <=> IsRetry(j)
      /\ Accounted(j) \subseteq Accounted(j)'
  BY <1>i, CoverHand
<1>c. /\ job'[j].status = job[j].status
      /\ job'[j].cursor = job[j].cursor \/ job'[j].cursor = work[p].cursor
      /\ \A k \in Jobs \ {j} : job'[k] = job[k]
      /\ written' = written /\ failures' = failures
  BY <1>0 DEF BadCheckpoint, Checkpoint, SaveCounters, JobRow
<1>1. PICK pc \in {"fail", "row"} : Step(p, pc)
  BY DEF BadCheckpoint
<1>2. work' = [work EXCEPT ![p] = [work[p] EXCEPT !.pc = pc]]
  BY <1>0, <1>1 DEF Step
<1>3. /\ work'[p].pc = pc /\ work'[p].job = j /\ work'[p].todo = work[p].todo
      /\ work'[p].batch = work[p].batch /\ work'[p].cursor = work[p].cursor
      /\ \A q \in Procs \ {p} : work'[q] = work[q]
  BY <1>0, <1>2 DEF WorkState
<1>4. CoverWork(p)'
  BY <1>i, <1>3, CoverMoves
<1>5. Solo /\ Solo'
  BY <1>0, <1>i DEF WorkFacts, NothingPassed, Solo, MaxCrashes
<1>6. ASSUME NEW n, n \in work[p].batch PROVE Passed(j, n)'
  BY <1>0, <1>3, <1>5, <1>6 DEF Passed
<1>7. ASSUME ~ IsRetry(j), NEW n \in Rows, n <= work[p].cursor
      PROVE  n \in Accounted(j)' \/ Passed(j, n)'
  <2>1. n \notin work[p].todo
    <3>1. work[p].cursor \in Rows \ work[p].todo
      BY <1>0, <1>7, <1>i DEF CoverWork
    <3>2. n = work[p].cursor \/ work[p].cursor > n
      BY <1>0, <1>7, <3>1
    <3> QED
      BY <1>0, <1>7, <1>i, <3>1, <3>2 DEF CoverWork
  <2>2. n \in Accounted(j) \cup work[p].batch
    BY <1>0, <1>7, <1>i, <2>1 DEF CoverWork
  <2> QED
    BY <1>0, <1>6, <2>2
<1>8. ASSUME NEW n, Passed(j, n) PROVE Passed(j, n)'
  <2>1. n \in work[p].batch
    BY <1>0, <1>8, Alone DEF Passed
  <2> QED
    BY <1>6, <2>1
<1> QED
  BY <1>0, <1>3, <1>4, <1>7, <1>8, <1>c, CoverOwn

\* Flush loses no row.
LEMMA CoverFlush ==
    ASSUME TypeInv, CoverInv, NothingPassed, Grows, scope' = scope, NEW p \in scope.procs,
           NEW j, j = work[p].job, Flush(p)
    PROVE  CoverInv'
<1>i. work[p].pc = "flush"
  BY DEF Flush
<1>0. /\ TypeOK /\ WorkFacts(p) /\ p \in Procs /\ work[p] \in WorkState
      /\ j \in Jobs /\ job[j] \in JobRow
      /\ job \in [Jobs -> JobRow] /\ work \in [Procs -> WorkState]
      /\ CoverWork(p) /\ CoverJob(j)
      /\ Rows' = Rows /\ SourceRows \in Nat /\ Rows = 1 .. SourceRows
      /\ IsRetry(j)' <=> IsRetry(j)
      /\ Accounted(j) \subseteq Accounted(j)'
  BY <1>i, CoverHand
<1>1. /\ work'[p].pc = "checkpoint" /\ work'[p].job = j /\ work'[p].todo = work[p].todo
      /\ work'[p].batch = work[p].batch /\ work'[p].cursor = NextCursor(p)
      /\ \A q \in Procs \ {p} : work'[q] = work[q]
  <2>1. work' = [work EXCEPT ![p] = [work[p] EXCEPT !.pc = "checkpoint",
                                 !.ok = work[p].ok + Cardinality(work[p].batch),
                                 !.cursor = NextCursor(p)]]
    BY <1>0 DEF Flush
  <2> QED
    BY <1>0, <2>1 DEF WorkState
<1>2. ~ IsRetry(j) => work[p].batch \subseteq Accounted(j)'
  BY <1>0 DEF Flush, Accounted, TypeOK
<1>3. work[p].batch # {} /\ job' = job
  BY <1>0, <1>i DEF Flush, WorkFacts
<1>4. ASSUME ~ IsRetry(j) PROVE work'[p].cursor \in Rows \ work[p].todo
  <2>1. Max(work[p].batch) \in work[p].batch /\ work[p].batch \subseteq Rows
    BY <1>0, <1>3, RowFacts DEF WorkState
  <2> QED
    BY <1>0, <1>1, <1>4, <1>i, <2>1 DEF CoverWork, NextCursor
<1>5. CoverWork(p)'
  BY <1>0, <1>1, <1>2, <1>4, <1>i DEF CoverWork
<1> QED
  BY <1>0, <1>1, <1>3, <1>5, <1>i, CoverQuiet

\* BatchRecorded loses no row.
LEMMA CoverBatchRecorded ==
    ASSUME TypeInv, CoverInv, NothingPassed, Grows, scope' = scope, NEW p \in scope.procs,
           NEW j, j = work[p].job, BatchRecorded(p)
    PROVE  CoverInv'
<1>i. work[p].pc = "record"
  BY DEF BatchRecorded
<1>0. /\ TypeOK /\ WorkFacts(p) /\ p \in Procs /\ work[p] \in WorkState
      /\ j \in Jobs /\ job[j] \in JobRow
      /\ job \in [Jobs -> JobRow] /\ work \in [Procs -> WorkState]
      /\ CoverWork(p) /\ CoverJob(j)
      /\ Rows' = Rows /\ SourceRows \in Nat /\ Rows = 1 .. SourceRows
      /\ IsRetry(j)' <=> IsRetry(j)
      /\ Accounted(j) \subseteq Accounted(j)'
  BY <1>i, CoverHand
<1>1. /\ work'[p].pc = "checkpoint" /\ work'[p].job = j /\ work'[p].todo = work[p].todo
      /\ work'[p].batch = work[p].batch /\ work'[p].cursor = NextCursor(p)
      /\ \A q \in Procs \ {p} : work'[q] = work[q]
  <2>1. PICK b \in BOOLEAN : work' = [work EXCEPT ![p] =
             [work[p] EXCEPT !.pc = "checkpoint",
                             !.bad = work[p].bad + Cardinality(work[p].batch),
                             !.cursor = NextCursor(p), !.stop = b]]
    BY RecordedCase
  <2> QED
    BY <1>0, <2>1 DEF WorkState
<1>2. ~ IsRetry(j) => work[p].batch \subseteq Accounted(j)'
  BY <1>0, <1>i DEF BatchRecorded, CoverWork
<1>3. work[p].batch # {} /\ job' = job
  BY <1>0, <1>i DEF BatchRecorded, WorkFacts
<1>4. ASSUME ~ IsRetry(j) PROVE work'[p].cursor \in Rows \ work[p].todo
  <2>1. Max(work[p].batch) \in work[p].batch /\ work[p].batch \subseteq Rows
    BY <1>0, <1>3, RowFacts DEF WorkState
  <2> QED
    BY <1>0, <1>1, <1>4, <1>i, <2>1 DEF CoverWork, NextCursor
<1>5. CoverWork(p)'
  BY <1>0, <1>1, <1>2, <1>4, <1>i DEF CoverWork
<1> QED
  BY <1>0, <1>1, <1>3, <1>5, <1>i, CoverQuiet

\* Recording a failed batch loses no row.
LEMMA CoverRecording ==
    ASSUME TypeInv, CoverInv, NothingPassed, Grows, scope' = scope, NEW p \in scope.procs,
           NEW j, j = work[p].job, FlushFails(p) \/ RecordRow(p)
    PROVE  CoverInv'
<1>i. work[p].pc \in {"flush", "record"}
  BY DEF FlushFails, RecordRow
<1>0. /\ TypeOK /\ WorkFacts(p) /\ p \in Procs /\ work[p] \in WorkState
      /\ j \in Jobs /\ job[j] \in JobRow
      /\ job \in [Jobs -> JobRow] /\ work \in [Procs -> WorkState]
      /\ CoverWork(p) /\ CoverJob(j)
      /\ Rows' = Rows /\ SourceRows \in Nat /\ Rows = 1 .. SourceRows
      /\ IsRetry(j)' <=> IsRetry(j)
      /\ Accounted(j) \subseteq Accounted(j)'
  BY <1>i, CoverHand
<1>1. /\ work'[p].pc = "record" /\ work'[p].job = j /\ work'[p].todo = work[p].todo
      /\ work'[p].batch = work[p].batch /\ job' = job
      /\ \A q \in Procs \ {p} : work'[q] = work[q]
  <2>1. CASE FlushFails(p)
    <3>1. work' = [work EXCEPT ![p] = [work[p] EXCEPT !.pc = "record", !.left = work[p].batch]]
      BY <1>0, <2>1 DEF FlushFails
    <3> QED
      BY <1>0, <2>1, <3>1 DEF FlushFails, WorkState
  <2>2. CASE RecordRow(p)
    <3>1. work' = [work EXCEPT ![p] = [work[p] EXCEPT !.left = work[p].left \ {Min(work[p].left)}]]
      BY <1>0, <2>2 DEF RecordRow
    <3> QED
      BY <1>0, <2>2, <3>1 DEF RecordRow, WorkState
  <2> QED
    BY <2>1, <2>2
<1>2. ~ IsRetry(j) => work[p].batch \subseteq Accounted(j)' \cup work'[p].left
  <2>1. CASE FlushFails(p)
    BY <1>0, <2>1 DEF FlushFails, WorkState
  <2>2. CASE RecordRow(p)
    <3>1. PICK r : r = Min(work[p].left)
      OBVIOUS
    <3>2. work'[p].left = work[p].left \ {r} /\ work[p].pc = "record"
      BY <1>0, <2>2, <3>1 DEF RecordRow, WorkState
    <3>3. r \in Failed(j)'
      <4>1. r \in Rows
        BY <1>0, <2>2, <3>1, RowFacts DEF RecordRow, WorkState
      <4>2. failures' = [failures EXCEPT ![j] = WithFailure(j, r, TRUE)]
        BY <2>2, <3>1 DEF RecordRow
      <4> QED
        BY <1>0, <4>1, <4>2, FailureRows
    <3> QED
      BY <1>0, <3>2, <3>3 DEF CoverWork, Accounted
  <2> QED
    BY <2>1, <2>2
<1>3. CoverWork(p)'
  BY <1>0, <1>1, <1>2, <1>i DEF CoverWork
<1> QED
  BY <1>0, <1>1, <1>3, <1>i, CoverQuiet

\* Checkpoint loses no row.
LEMMA CoverCheckpoint ==
    ASSUME TypeInv, CoverInv, NothingPassed, Grows, scope' = scope, NEW p \in scope.procs,
           NEW j, j = work[p].job, Checkpoint(p)
    PROVE  CoverInv'
<1>i. work[p].pc = "checkpoint"
  BY DEF Checkpoint
<1>0. /\ TypeOK /\ WorkFacts(p) /\ p \in Procs /\ work[p] \in WorkState
      /\ j \in Jobs /\ job[j] \in JobRow
      /\ job \in [Jobs -> JobRow] /\ work \in [Procs -> WorkState]
      /\ CoverWork(p) /\ CoverJob(j)
      /\ Rows' = Rows /\ SourceRows \in Nat /\ Rows = 1 .. SourceRows
      /\ IsRetry(j)' <=> IsRetry(j)
      /\ Accounted(j) \subseteq Accounted(j)'
  BY <1>i, CoverHand
<1>c. /\ job'[j].status = job[j].status
      /\ job'[j].cursor = job[j].cursor \/ job'[j].cursor = work[p].cursor
      /\ \A k \in Jobs \ {j} : job'[k] = job[k]
      /\ written' = written /\ failures' = failures
  BY <1>0 DEF BadCheckpoint, Checkpoint, SaveCounters, JobRow
<1>1. PICK pc \in {"fail", "finish_check", "row", "status"} :
        work' = [work EXCEPT ![p] = [work[p] EXCEPT !.batch = {}, !.pc = pc]]
  BY DEF Checkpoint
<1>2. /\ work'[p].pc = pc /\ work'[p].job = j /\ work'[p].todo = work[p].todo /\ work'[p].batch = {}
      /\ \A q \in Procs \ {p} : work'[q] = work[q]
  BY <1>0, <1>1 DEF WorkState
<1>3. CoverWork(p)'
  BY <1>0, <1>2, <1>i DEF CoverWork
<1>4. ASSUME ~ IsRetry(j), NEW n \in Rows, n <= work[p].cursor
      PROVE  n \in Accounted(j)'
  <2>1. n \notin work[p].todo
    <3>1. work[p].cursor \in Rows \ work[p].todo
      BY <1>0, <1>4, <1>i DEF CoverWork
    <3>2. n = work[p].cursor \/ work[p].cursor > n
      BY <1>0, <1>4, <3>1
    <3> QED
      BY <1>0, <1>4, <1>i, <3>1, <3>2 DEF CoverWork
  <2> QED
    BY <1>0, <1>4, <1>i, <2>1 DEF CoverWork
<1>5. ASSUME ~ IsRetry(j), NEW n, Passed(j, n) PROVE n \in Accounted(j)'
  <2>1. n \in work[p].batch
    BY <1>0, <1>5, Alone DEF Passed
  <2> QED
    BY <1>0, <1>5, <1>i, <2>1 DEF CoverWork
<1> QED
  BY <1>0, <1>2, <1>3, <1>4, <1>5, <1>c, CoverOwn

\* A worker without a job has nothing to lose.
LEMMA CoverNoJob ==
    ASSUME TypeInv, CoverInv, NothingPassed, Grows, scope' = scope, NEW p \in scope.procs,
           work[p].job = None, work'[p].job = None, UNCHANGED job,
           \A q \in Procs \ {p} : work'[q] = work[q],
           work'[p].pc \in {"idle", "dead"}
    PROVE  CoverInv'
<1>1. CoverWork(p)'
  BY DEF CoverWork
<1>2. None \notin Jobs
  BY NoneApart
<1> QED
  BY <1>1, <1>2, CoverOwn

\* IoFails loses no row.
LEMMA CoverIoFails ==
    ASSUME TypeInv, CoverInv, NothingPassed, Grows, scope' = scope, NEW p \in scope.procs,
           NEW j, j = work[p].job, IoFails(p), work[p].pc # "idle"
    PROVE  CoverInv'
<1>i. work[p].pc \in Caught \cup Uncaught /\ work[p].pc # "idle"
  BY DEF IoFails
<1>0. /\ TypeOK /\ WorkFacts(p) /\ p \in Procs /\ work[p] \in WorkState
      /\ j \in Jobs /\ job[j] \in JobRow
      /\ job \in [Jobs -> JobRow] /\ work \in [Procs -> WorkState]
      /\ CoverWork(p) /\ CoverJob(j)
      /\ Rows' = Rows /\ SourceRows \in Nat /\ Rows = 1 .. SourceRows
      /\ IsRetry(j)' <=> IsRetry(j)
      /\ Accounted(j) \subseteq Accounted(j)'
  BY <1>i, CoverHand DEF Caught, Uncaught
<1>1. PICK pc \in {"fail", "dead"} : Step(p, pc)
  BY DEF IoFails
<1>2. work' = [work EXCEPT ![p] = [work[p] EXCEPT !.pc = pc]] /\ job' = job
  BY <1>0, <1>1 DEF Step, IoFails
<1>3. /\ work'[p].pc = pc /\ work'[p].job = j /\ work'[p].batch = work[p].batch
      /\ \A q \in Procs \ {p} : work'[q] = work[q]
  BY <1>0, <1>2 DEF WorkState
<1>4. CoverWork(p)'
  BY <1>3 DEF CoverWork
<1> QED
  BY <1>0, <1>2, <1>3, <1>4, <1>i, CoverQuiet DEF Caught, Uncaught

\* A claim that raises takes no job.
LEMMA CoverClaimFails ==
    ASSUME TypeInv, CoverInv, NothingPassed, Grows, scope' = scope, NEW p \in scope.procs,
           IoFails(p), work[p].pc = "idle"
    PROVE  CoverInv'
<1>0. TypeOK /\ WorkFacts(p) /\ p \in Procs /\ work[p] \in WorkState
  BY InHand
<1>1. Step(p, "dead") /\ UNCHANGED job
  BY DEF IoFails, Caught
<1>2. /\ work'[p] = [work[p] EXCEPT !.pc = "dead"]
      /\ \A q \in Procs \ {p} : work'[q] = work[q]
  BY <1>0, <1>1, StepWritten DEF WorkPcs
<1>3. work'[p].pc = "dead" /\ work'[p].job = None /\ work[p].job = None
  BY <1>0, <1>2 DEF WorkState, WorkFacts
<1> QED
  BY <1>1, <1>2, <1>3, CoverNoJob

\* Crash loses no row.
LEMMA CoverCrash ==
    ASSUME TypeInv, CoverInv, NothingPassed, Grows, scope' = scope, NEW p \in scope.procs,
           NEW j, j = work[p].job, j # None, Crash(p)
    PROVE  CoverInv'
<1>i. j # None
  OBVIOUS
<1>0. /\ TypeOK /\ WorkFacts(p) /\ p \in Procs /\ work[p] \in WorkState
      /\ j \in Jobs /\ job[j] \in JobRow
      /\ job \in [Jobs -> JobRow] /\ work \in [Procs -> WorkState]
      /\ CoverWork(p) /\ CoverJob(j)
      /\ Rows' = Rows /\ SourceRows \in Nat /\ Rows = 1 .. SourceRows
      /\ IsRetry(j)' <=> IsRetry(j)
      /\ Accounted(j) \subseteq Accounted(j)'
  BY <1>i, CoverHand
<1>1. work'[p] = NoWork /\ (\A q \in Procs \ {p} : work'[q] = work[q]) /\ job' = job
  BY <1>0, QuitWritten DEF Crash
<1>2. CoverWork(p)' /\ work'[p].job = None
  BY <1>1 DEF CoverWork, NoWork
<1>3. ~ Solo
  BY <1>0, ScopeFacts DEF Crash, Solo, TypeOK
<1>4. \A n : ~ Passed(j, n)
  BY <1>3 DEF Passed
<1> QED
  BY <1>0, <1>1, <1>2, <1>4, CoverOwn

\* Nor does a worker that dies without a job.
LEMMA CoverFaults ==
    ASSUME TypeInv, CoverInv, NothingPassed, Grows, scope' = scope, NEW p \in scope.procs,
           IoFails(p) \/ Crash(p)
    PROVE  CoverInv'
<1>1. CASE IoFails(p)
  BY <1>1, CoverIoFails, CoverClaimFails
<1>2. CASE Crash(p) /\ work[p].job = None
  <2>1. TypeOK /\ p \in Procs
    BY InHand
  <2>2. /\ work'[p] = NoWork /\ \A q \in Procs \ {p} : work'[q] = work[q]
        /\ UNCHANGED job
    BY <1>2, <2>1, QuitWritten DEF Crash
  <2>3. work'[p].job = None /\ work'[p].pc = "idle"
    BY <2>2 DEF NoWork
  <2> QED
    BY <1>2, <2>2, <2>3, CoverNoJob
<1>3. CASE Crash(p) /\ work[p].job # None
  BY <1>3, CoverCrash
<1> QED
  BY <1>1, <1>2, <1>3

\* The end of a job loses no row.
LEMMA CoverEnd ==
    ASSUME TypeInv, CoverInv, NothingPassed, Grows, scope' = scope, NEW p \in scope.procs,
           NEW j, j = work[p].job, Finish(p) \/ Fail(p)
    PROVE  CoverInv'
<1>i. work[p].pc \in {"finish", "fail"}
  BY DEF Finish, Fail
<1>0. /\ TypeOK /\ WorkFacts(p) /\ p \in Procs /\ work[p] \in WorkState
      /\ j \in Jobs /\ job[j] \in JobRow
      /\ job \in [Jobs -> JobRow] /\ work \in [Procs -> WorkState]
      /\ CoverWork(p) /\ CoverJob(j)
      /\ Rows' = Rows /\ SourceRows \in Nat /\ Rows = 1 .. SourceRows
      /\ IsRetry(j)' <=> IsRetry(j)
      /\ Accounted(j) \subseteq Accounted(j)'
  BY <1>i, CoverHand
<1>1. /\ work'[p] = NoWork /\ \A q \in Procs \ {p} : work'[q] = work[q]
      /\ \A k \in Jobs \ {j} : job'[k] = job[k]
  BY EndRows
<1>2. CoverWork(p)' /\ work'[p].job = None
  BY <1>1 DEF CoverWork, NoWork
<1>3. PICK s \in Terminal :
        /\ Release(j, s)
        /\ \/ s \in {"completed", "completed_with_errors"} /\ work[p].pc = "finish"
           \/ s = "failed"
  BY DEF Finish, Fail, Terminal
<1>4. job'[j].status = s /\ job'[j].cursor = job[j].cursor
  BY <1>0, <1>3 DEF Release, JobRow
<1>5. ASSUME ~ IsRetry(j), work[p].pc = "finish"
      PROVE  Rows \subseteq Accounted(j)'
  BY <1>0, <1>5 DEF CoverWork, WorkFacts
<1>6. ASSUME ~ IsRetry(j), NEW n \in Rows, Passed(j, n)
      PROVE  n \in Accounted(j)' \/ Passed(j, n)'
  <2>1. CASE work[p].pc = "finish"
    BY <1>5, <1>6, <2>1
  <2>2. CASE s = "failed"
    <3>1. Solo /\ \A q \in Procs : q # p => work[q].job = None
      BY <1>6, Alone DEF Passed
    <3>2. Solo' /\ \A q \in Procs : work'[q].job # j
      BY <1>0, <1>1, <1>2, <3>1, NoneApart DEF Solo, MaxCrashes
    <3> QED
      BY <1>4, <2>2, <3>2 DEF Passed
  <2> QED
    BY <1>3, <2>1, <2>2
<1>7. ~ IsRetry(j) /\ job'[j].status \in {"completed", "completed_with_errors"} => Rows \subseteq Accounted(j)'
  BY <1>3, <1>4, <1>5
<1> QED
  BY <1>0, <1>1, <1>2, <1>4, <1>6, <1>7, CoverOwn

\* Claim loses no row.
LEMMA CoverClaim ==
    ASSUME TypeInv, CoverInv, NothingPassed, Grows, scope' = scope, NEW p \in scope.procs, Claim(p)
    PROVE  CoverInv'
<1>0. TypeOK /\ WorkFacts(p) /\ p \in Procs /\ job \in [Jobs -> JobRow] /\ work[p].pc = "idle"
  BY InHand DEF Claim
<1>1. PICK j \in Jobs : Claims(p, j)
  BY ClaimRows
<1>2. /\ job[j].status \in {"queued", "running"}
      /\ \A k \in Jobs \ {j} : job'[k] = job[k]
      /\ job'[j].status = "running"
      /\ job'[j].parent = job[j].parent
      /\ job'[j].cursor = job[j].cursor
      /\ \A q \in Procs \ {p} : work'[q] = work[q]
      /\ work'[p].pc = "claimed" /\ work'[p].job = j
      /\ work[p].job = None
  BY <1>0, <1>1 DEF Claims, Claimable, WorkFacts
<1>3. CoverWork(p)'
  BY <1>2 DEF CoverWork
<1>4. ASSUME NEW k \in Jobs, NEW n, Passed(k, n) PROVE Passed(k, n)'
  <2>1. Solo /\ \A q \in Procs : q # p => work[q].job = None
    BY <1>4, Alone DEF Passed
  <2>2. job[k].status \in {"cancelled", "failed"}
    BY <1>0, <1>2, <1>4, <2>1, NoneApart DEF Passed
  <2>3. k # j
    BY <1>2, <2>2
  <2>4. Solo' /\ \A q \in Procs : work'[q].job # k
    BY <1>0, <1>2, <2>1, <2>3, NoneApart DEF Solo, MaxCrashes
  <2> QED
    BY <1>2, <2>2, <2>3, <2>4 DEF Passed
<1>5. ASSUME NEW k \in Jobs
      PROVE  /\ IsRetry(k)' <=> IsRetry(k)
             /\ job'[k].status \in {"completed", "completed_with_errors"} => job'[k].status = job[k].status
             /\ job'[k].cursor = job[k].cursor
  BY <1>2 DEF IsRetry
<1> QED
  BY <1>0, <1>2, <1>3, <1>4, <1>5, CoverFrame

\* A request, or the clock, loses no row.
LEMMA CoverRequest ==
    ASSUME TypeInv, CoverInv, NothingPassed, Grows, scope' = scope,
           NEW j \in Jobs, Request(j) \/ Expire(j)
    PROVE  CoverInv'
<1>0. TypeOK /\ job \in [Jobs -> JobRow] /\ job[j] \in JobRow
  BY DEF TypeInv, TypeOK
<1>1. UNCHANGED <<failures, written, work>>
  BY DEF Request, Create, CreateRetry, Pause, Resume, Cancel, Expire
<1>2. /\ \A k \in Jobs \ {j} : job'[k] = job[k]
      /\ job'[j].cursor = job[j].cursor
      /\ \/ IsRetry(j)'
         \/ IsRetry(j)' <=> IsRetry(j)
      /\ job'[j].status \in {"completed", "completed_with_errors"} => job'[j].status = job[j].status
      /\ job[j].status \in {"cancelled", "failed"} => job'[j].status = job[j].status
  <2>1. CASE Create(j)
    <3>1. job' = [job EXCEPT ![j] = [job[j] EXCEPT !.status = "queued"]] /\ job[j].status = "none"
      BY <1>0, <2>1 DEF Create, NextFree
    <3> QED
      BY <1>0, <3>1 DEF JobRow, IsRetry
  <2>2. CASE \E parent \in Jobs : CreateRetry(j, parent)
    <3>1. PICK parent \in Jobs : CreateRetry(j, parent)
      BY <2>2
    <3>2. /\ job' = [job EXCEPT ![j] = [job[j] EXCEPT !.status = "queued", !.parent = parent]]
          /\ job[j].status = "none" /\ parent # None
      BY <1>0, <3>1, NoneApart DEF CreateRetry, NextFree
    <3> QED
      BY <1>0, <3>2 DEF JobRow, IsRetry
  <2>3. ASSUME NEW s \in {"paused", "cancelled"}, Release(j, s),
               job[j].status \in {"queued", "running", "paused"}
        PROVE  /\ \A k \in Jobs \ {j} : job'[k] = job[k]
               /\ job'[j].cursor = job[j].cursor
               /\ IsRetry(j)' <=> IsRetry(j)
               /\ job'[j].status = s
    <3>1. job' = [job EXCEPT ![j] = [job[j] EXCEPT !.status = s, !.worker = None, !.lease = None]]
      BY <1>0, <2>3 DEF Release
    <3> QED
      BY <1>0, <3>1 DEF JobRow, IsRetry
  <2>4. CASE Pause(j) \/ Cancel(j)
    BY <2>3, <2>4 DEF Pause, Cancel
  <2>5. CASE Resume(j)
    <3>1. job' = [job EXCEPT ![j] = [job[j] EXCEPT !.status = "queued"]] /\ job[j].status = "paused"
      BY <1>0, <2>5 DEF Resume
    <3> QED
      BY <1>0, <3>1 DEF JobRow, IsRetry
  <2>6. CASE Expire(j)
    <3>1. job' = [job EXCEPT ![j] = [job[j] EXCEPT !.lease = "expired"]]
      BY <1>0, <2>6 DEF Expire
    <3> QED
      BY <1>0, <3>1 DEF JobRow, IsRetry
  <2> QED
    BY <2>1, <2>2, <2>4, <2>5, <2>6 DEF Request
<1>3. ASSUME NEW k \in Jobs, NEW n, Passed(k, n) PROVE Passed(k, n)'
  BY <1>1, <1>2, <1>3 DEF Passed, Solo, MaxCrashes
<1>4. ASSUME NEW k \in Jobs
      PROVE  /\ IsRetry(k)' \/ (IsRetry(k)' <=> IsRetry(k))
             /\ job'[k].status \in {"completed", "completed_with_errors"} => job'[k].status = job[k].status
             /\ job'[k].cursor = job[k].cursor
  BY <1>2 DEF IsRetry
<1>5. (\A q \in Procs \ {None} : work'[q] = work[q]) /\ None \notin Procs
  BY <1>1, NoneApart
<1> QED
  BY <1>3, <1>4, <1>5, CoverFrame

\* Every step loses no row.
LEMMA CoverNext == TypeInv /\ CoverInv /\ Grows /\ [Next]_vars => CoverInv'
<1> SUFFICES ASSUME TypeInv, CoverInv, Grows, [Next]_vars, NothingPassed, scope' = scope
             PROVE  CoverInv'
  BY DEF CoverInv, Next, vars, NothingPassed, Bad, Solo, MaxCrashes
<1>1. ASSUME NEW p \in scope.procs, Work(p) \/ IoFails(p) \/ Crash(p)
      PROVE  CoverInv'
  BY <1>1, CoverClaim, CoverReadJob, CoverOpening, CoverReadRow, CoverSteps,
     CoverBadCheckpoint, CoverFlush, CoverBatchRecorded, CoverRecording, CoverCheckpoint,
     CoverEnd, CoverFaults DEF Work
<1>2. ASSUME NEW j \in Jobs, Request(j) \/ Expire(j)
      PROVE  CoverInv'
  BY <1>2, CoverRequest
<1>3. ASSUME UNCHANGED <<job, failures, written, work>>
      PROVE  CoverInv'
  <2>1. ASSUME NEW k \in Jobs, NEW n, Passed(k, n) PROVE Passed(k, n)'
    BY <1>3, <2>1 DEF Passed, Solo, MaxCrashes
  <2>2. ASSUME NEW k \in Jobs
        PROVE  (IsRetry(k)' <=> IsRetry(k)) /\ job'[k] = job[k]
    BY <1>3 DEF IsRetry
  <2>3. (\A q \in Procs \ {None} : work'[q] = work[q]) /\ None \notin Procs
    BY <1>3, NoneApart
  <2> QED
    BY <2>1, <2>2, <2>3, CoverFrame
<1> QED
  BY <1>1, <1>2, <1>3 DEF Next, DeleteCatalog, vars

\* The initial states satisfy CoverInv.
LEMMA CoverInit == Init => CoverInv
<1> SUFFICES ASSUME Init PROVE CoverInv
  OBVIOUS
<1>1. \A p \in Procs : CoverWork(p)
  BY DEF Init, NoWork, CoverWork
<1>2. ASSUME NEW j \in Jobs PROVE CoverJob(j)
  <2>1. job[j] = FreeRow /\ SourceRows \in Nat
    BY JobAssumption DEF Init, SourceRows
  <2> QED
    BY <2>1 DEF FreeRow, CoverJob, Rows
<1> QED
  BY <1>1, <1>2 DEF CoverInv

-----------------------------------------------------------------------------
(* The theorems *)

IInv == TypeInv /\ HoldInv /\ OwnInv /\ CoverInv

\* The initial states satisfy the inductive invariant.
LEMMA InitIInv == Init => IInv
BY TypeInit, OwnInit, CoverInit DEF IInv, HoldInv, Init, Holds, Feeding, NoWork, Leased, FreeRow

\* Every step keeps the inductive invariant.
LEMMA NextIInv == IInv /\ [Next]_vars => IInv'
BY TypeNext, HoldNext, OwnNext, CoverNext DEF IInv

\* The inductive invariant: the types and what holds at each statement of a
\* worker, who holds which lease, what an undisturbed worker knows of its
\* snapshot, retried rows and counters, and where the rows of a source are.
THEOREM Invariant == Spec => []IInv
<1> QED
  BY InitIInv, NextIInv, PTL DEF Spec

\* The rows of the job table and the local variables of the workers keep their
\* types, whatever requests, crashes and failures of stores interleave.
THEOREM TypeCorrect == Spec => []TypeOK
<1>1. IInv => TypeOK
  BY DEF IInv, TypeInv
<1> QED
  BY <1>1, Invariant, PTL

\* claim_next never lets two workers feed one catalog, for any number of jobs
\* and processes that nobody pauses, resumes or cancels and that renew their leases.
THEOREM OneWorkerFeeds == Spec => []OneFeed
<1>1. IInv => OneFeed
  <2> SUFFICES ASSUME IInv, Undisturbed, NEW p \in Procs, NEW q \in Procs, p # q,
                      Feeding(p), Feeding(q)
               PROVE  CatalogOf[work[p].job] # CatalogOf[work[q].job]
    BY DEF OneFeed, AlwaysOneFeed
  <2>1. work[p].job \in Jobs /\ work[q].job \in Jobs
    BY DEF IInv, TypeInv, TypeOK, WorkFacts, WorkState, Feeding
  <2>2. /\ Leased(work[p].job) /\ job[work[p].job].worker = p
        /\ Leased(work[q].job) /\ job[work[q].job].worker = q
    BY DEF IInv, HoldInv, Holds, Leased
  <2> QED
    BY <2>1, <2>2 DEF IInv, HoldInv
<1> QED
  BY <1>1, Invariant, PTL

\* The snapshot a job names was taken before the job wrote anything, after any
\* number of crashes and takeovers.
THEOREM SnapshotBeforeWrites == Spec => []SnapshotClean
<1>1. IInv => SnapshotClean
  BY DEF IInv, OwnInv, OwnJob, OwnSnap, SnapshotClean, SnapshotAlwaysClean
<1> QED
  BY <1>1, Invariant, PTL

\* The checkpointed counters of a completed import add up to the rows of its
\* source, for any number of rows, crashes and replayed batches.
THEOREM RowsCountedOnce == Spec => []CountersExact
<1>1. IInv => CountersExact
  BY DEF IInv, OwnInv, OwnJob, OwnCount, CountersExact
<1> QED
  BY <1>1, Invariant, PTL

\* A retry that completed without errors has written what its parent recorded as
\* retryable.
THEOREM RetriesResolve == Spec => []RetryResolves
<1>1. IInv => RetryResolves
  BY DEF IInv, OwnInv, OwnJob, OwnRetry, RetryResolves
<1> QED
  BY <1>1, Invariant, PTL

\* No row of the source of a completed job is lost, whatever interrupted it: each
\* was written or is recorded as a failure.
THEOREM NoRowLost == Spec => []RowsAccounted
<1>1. IInv => RowsAccounted
  BY DEF IInv, CoverInv, CoverJob, Accounted, RowsAccounted, AllRowsAccounted
<1> QED
  BY <1>1, Invariant, PTL
====
