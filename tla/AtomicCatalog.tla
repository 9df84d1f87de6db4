----------------------------- MODULE AtomicCatalog -----------------------------
(***************************************************************************)
(* Blue/green catalog generations: app/atomic_catalog.py over the local    *)
(* backend of app/shared_object_store.py.                                  *)
(*                                                                         *)
(* A process of the server has one worker thread, which claims queued      *)
(* generations, builds an SQLite file, uploads it and may flip the active  *)
(* pointer, and one event loop, which runs the synchronous parts of        *)
(* activate, rollback and search one request at a time.  The processes     *)
(* share the control database and the object store; those of one host also *)
(* share the build directory.  Each method of the control store is one     *)
(* transaction.  One catalog is modelled: every query is keyed by it,      *)
(* except claim_next's, which serves all catalogs in order of creation.    *)
(***************************************************************************)
EXTENDS Naturals, FiniteSets

CONSTANTS
    Gens,        \* generations, numbered in the order of created_at
    Procs,       \* server processes
    Hosts,       \* machines, each with one build directory
    HostOf,      \* the machine a process runs on
    Traffic,     \* the processes that are sent requests
    Faults,      \* the faults that happen, of FaultKinds
    MaxCrashes,  \* bound on process crashes
    None

\* slow: a live worker may be too slow to renew its lease
\* io: the object store or the database may fail under a worker
\* damage: an object of the store may lose its content
\* busy: claim_next may raise ("database is locked")
FaultKinds == {"slow", "io", "damage", "busy"}

ASSUME GenAssumption == Gens \subseteq Nat
ASSUME HostAssumption == HostOf \in [Procs -> Hosts]
ASSUME TrafficAssumption == Traffic \subseteq Procs
ASSUME FaultAssumption == Faults \subseteq FaultKinds
ASSUME CrashAssumption == MaxCrashes \in Nat

VARIABLES
    status,      \* atomic_catalog_generations.status, "none" before creation
    auto,        \* auto_activate
    artifact,    \* artifact_sha256: the content a digest stands for
    holder,      \* worker_id
    lease,       \* lease_expires_at against the clock
    pointer,     \* the row of atomic_catalog_active
    store,       \* the object atomic/.../{generation}.sqlite3
    file,        \* build_dir/{generation}.sqlite3 on each host
    work,        \* the worker thread of each process
    req,         \* the request a process is serving
    opened,      \* the searchers a process keeps open
    crashes

vars == <<status, auto, artifact, holder, lease, pointer, store, file, work,
          req, opened, crashes>>

-----------------------------------------------------------------------------
(* Data *)

GenStatus == {"queued", "building", "ready", "active", "retired", "failed"}

\* An index whose build has not ended, or has.
Digest == {"partial", "complete"}

NoWork == [pc |-> "idle", gen |-> None, sum |-> None, local |-> FALSE]

\* local: process_generation has set local_db, and will remove the file.
WorkPcs == {"idle", "claimed", "building", "digest", "copy", "ready", "verify",
            "activate", "fail", "cleanup", "dead"}
WorkState == [pc : WorkPcs, gen : Gens \cup {None}, sum : Digest \cup {None},
              local : BOOLEAN]

\* gen: the generation the request is about; warm: the one it has prewarmed.
ReqPcs == {"idle", "activate", "rollback_read", "rollback_write", "search"}
NoReq == [pc |-> "idle", gen |-> None, warm |-> None]
ReqState == [pc : ReqPcs, gen : Gens \cup {None}, warm : Gens \cup {None}]

BuildFile == [owner : Procs, content : Digest]

ASSUME CatalogNoneAssumption ==
    /\ None \notin Gens
    /\ None \notin Procs
    /\ None \notin BuildFile
    /\ None \notin {"partial", "complete", "damaged", "live", "expired"}

FileOf(p, g) == file[HostOf[p]][g]

SetFile(p, g, f) == file' = [file EXCEPT ![HostOf[p]][g] = f]

\* Mutant: the claim does not look at the lease.
ClaimableBuilding(g) == status[g] \in {"queued", "building"}

\* A generation is in the queue: waiting, or with a lease that ran out.
Claimable(g) ==
    status[g] = "queued" \/ (status[g] = "building" /\ lease[g] = "expired")

\* Mutant: the digest of the object is not compared.
VerifiedUnchecked(g) == artifact[g] # None /\ store[g] # None

\* storage.materialize: the object is there and has the recorded digest.
Verified(g) == artifact[g] # None /\ store[g] = artifact[g]

Init ==
    /\ status = [g \in Gens |-> "none"]
    /\ auto \in [Gens -> BOOLEAN]
    /\ artifact = [g \in Gens |-> None]
    /\ holder = [g \in Gens |-> None]
    /\ lease = [g \in Gens |-> None]
    /\ pointer = [gen |-> None, prev |-> None]
    /\ store = [g \in Gens |-> None]
    /\ file = [h \in Hosts |-> [g \in Gens |-> None]]
    /\ work = [p \in Procs |-> NoWork]
    /\ req = [p \in Procs |-> NoReq]
    /\ opened = [p \in Procs |-> [g \in Gens |-> None]]
    /\ crashes = 0

-----------------------------------------------------------------------------
(* The control store *)

\* create_generation: the source is stored, then the row is inserted.
Create(g) ==
    /\ status[g] = "none"
    /\ \A older \in Gens : older < g => status[older] # "none"
    /\ status' = [status EXCEPT ![g] = "queued"]
    /\ UNCHANGED <<auto, artifact, holder, lease, pointer, store, file, work,
                   req, opened, crashes>>

\* Mutant: the previous generation is not retired.
DeployKeepsOld(g) ==
    /\ status' = [status EXCEPT ![g] = "active"]
    /\ pointer' = [gen |-> g, prev |-> pointer.gen]

\* The transaction of activate(): retire the previous generation, flip the
\* pointer.  The previous generation may be the same one.
Deploy(g) ==
    /\ status' = [s \in Gens |-> IF s = g THEN "active"
                                 ELSE IF s = pointer.gen THEN "retired"
                                 ELSE status[s]]
    /\ pointer' = [gen |-> g, prev |-> pointer.gen]

Activatable(g) == status[g] \in {"ready", "active", "retired"}

\* activate() as its callers see it: refused, or done.
TryDeploy(g) ==
    IF Activatable(g) THEN Deploy(g) ELSE UNCHANGED <<status, pointer>>

-----------------------------------------------------------------------------
(* The worker: claim_next and process_generation *)

Step(p, pc) == work' = [work EXCEPT ![p] = [@ EXCEPT !.pc = pc]]

\* The digest has been recorded, or will not be.
Forget(p, pc) == work' = [work EXCEPT ![p] = [@ EXCEPT !.pc = pc, !.sum = None]]

Claim(p) ==
    /\ work[p].pc = "idle"
    /\ \E g \in Gens :
          /\ Claimable(g)
          /\ \A older \in Gens : Claimable(older) => g <= older
          /\ status' = [status EXCEPT ![g] = "building"]
          /\ holder' = [holder EXCEPT ![g] = p]
          /\ lease' = [lease EXCEPT ![g] = "live"]
          /\ work' = [work EXCEPT ![p] = [NoWork EXCEPT !.pc = "claimed", !.gen = g]]
    /\ UNCHANGED <<auto, artifact, pointer, store, file, req, opened, crashes>>

\* The exception ends _run_loop: the process claims nothing any more.
ClaimFails(p) ==
    /\ "busy" \in Faults
    /\ work[p].pc = "idle"
    /\ \E g \in Gens : Claimable(g)
    /\ Step(p, "dead")
    /\ UNCHANGED <<status, auto, artifact, holder, lease, pointer, store, file,
                   req, opened, crashes>>

\* The build file is removed and created anew.  A worker that was writing the
\* removed file goes on, without effect on the new one.
StartBuild(p) ==
    /\ work[p].pc = "claimed"
    /\ SetFile(p, work[p].gen, [owner |-> p, content |-> "partial"])
    /\ Step(p, "building")
    /\ UNCHANGED <<status, auto, artifact, holder, lease, pointer, store, req,
                   opened, crashes>>

\* Between two batches, while the row is still this worker's.
Heartbeat(p) ==
    LET g == work[p].gen
    IN  /\ work[p].pc = "building"
        /\ holder[g] = p /\ status[g] = "building"
        /\ lease' = [lease EXCEPT ![g] = "live"]
        /\ UNCHANGED <<status, auto, artifact, holder, pointer, store, file,
                       work, req, opened, crashes>>

FinishBuild(p) ==
    LET g == work[p].gen
        f == FileOf(p, g)
    IN  /\ work[p].pc = "building"
        /\ IF f # None /\ f.owner = p
           THEN SetFile(p, g, [f EXCEPT !.content = "complete"])
           ELSE UNCHANGED file
        /\ work' = [work EXCEPT ![p] = [@ EXCEPT !.pc = "digest"]]
        /\ UNCHANGED <<status, auto, artifact, holder, lease, pointer, store,
                       req, opened, crashes>>

\* Mutant: build() ends its file like a complete one after an error.
BuildErrorIgnored(p) ==
    /\ work[p].pc = "building"
    /\ Step(p, "digest")
    /\ UNCHANGED <<status, auto, artifact, holder, lease, pointer, store, file,
                   req, opened, crashes>>

\* A bad source, or an error while writing: build() removes the file.
BuildFails(p) ==
    /\ work[p].pc \in {"claimed", "building"}
    /\ IF work[p].pc = "building" THEN SetFile(p, work[p].gen, None)
                                  ELSE UNCHANGED file
    /\ Step(p, "fail")
    /\ UNCHANGED <<status, auto, artifact, holder, lease, pointer, store, req,
                   opened, crashes>>

\* build() stats the file by its name, then put_file computes its digest.
DigestFile(p) ==
    LET f == FileOf(p, work[p].gen)
    IN  /\ work[p].pc = "digest"
        /\ work' = [work EXCEPT ![p] =
              IF f = None THEN [@ EXCEPT !.pc = "fail"]
              ELSE [@ EXCEPT !.pc = "copy", !.sum = f.content, !.local = TRUE]]
        /\ UNCHANGED <<status, auto, artifact, holder, lease, pointer, store,
                       file, req, opened, crashes>>

\* put_file copies the file and renames the copy over the object.
CopyFile(p) ==
    LET g == work[p].gen
        f == FileOf(p, g)
    IN  /\ work[p].pc = "copy"
        /\ IF f = None THEN Step(p, "fail") /\ UNCHANGED store
           ELSE /\ store' = [store EXCEPT ![g] = f.content]
                /\ Step(p, "ready")
        /\ UNCHANGED <<status, auto, artifact, holder, lease, pointer, file,
                       req, opened, crashes>>

\* mark_ready names no worker and no status in its WHERE clause.
MarkReady(p) ==
    LET g == work[p].gen
    IN  /\ work[p].pc = "ready"
        /\ status' = [status EXCEPT ![g] = "ready"]
        /\ artifact' = [artifact EXCEPT ![g] = work[p].sum]
        /\ holder' = [holder EXCEPT ![g] = None]
        /\ lease' = [lease EXCEPT ![g] = None]
        /\ IF auto[g] THEN Step(p, "verify") ELSE Forget(p, "cleanup")
        /\ UNCHANGED <<auto, pointer, store, file, req, opened, crashes>>

\* materialize before the flip: the object has the digest this worker recorded.
Verify(p) ==
    /\ work[p].pc = "verify"
    /\ Forget(p, IF store[work[p].gen] = work[p].sum THEN "activate" ELSE "fail")
    /\ UNCHANGED <<status, auto, artifact, holder, lease, pointer, store, file,
                   req, opened, crashes>>

AutoActivate(p) ==
    LET g == work[p].gen
    IN  /\ work[p].pc = "activate"
        /\ TryDeploy(g)
        /\ Step(p, IF Activatable(g) THEN "cleanup" ELSE "fail")
        /\ UNCHANGED <<auto, artifact, holder, lease, store, file, req, opened,
                       crashes>>

\* The object store or the database fails under the worker.
WorkFails(p) ==
    /\ "io" \in Faults
    /\ work[p].pc \in {"digest", "copy", "ready", "verify", "activate"}
    /\ Step(p, "fail")
    /\ UNCHANGED <<status, auto, artifact, holder, lease, pointer, store, file,
                   req, opened, crashes>>

\* Mutant: the exception is swallowed.
FailUnrecorded(p) ==
    /\ work[p].pc = "fail"
    /\ Forget(p, "cleanup")
    /\ UNCHANGED <<status, auto, artifact, holder, lease, pointer, store, file,
                   req, opened, crashes>>

\* The exception handler: fail() names no worker and no status either.
Fail(p) ==
    LET g == work[p].gen
    IN  /\ work[p].pc = "fail"
        /\ status' = [status EXCEPT ![g] = "failed"]
        /\ holder' = [holder EXCEPT ![g] = None]
        /\ lease' = [lease EXCEPT ![g] = None]
        /\ Forget(p, "cleanup")
        /\ UNCHANGED <<auto, artifact, pointer, store, file, req, opened, crashes>>

Cleanup(p) ==
    /\ work[p].pc = "cleanup"
    /\ IF work[p].local THEN SetFile(p, work[p].gen, None) ELSE UNCHANGED file
    /\ work' = [work EXCEPT ![p] = NoWork]
    /\ UNCHANGED <<status, auto, artifact, holder, lease, pointer, store, req,
                   opened, crashes>>

-----------------------------------------------------------------------------
(* Requests: AtomicCatalogServices.activate and .rollback, Runtime._searcher *)

ReqStep(p, r) == req' = [req EXCEPT ![p] = r]

ActivateRequest(p, g) ==
    /\ req[p].pc = "idle"
    /\ Verified(g)
    /\ ReqStep(p, [pc |-> "activate", gen |-> g, warm |-> g])
    /\ UNCHANGED <<status, auto, artifact, holder, lease, pointer, store, file,
                   work, opened, crashes>>

ActivateWrite(p) ==
    /\ req[p].pc = "activate"
    /\ TryDeploy(req[p].gen)
    /\ ReqStep(p, NoReq)
    /\ UNCHANGED <<auto, artifact, holder, lease, store, file, work, opened, crashes>>

\* Services.rollback reads the pointer and prewarms the previous generation ...
RollbackRequest(p) ==
    /\ req[p].pc = "idle"
    /\ pointer.prev # None /\ Verified(pointer.prev)
    /\ ReqStep(p, [pc |-> "rollback_read", gen |-> None, warm |-> pointer.prev])
    /\ UNCHANGED <<status, auto, artifact, holder, lease, pointer, store, file,
                   work, opened, crashes>>

\* ... control.rollback reads the pointer again ...
RollbackRead(p) ==
    /\ req[p].pc = "rollback_read"
    /\ ReqStep(p, IF pointer.prev = None THEN NoReq
                  ELSE [req[p] EXCEPT !.pc = "rollback_write", !.gen = pointer.prev])
    /\ UNCHANGED <<status, auto, artifact, holder, lease, pointer, store, file,
                   work, opened, crashes>>

\* ... and activates the generation that is the previous one now.
RollbackWrite(p) ==
    /\ req[p].pc = "rollback_write"
    /\ TryDeploy(req[p].gen)
    /\ ReqStep(p, NoReq)
    /\ UNCHANGED <<auto, artifact, holder, lease, store, file, work, opened, crashes>>

Search(p) ==
    /\ req[p].pc = "idle"
    /\ pointer.gen # None
    /\ ReqStep(p, [NoReq EXCEPT !.pc = "search", !.gen = pointer.gen])
    /\ UNCHANGED <<status, auto, artifact, holder, lease, pointer, store, file,
                   work, opened, crashes>>

\* A searcher is opened once and then kept: it reads one file for ever.
OpenSearcher(p) ==
    LET g == req[p].gen
    IN  /\ req[p].pc = "search"
        /\ IF opened[p][g] = None /\ Verified(g)
           THEN opened' = [opened EXCEPT ![p][g] = store[g]]
           ELSE UNCHANGED opened
        /\ ReqStep(p, NoReq)
        /\ UNCHANGED <<status, auto, artifact, holder, lease, pointer, store,
                       file, work, crashes>>

-----------------------------------------------------------------------------
(* The environment *)

\* 300 seconds without a heartbeat: the holder is gone, or it is slow.
Expire(g) ==
    /\ lease[g] = "live"
    /\ \/ "slow" \in Faults
       \/ \A p \in Procs : holder[g] = p => work[p].gen # g
    /\ lease' = [lease EXCEPT ![g] = "expired"]
    /\ UNCHANGED <<status, auto, artifact, holder, pointer, store, file, work,
                   req, opened, crashes>>

\* An object that was never flushed to disk, or was truncated.
Damage(g) ==
    /\ "damage" \in Faults
    /\ store[g] # None
    /\ store' = [store EXCEPT ![g] = "damaged"]
    /\ UNCHANGED <<status, auto, artifact, holder, lease, pointer, file, work,
                   req, opened, crashes>>

\* The process dies and is started again, with a new worker id.
Crash(p) ==
    /\ crashes < MaxCrashes
    /\ crashes' = crashes + 1
    /\ work' = [work EXCEPT ![p] = NoWork]
    /\ req' = [req EXCEPT ![p] = NoReq]
    /\ opened' = [opened EXCEPT ![p] = [g \in Gens |-> None]]
    /\ UNCHANGED <<status, auto, artifact, holder, lease, pointer, store, file>>

-----------------------------------------------------------------------------
Work(p) ==
    \/ Claim(p) \/ StartBuild(p) \/ FinishBuild(p) \/ BuildFails(p)
    \/ DigestFile(p) \/ CopyFile(p) \/ MarkReady(p) \/ Verify(p)
    \/ AutoActivate(p) \/ WorkFails(p) \/ Fail(p) \/ Cleanup(p)

Request(p) ==
    \/ \E g \in Gens : ActivateRequest(p, g)
    \/ ActivateWrite(p) \/ RollbackRequest(p) \/ RollbackRead(p)
    \/ RollbackWrite(p) \/ Search(p) \/ OpenSearcher(p)

Next ==
    \/ \E p \in Procs : Work(p) \/ ClaimFails(p) \/ Heartbeat(p) \/ Crash(p)
    \/ \E p \in Traffic : Request(p)
    \/ \E g \in Gens : Create(g) \/ Expire(g) \/ Damage(g)

Spec == Init /\ [][Next]_vars

\* A worker thread that is running goes on, and the clock advances.
FairSpec ==
    /\ Spec
    /\ \A p \in Procs : WF_vars(Work(p))
    /\ \A g \in Gens : WF_vars(Expire(g))

-----------------------------------------------------------------------------
(* Properties *)

\* Every variable has its type, and a row has a holder and a lease exactly
\* while it is being built.
TypeOK ==
    /\ status \in [Gens -> GenStatus \cup {"none"}]
    /\ auto \in [Gens -> BOOLEAN]
    /\ artifact \in [Gens -> Digest \cup {None}]
    /\ holder \in [Gens -> Procs \cup {None}]
    /\ lease \in [Gens -> {"live", "expired", None}]
    /\ \A g \in Gens : /\ status[g] = "building" <=> holder[g] # None
                       /\ status[g] = "building" <=> lease[g] # None
    /\ pointer \in [gen : Gens \cup {None}, prev : Gens \cup {None}]
    /\ store \in [Gens -> Digest \cup {"damaged", None}]
    /\ file \in [Hosts -> [Gens -> BuildFile \cup {None}]]
    /\ work \in [Procs -> WorkState]
    /\ req \in [Procs -> ReqState]
    /\ opened \in [Procs -> [Gens -> Digest \cup {"damaged", None}]]
    /\ crashes \in Nat

\* A generation is never exposed while it is still being built: what the
\* pointer names was digested after its build had ended, whatever workers and
\* operators did in the meantime.
ActiveComplete == pointer.gen # None => artifact[pointer.gen] = "complete"

\* No reader observes a partial or damaged index, not even one that read the
\* pointer before a flip and opened the file after it.
ServedComplete ==
    \A p \in Procs, g \in Gens : opened[p][g] \in {"complete", None}

\* The pointer and the statuses, written by different methods, agree: the
\* generation it names is the only active one.
PointerStatus == \A g \in Gens : status[g] = "active" <=> pointer.gen = g

\* Leases keep two workers off one generation, from the claim to the cleanup,
\* as long as they only expire for workers that are gone.
OneBuilder ==
    \A p, q \in Procs : p # q /\ work[p].gen # None => work[p].gen # work[q].gen

\* active -> retired is the only way out of active (docs, build lifecycle).
ActiveOnlyRetires ==
    [][\A g \in Gens :
          status[g] = "active" => status'[g] \in {"active", "retired"}]_vars

\* Only a generation that the request has prewarmed becomes active (docs).
FlipPrewarmed ==
    [][\A p \in Procs :
          req[p].pc \in {"activate", "rollback_write"} /\ pointer' # pointer
             /\ req'[p] = NoReq
          => pointer'.gen = req[p].warm]_vars

\* Every generation that was accepted is built or failed in the end.
BuildSettles ==
    \A g \in Gens : status[g] \in {"queued", "building"}
                    ~> status[g] \notin {"queued", "building"}

\* The catalog is a blue/green switch between completed generations.
Catalog == INSTANCE BlueGreen
    WITH live <- pointer.gen, built <- {g \in Gens : artifact[g] = "complete"}

ImplementsBlueGreen == Catalog!Spec
=============================================================================
