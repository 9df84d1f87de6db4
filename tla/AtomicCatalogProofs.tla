------------------------- MODULE AtomicCatalogProofs -------------------------
(***************************************************************************)
(* Theorems about AtomicCatalog, for any number of generations, processes, *)
(* machines and crashes.  The invariant has three layers: what the tables  *)
(* and the program points say whatever happens (BaseInv); that a lease     *)
(* keeps its holder alone, when leases only run out for workers that are   *)
(* gone (LeaseInv); and what a worker that is alone with its build file    *)
(* knows about it (FileInv).                                               *)
(***************************************************************************)
EXTENDS AtomicCatalog, TLAPS

Resting == {"idle", "dead"}

\* The columns of a row whatever the workers do: a generation that can be
\* activated has an artifact, and the pointer names one that was built.
TableInv ==
    /\ \A g \in Gens : Activatable(g) => artifact[g] # None
    /\ pointer.gen # None =>
          /\ artifact[pointer.gen] # None
          /\ status[pointer.gen] \in {"ready", "active", "retired", "failed"}

\* The generation a worker, or a request, is about at its program point.
GoodWork ==
    {w \in WorkState : /\ w.pc \in Resting <=> w.gen = None
                       /\ w.pc \in {"copy", "ready"} => w.sum # None}

GoodReq ==
    {r \in ReqState :
        r.pc \in {"activate", "rollback_write", "search"} => r.gen \in Gens}

TablesOK ==
    /\ status \in [Gens -> GenStatus \cup {"none"}]
    /\ auto \in [Gens -> BOOLEAN]
    /\ artifact \in [Gens -> Digest \cup {None}]
    /\ holder \in [Gens -> Procs \cup {None}]
    /\ lease \in [Gens -> {"live", "expired", None}]
    /\ \A g \in Gens : /\ status[g] = "building" <=> holder[g] # None
                       /\ status[g] = "building" <=> lease[g] # None
    /\ pointer \in [gen : Gens \cup {None}, prev : Gens \cup {None}]
    /\ store \in [Gens -> Digest \cup {"damaged", None}]
    /\ file \in [Hosts -> [Gens -> BuildFile \cup {None}]]
    /\ opened \in [Procs -> [Gens -> Digest \cup {"damaged", None}]]
    /\ crashes \in Nat

BaseInv ==
    /\ TablesOK
    /\ TableInv
    /\ work \in [Procs -> GoodWork]
    /\ req \in [Procs -> GoodReq]

\* Leases run out only for workers that are gone.
PromptWorkers == "slow" \notin Faults

\* The row of a generation somebody works on has that worker's live lease
\* until the worker itself ends the build.
LeaseFacts(p) ==
    LET g == work[p].gen
    IN  g # None =>
          /\ status[g] \notin {"none", "queued"}
          /\ status[g] = "building" => holder[g] = p /\ lease[g] = "live"

LeaseInv == OneBuilder /\ \A p \in Procs : LeaseFacts(p)

\* No two workers of one machine build the same generation.
FileAlone ==
    \A p, q \in Procs :
        HostOf[p] = HostOf[q] /\ work[p].gen = work[q].gen /\ work[p].gen # None
        => p = q

FileFacts(p) ==
    LET f == FileOf(p, work[p].gen)
    IN  /\ work[p].pc = "building" => f # None /\ f.owner = p
        /\ work[p].pc \in {"digest", "copy"} => f = None \/ f.content = "complete"
        /\ work[p].pc \in {"copy", "ready"} => work[p].sum = "complete"

FileInv ==
    /\ \A p \in Procs : FileFacts(p)
    /\ \A g \in Gens : artifact[g] # "partial"

\* Either way, a worker is alone with its build file.
Separated == PromptWorkers \/ (\A p, q \in Procs : HostOf[p] = HostOf[q] => p = q)

IInv == /\ BaseInv
        /\ PromptWorkers => LeaseInv
        /\ Separated => FileInv

-----------------------------------------------------------------------------
LEMMA NoneApart ==
    /\ None \notin Gens /\ None \notin Procs /\ None \notin BuildFile
    /\ None # "partial" /\ None # "complete" /\ None # "damaged"
    /\ None # "live" /\ None # "expired"
BY CatalogNoneAssumption

LEMMA NoWorkGood == NoWork \in GoodWork
BY NoneApart DEF NoWork, GoodWork, WorkState, WorkPcs, Resting, Digest

LEMMA NoReqGood == NoReq \in GoodReq
BY NoneApart DEF NoReq, GoodReq, ReqState, ReqPcs

LEMMA InitBase == Init => BaseInv
<1> SUFFICES ASSUME Init PROVE BaseInv
  OBVIOUS
<1>1. work \in [Procs -> GoodWork] /\ req \in [Procs -> GoodReq]
  BY NoWorkGood, NoReqGood DEF Init
<1>2. TablesOK
  BY NoneApart, CrashAssumption DEF Init, TablesOK, GenStatus, Digest, BuildFile
<1>3. TableInv
  BY DEF Init, TableInv, Activatable
<1> QED
  BY <1>1, <1>2, <1>3 DEF BaseInv

LEMMA BaseType == BaseInv => TypeOK
BY DEF BaseInv, TablesOK, TypeOK, GoodWork, GoodReq

-----------------------------------------------------------------------------
(* Steps of one worker or one request *)

\* Moving to another program point of the same build.
LEMMA GoodStep ==
    ASSUME NEW w \in GoodWork, w.pc \notin Resting,
           NEW pc \in WorkPcs \ Resting,
           pc \in {"copy", "ready"} => w.sum # None
    PROVE  [w EXCEPT !.pc = pc] \in GoodWork
BY NoneApart DEF GoodWork, WorkState, WorkPcs, Resting

LEMMA StepGood ==
    ASSUME BaseInv, NEW p \in Procs, work[p].pc \notin Resting,
           NEW pc \in WorkPcs \ Resting,
           pc \in {"copy", "ready"} => work[p].sum # None,
           Step(p, pc)
    PROVE  work' \in [Procs -> GoodWork]
<1>1. work[p] \in GoodWork
  BY DEF BaseInv
<1>2. [work[p] EXCEPT !.pc = pc] \in GoodWork
  BY <1>1, GoodStep
<1> QED
  BY <1>2 DEF BaseInv, Step

LEMMA ForgetGood ==
    ASSUME BaseInv, NEW p \in Procs, work[p].pc \notin Resting,
           NEW pc \in WorkPcs \ (Resting \cup {"copy", "ready"}),
           Forget(p, pc)
    PROVE  work' \in [Procs -> GoodWork]
<1>1. work[p] \in GoodWork
  BY DEF BaseInv
<1>2. [work[p] EXCEPT !.pc = pc, !.sum = None] \in GoodWork
  BY <1>1, NoneApart DEF GoodWork, WorkState, WorkPcs, Resting
<1> QED
  BY <1>2 DEF BaseInv, Forget

\* The generation of a worker that is not resting.
LEMMA WorkGen ==
    ASSUME BaseInv, NEW p \in Procs, work[p].pc \notin Resting
    PROVE  work[p].gen \in Gens
BY DEF BaseInv, GoodWork, WorkState

LEMMA SetFileType ==
    ASSUME BaseInv, NEW p \in Procs, NEW g \in Gens,
           NEW f \in BuildFile \cup {None}, SetFile(p, g, f)
    PROVE  file' \in [Hosts -> [Gens -> BuildFile \cup {None}]]
BY HostAssumption DEF SetFile, BaseInv, TablesOK

LEMMA FileOfType ==
    ASSUME BaseInv, NEW p \in Procs, NEW g \in Gens
    PROVE  FileOf(p, g) \in BuildFile \cup {None}
BY HostAssumption DEF FileOf, BaseInv, TablesOK

LEMMA TryDeployTables ==
    ASSUME BaseInv, NEW g \in Gens, TryDeploy(g),
           UNCHANGED <<auto, artifact, holder, lease, store, file, opened, crashes>>
    PROVE  TablesOK' /\ TableInv'
<1>1. CASE Activatable(g)
  <2>1. status' \in [Gens -> GenStatus \cup {"none"}]
    BY <1>1 DEF TryDeploy, Deploy, BaseInv, TablesOK, GenStatus
  <2>2. pointer' = [gen |-> g, prev |-> pointer.gen]
    BY <1>1 DEF TryDeploy, Deploy
  <2>3. ASSUME NEW k \in Gens PROVE status'[k] = "building" <=> status[k] = "building"
    BY <1>1, NoneApart
       DEF TryDeploy, Deploy, Activatable, BaseInv, TablesOK, TableInv
  <2>4. TablesOK'
    BY <2>1, <2>2, <2>3 DEF BaseInv, TablesOK
  <2>5. TableInv'
    BY <1>1, <2>2, NoneApart
       DEF TryDeploy, Deploy, Activatable, BaseInv, TablesOK, TableInv
  <2> QED
    BY <2>4, <2>5
<1>2. CASE ~Activatable(g)
  BY <1>2 DEF TryDeploy, BaseInv, TablesOK, TableInv, Activatable
<1> QED
  BY <1>1, <1>2

-----------------------------------------------------------------------------
(* The base layer, one lemma per action. *)

LEMMA CreateBase ==
    ASSUME BaseInv, NEW g \in Gens, Create(g)
    PROVE  BaseInv'
<1>1. work' \in [Procs -> GoodWork]
  BY DEF Create, BaseInv
<1>2. req' \in [Procs -> GoodReq]
  BY DEF Create, BaseInv
<1>3. TablesOK'
  BY NoneApart, HostAssumption DEF Create, BaseInv, TablesOK, TableInv, GenStatus
<1>4. TableInv'
  BY NoneApart DEF Create, BaseInv, TablesOK, TableInv, Activatable, GenStatus
<1> QED
  BY <1>1, <1>2, <1>3, <1>4 DEF BaseInv

LEMMA ExpireBase ==
    ASSUME BaseInv, NEW g \in Gens, Expire(g)
    PROVE  BaseInv'
<1>1. work' \in [Procs -> GoodWork]
  BY DEF Expire, BaseInv
<1>2. req' \in [Procs -> GoodReq]
  BY DEF Expire, BaseInv
<1>3. TablesOK'
  BY NoneApart, HostAssumption DEF Expire, BaseInv, TablesOK, TableInv, GenStatus
<1>4. TableInv'
  BY NoneApart DEF Expire, BaseInv, TablesOK, TableInv, Activatable, GenStatus
<1> QED
  BY <1>1, <1>2, <1>3, <1>4 DEF BaseInv

LEMMA DamageBase ==
    ASSUME BaseInv, NEW g \in Gens, Damage(g)
    PROVE  BaseInv'
<1>1. work' \in [Procs -> GoodWork]
  BY DEF Damage, BaseInv
<1>2. req' \in [Procs -> GoodReq]
  BY DEF Damage, BaseInv
<1>3. TablesOK'
  BY NoneApart, HostAssumption DEF Damage, BaseInv, TablesOK, TableInv, Digest
<1>4. TableInv'
  BY NoneApart DEF Damage, BaseInv, TablesOK, TableInv, Activatable, Digest
<1> QED
  BY <1>1, <1>2, <1>3, <1>4 DEF BaseInv

LEMMA ClaimBase ==
    ASSUME BaseInv, NEW p \in Procs, Claim(p)
    PROVE  BaseInv'
<1>1. work' \in [Procs -> GoodWork]
  <2>1. PICK g \in Gens :
          work' = [work EXCEPT ![p] = [NoWork EXCEPT !.pc = "claimed", !.gen = g]]
    BY DEF Claim
  <2>2. [NoWork EXCEPT !.pc = "claimed", !.gen = g] \in GoodWork
    BY NoneApart DEF NoWork, GoodWork, WorkState, WorkPcs, Resting, Digest
  <2> QED
    BY <2>1, <2>2 DEF BaseInv
<1>2. req' \in [Procs -> GoodReq]
  BY DEF Claim, BaseInv
<1>3. TablesOK'
  BY NoneApart, HostAssumption DEF Claim, BaseInv, TablesOK, TableInv, Claimable, GenStatus
<1>4. TableInv'
  BY NoneApart DEF Claim, BaseInv, TablesOK, TableInv, Activatable, Claimable, GenStatus
<1> QED
  BY <1>1, <1>2, <1>3, <1>4 DEF BaseInv

LEMMA ClaimFailsBase ==
    ASSUME BaseInv, NEW p \in Procs, ClaimFails(p)
    PROVE  BaseInv'
<1>1. work' \in [Procs -> GoodWork]
  <2>1. work[p] \in GoodWork /\ work[p].pc = "idle"
    BY DEF BaseInv, ClaimFails
  <2>2. [work[p] EXCEPT !.pc = "dead"] \in GoodWork
    BY <2>1 DEF GoodWork, WorkState, WorkPcs, Resting
  <2> QED
    BY <2>2 DEF ClaimFails, Step, BaseInv
<1>2. req' \in [Procs -> GoodReq]
  BY DEF ClaimFails, BaseInv
<1>3. TablesOK'
  BY NoneApart, HostAssumption DEF ClaimFails, BaseInv, TablesOK, TableInv
<1>4. TableInv'
  BY NoneApart DEF ClaimFails, BaseInv, TablesOK, TableInv, Activatable
<1> QED
  BY <1>1, <1>2, <1>3, <1>4 DEF BaseInv

LEMMA StartBuildBase ==
    ASSUME BaseInv, NEW p \in Procs, StartBuild(p)
    PROVE  BaseInv'
<1>1. work' \in [Procs -> GoodWork]
  BY StepGood DEF StartBuild, WorkPcs, Resting
<1>2. req' \in [Procs -> GoodReq]
  BY DEF StartBuild, BaseInv
<1>3. TablesOK'
  BY NoneApart, WorkGen, HostAssumption DEF StartBuild, BaseInv, TablesOK, TableInv, SetFile, BuildFile, Digest, Resting
<1>4. TableInv'
  BY NoneApart, WorkGen DEF StartBuild, BaseInv, TablesOK, TableInv, Activatable, SetFile, BuildFile, Digest, Resting
<1> QED
  BY <1>1, <1>2, <1>3, <1>4 DEF BaseInv

LEMMA HeartbeatBase ==
    ASSUME BaseInv, NEW p \in Procs, Heartbeat(p)
    PROVE  BaseInv'
<1>1. work' \in [Procs -> GoodWork]
  BY DEF Heartbeat, BaseInv
<1>2. req' \in [Procs -> GoodReq]
  BY DEF Heartbeat, BaseInv
<1>3. TablesOK'
  BY NoneApart, WorkGen, HostAssumption DEF Heartbeat, BaseInv, TablesOK, TableInv, Resting, GenStatus
<1>4. TableInv'
  BY NoneApart, WorkGen DEF Heartbeat, BaseInv, TablesOK, TableInv, Activatable, Resting, GenStatus
<1> QED
  BY <1>1, <1>2, <1>3, <1>4 DEF BaseInv

LEMMA FinishBuildBase ==
    ASSUME BaseInv, NEW p \in Procs, FinishBuild(p)
    PROVE  BaseInv'
<1>1. work' \in [Procs -> GoodWork]
  BY StepGood DEF FinishBuild, WorkPcs, Resting, Step
<1>2. req' \in [Procs -> GoodReq]
  BY DEF FinishBuild, BaseInv
<1>3. TablesOK'
  <2> DEFINE g == work[p].gen
             f == FileOf(p, g)
  <2>1. g \in Gens
    BY WorkGen DEF FinishBuild, Resting
  <2>2. f \in BuildFile \cup {None}
    BY <2>1, FileOfType
  <2>3. f # None => [f EXCEPT !.content = "complete"] \in BuildFile
    BY <2>2 DEF BuildFile, Digest
  <2>4. file' \in [Hosts -> [Gens -> BuildFile \cup {None}]]
    <3>1. CASE f # None /\ f.owner = p
      BY <2>1, <2>3, <3>1, SetFileType DEF FinishBuild
    <3>2. CASE ~(f # None /\ f.owner = p)
      BY <3>2 DEF FinishBuild, BaseInv, TablesOK
    <3> QED
      BY <3>1, <3>2
  <2> QED
    BY <2>4 DEF FinishBuild, BaseInv, TablesOK
<1>4. TableInv'
  BY NoneApart, WorkGen DEF FinishBuild, BaseInv, TablesOK, TableInv, Activatable, SetFile, FileOf, BuildFile, Digest, Resting
<1> QED
  BY <1>1, <1>2, <1>3, <1>4 DEF BaseInv

LEMMA BuildFailsBase ==
    ASSUME BaseInv, NEW p \in Procs, BuildFails(p)
    PROVE  BaseInv'
<1>1. work' \in [Procs -> GoodWork]
  BY StepGood DEF BuildFails, WorkPcs, Resting
<1>2. req' \in [Procs -> GoodReq]
  BY DEF BuildFails, BaseInv
<1>3. TablesOK'
  <2>1. work[p].gen \in Gens
    BY WorkGen DEF BuildFails, Resting
  <2>2. CASE work[p].pc = "building"
    <3>1. file' \in [Hosts -> [Gens -> BuildFile \cup {None}]]
      BY <2>1, <2>2, SetFileType DEF BuildFails
    <3> QED
      BY <3>1 DEF BuildFails, BaseInv, TablesOK
  <2>3. CASE ~(work[p].pc = "building")
    BY <2>3 DEF BuildFails, BaseInv, TablesOK
  <2> QED
    BY <2>2, <2>3
<1>4. TableInv'
  BY NoneApart, WorkGen DEF BuildFails, BaseInv, TablesOK, TableInv, Activatable, SetFile, Resting
<1> QED
  BY <1>1, <1>2, <1>3, <1>4 DEF BaseInv

LEMMA DigestFileBase ==
    ASSUME BaseInv, NEW p \in Procs, DigestFile(p)
    PROVE  BaseInv'
<1>1. work' \in [Procs -> GoodWork]
  <2> DEFINE g == work[p].gen
             f == FileOf(p, g)
  <2>1. work[p] \in GoodWork /\ work[p].pc = "digest" /\ g \in Gens
    BY WorkGen DEF DigestFile, BaseInv, Resting
  <2>2. f \in BuildFile \cup {None}
    BY <2>1, FileOfType
  <2>3. [work[p] EXCEPT !.pc = "fail"] \in GoodWork
    BY <2>1, GoodStep DEF WorkPcs, Resting
  <2>4. f # None =>
          [work[p] EXCEPT !.pc = "copy", !.sum = f.content, !.local = TRUE] \in GoodWork
    BY <2>1, <2>2, NoneApart DEF GoodWork, WorkState, WorkPcs, Resting, BuildFile, Digest
  <2> QED
    BY <2>3, <2>4 DEF DigestFile, BaseInv
<1>2. req' \in [Procs -> GoodReq]
  BY DEF DigestFile, BaseInv
<1>3. TablesOK'
  BY NoneApart, HostAssumption DEF DigestFile, BaseInv, TablesOK, TableInv
<1>4. TableInv'
  BY NoneApart DEF DigestFile, BaseInv, TablesOK, TableInv, Activatable
<1> QED
  BY <1>1, <1>2, <1>3, <1>4 DEF BaseInv

LEMMA CopyFileBase ==
    ASSUME BaseInv, NEW p \in Procs, CopyFile(p)
    PROVE  BaseInv'
<1>1. work' \in [Procs -> GoodWork]
  <2>1. work[p] \in GoodWork /\ work[p].pc = "copy" /\ work[p].sum # None
    BY DEF CopyFile, BaseInv, GoodWork
  <2>2. Step(p, "fail") \/ Step(p, "ready")
    BY DEF CopyFile
  <2> QED
    BY <2>1, <2>2, StepGood DEF WorkPcs, Resting
<1>2. req' \in [Procs -> GoodReq]
  BY DEF CopyFile, BaseInv
<1>3. TablesOK'
  <2> DEFINE g == work[p].gen
             f == FileOf(p, g)
  <2>1. g \in Gens
    BY WorkGen DEF CopyFile, Resting
  <2>2. f # None => f.content \in Digest
    BY <2>1, FileOfType DEF BuildFile
  <2>3. CASE f = None
    BY <2>3 DEF CopyFile, BaseInv, TablesOK
  <2>4. CASE f # None
    BY <2>1, <2>2, <2>4 DEF CopyFile, BaseInv, TablesOK
  <2> QED
    BY <2>3, <2>4
<1>4. TableInv'
  BY NoneApart, WorkGen DEF CopyFile, BaseInv, TablesOK, TableInv, Activatable, FileOf, BuildFile, Digest, Resting
<1> QED
  BY <1>1, <1>2, <1>3, <1>4 DEF BaseInv

LEMMA MarkReadyBase ==
    ASSUME BaseInv, NEW p \in Procs, MarkReady(p)
    PROVE  BaseInv'
<1>1. work' \in [Procs -> GoodWork]
  BY StepGood, ForgetGood DEF MarkReady, WorkPcs, Resting
<1>2. req' \in [Procs -> GoodReq]
  BY DEF MarkReady, BaseInv
<1>3. TablesOK'
  BY NoneApart, WorkGen, HostAssumption DEF MarkReady, BaseInv, TablesOK, TableInv, GenStatus, Resting, GoodWork, WorkState
<1>4. TableInv'
  BY NoneApart, WorkGen DEF MarkReady, BaseInv, TablesOK, TableInv, Activatable, GenStatus, Resting, GoodWork, WorkState
<1> QED
  BY <1>1, <1>2, <1>3, <1>4 DEF BaseInv

LEMMA VerifyBase ==
    ASSUME BaseInv, NEW p \in Procs, Verify(p)
    PROVE  BaseInv'
<1>1. work' \in [Procs -> GoodWork]
  BY ForgetGood DEF Verify, WorkPcs, Resting
<1>2. req' \in [Procs -> GoodReq]
  BY DEF Verify, BaseInv
<1>3. TablesOK'
  BY NoneApart, HostAssumption DEF Verify, BaseInv, TablesOK, TableInv
<1>4. TableInv'
  BY NoneApart DEF Verify, BaseInv, TablesOK, TableInv, Activatable
<1> QED
  BY <1>1, <1>2, <1>3, <1>4 DEF BaseInv

LEMMA AutoActivateBase ==
    ASSUME BaseInv, NEW p \in Procs, AutoActivate(p)
    PROVE  BaseInv'
<1>1. work' \in [Procs -> GoodWork]
  BY StepGood DEF AutoActivate, WorkPcs, Resting
<1>2. req' \in [Procs -> GoodReq]
  BY DEF AutoActivate, BaseInv
<1>3. work[p].gen \in Gens
  BY WorkGen DEF AutoActivate, Resting
<1>4. TablesOK' /\ TableInv'
  BY <1>3, TryDeployTables DEF AutoActivate
<1> QED
  BY <1>1, <1>2, <1>4 DEF BaseInv

LEMMA WorkFailsBase ==
    ASSUME BaseInv, NEW p \in Procs, WorkFails(p)
    PROVE  BaseInv'
<1>1. work' \in [Procs -> GoodWork]
  BY StepGood DEF WorkFails, WorkPcs, Resting
<1>2. req' \in [Procs -> GoodReq]
  BY DEF WorkFails, BaseInv
<1>3. TablesOK'
  BY NoneApart, HostAssumption DEF WorkFails, BaseInv, TablesOK, TableInv
<1>4. TableInv'
  BY NoneApart DEF WorkFails, BaseInv, TablesOK, TableInv, Activatable
<1> QED
  BY <1>1, <1>2, <1>3, <1>4 DEF BaseInv

LEMMA FailBase ==
    ASSUME BaseInv, NEW p \in Procs, Fail(p)
    PROVE  BaseInv'
<1>1. work' \in [Procs -> GoodWork]
  BY ForgetGood DEF Fail, WorkPcs, Resting
<1>2. req' \in [Procs -> GoodReq]
  BY DEF Fail, BaseInv
<1>3. TablesOK'
  BY NoneApart, WorkGen, HostAssumption DEF Fail, BaseInv, TablesOK, TableInv, GenStatus, Resting
<1>4. TableInv'
  BY NoneApart, WorkGen DEF Fail, BaseInv, TablesOK, TableInv, Activatable, GenStatus, Resting
<1> QED
  BY <1>1, <1>2, <1>3, <1>4 DEF BaseInv

LEMMA CleanupBase ==
    ASSUME BaseInv, NEW p \in Procs, Cleanup(p)
    PROVE  BaseInv'
<1>1. work' \in [Procs -> GoodWork]
  BY NoWorkGood DEF Cleanup, BaseInv
<1>2. req' \in [Procs -> GoodReq]
  BY DEF Cleanup, BaseInv
<1>3. TablesOK'
  <2>1. work[p].gen \in Gens
    BY WorkGen DEF Cleanup, Resting
  <2>2. CASE work[p].local
    <3>1. file' \in [Hosts -> [Gens -> BuildFile \cup {None}]]
      BY <2>1, <2>2, SetFileType DEF Cleanup
    <3> QED
      BY <3>1 DEF Cleanup, BaseInv, TablesOK
  <2>3. CASE ~(work[p].local)
    BY <2>3 DEF Cleanup, BaseInv, TablesOK
  <2> QED
    BY <2>2, <2>3
<1>4. TableInv'
  BY NoneApart, WorkGen DEF Cleanup, BaseInv, TablesOK, TableInv, Activatable, SetFile, Resting
<1> QED
  BY <1>1, <1>2, <1>3, <1>4 DEF BaseInv

LEMMA ActivateWriteBase ==
    ASSUME BaseInv, NEW p \in Procs, ActivateWrite(p)
    PROVE  BaseInv'
<1>1. work' \in [Procs -> GoodWork]
  BY DEF ActivateWrite, BaseInv
<1>2. req' \in [Procs -> GoodReq]
  BY NoReqGood DEF ActivateWrite, ReqStep, BaseInv
<1>3. req[p].gen \in Gens
  BY DEF ActivateWrite, BaseInv, GoodReq
<1>4. TablesOK' /\ TableInv'
  BY <1>3, TryDeployTables DEF ActivateWrite
<1> QED
  BY <1>1, <1>2, <1>4 DEF BaseInv

LEMMA RollbackWriteBase ==
    ASSUME BaseInv, NEW p \in Procs, RollbackWrite(p)
    PROVE  BaseInv'
<1>1. work' \in [Procs -> GoodWork]
  BY DEF RollbackWrite, BaseInv
<1>2. req' \in [Procs -> GoodReq]
  BY NoReqGood DEF RollbackWrite, ReqStep, BaseInv
<1>3. req[p].gen \in Gens
  BY DEF RollbackWrite, BaseInv, GoodReq
<1>4. TablesOK' /\ TableInv'
  BY <1>3, TryDeployTables DEF RollbackWrite
<1> QED
  BY <1>1, <1>2, <1>4 DEF BaseInv

LEMMA ActivateRequestBase ==
    ASSUME BaseInv, NEW p \in Procs, NEW g \in Gens, ActivateRequest(p, g)
    PROVE  BaseInv'
<1>1. work' \in [Procs -> GoodWork]
  BY DEF ActivateRequest, BaseInv
<1>2. req' \in [Procs -> GoodReq]
  BY DEF ActivateRequest, ReqStep, BaseInv, GoodReq, ReqState, ReqPcs
<1>3. TablesOK'
  BY NoneApart, HostAssumption DEF ActivateRequest, BaseInv, TablesOK, TableInv
<1>4. TableInv'
  BY NoneApart DEF ActivateRequest, BaseInv, TablesOK, TableInv, Activatable
<1> QED
  BY <1>1, <1>2, <1>3, <1>4 DEF BaseInv

LEMMA RollbackRequestBase ==
    ASSUME BaseInv, NEW p \in Procs, RollbackRequest(p)
    PROVE  BaseInv'
<1>1. work' \in [Procs -> GoodWork]
  BY DEF RollbackRequest, BaseInv
<1>2. req' \in [Procs -> GoodReq]
  BY DEF RollbackRequest, ReqStep, BaseInv, TablesOK, GoodReq, ReqState, ReqPcs
<1>3. TablesOK'
  BY NoneApart, HostAssumption DEF RollbackRequest, BaseInv, TablesOK, TableInv
<1>4. TableInv'
  BY NoneApart DEF RollbackRequest, BaseInv, TablesOK, TableInv, Activatable
<1> QED
  BY <1>1, <1>2, <1>3, <1>4 DEF BaseInv

LEMMA RollbackReadBase ==
    ASSUME BaseInv, NEW p \in Procs, RollbackRead(p)
    PROVE  BaseInv'
<1>1. work' \in [Procs -> GoodWork]
  BY DEF RollbackRead, BaseInv
<1>2. req' \in [Procs -> GoodReq]
  BY NoReqGood DEF RollbackRead, ReqStep, BaseInv, TablesOK, GoodReq, ReqState, ReqPcs
<1>3. TablesOK'
  BY NoneApart, HostAssumption DEF RollbackRead, BaseInv, TablesOK, TableInv
<1>4. TableInv'
  BY NoneApart DEF RollbackRead, BaseInv, TablesOK, TableInv, Activatable
<1> QED
  BY <1>1, <1>2, <1>3, <1>4 DEF BaseInv

LEMMA SearchBase ==
    ASSUME BaseInv, NEW p \in Procs, Search(p)
    PROVE  BaseInv'
<1>1. work' \in [Procs -> GoodWork]
  BY DEF Search, BaseInv
<1>2. req' \in [Procs -> GoodReq]
  BY DEF Search, ReqStep, NoReq, BaseInv, TablesOK, GoodReq, ReqState, ReqPcs
<1>3. TablesOK'
  BY NoneApart, HostAssumption DEF Search, BaseInv, TablesOK, TableInv
<1>4. TableInv'
  BY NoneApart DEF Search, BaseInv, TablesOK, TableInv, Activatable
<1> QED
  BY <1>1, <1>2, <1>3, <1>4 DEF BaseInv

LEMMA OpenSearcherBase ==
    ASSUME BaseInv, NEW p \in Procs, OpenSearcher(p)
    PROVE  BaseInv'
<1>1. work' \in [Procs -> GoodWork]
  BY DEF OpenSearcher, BaseInv
<1>2. req' \in [Procs -> GoodReq]
  BY NoReqGood DEF OpenSearcher, ReqStep, BaseInv
<1>3. TablesOK'
  <2>1. opened' \in [Procs -> [Gens -> Digest \cup {"damaged", None}]]
    <3>1. req[p].gen \in Gens
      BY DEF OpenSearcher, BaseInv, GoodReq
    <3>2. store[req[p].gen] \in Digest \cup {"damaged", None}
      BY <3>1 DEF BaseInv, TablesOK
    <3>3. CASE opened' = opened
      BY <3>3 DEF BaseInv, TablesOK
    <3>4. CASE opened' = [opened EXCEPT ![p][req[p].gen] = store[req[p].gen]]
      BY <3>1, <3>2, <3>4 DEF BaseInv, TablesOK
    <3> QED
      BY <3>3, <3>4 DEF OpenSearcher
  <2> QED
    BY <2>1 DEF OpenSearcher, BaseInv, TablesOK
<1>4. TableInv'
  BY NoneApart DEF OpenSearcher, BaseInv, TablesOK, TableInv, Activatable
<1> QED
  BY <1>1, <1>2, <1>3, <1>4 DEF BaseInv

LEMMA CrashBase ==
    ASSUME BaseInv, NEW p \in Procs, Crash(p)
    PROVE  BaseInv'
<1>1. work' \in [Procs -> GoodWork]
  BY NoWorkGood DEF Crash, BaseInv
<1>2. req' \in [Procs -> GoodReq]
  BY NoReqGood DEF Crash, BaseInv
<1>3. TablesOK'
  BY NoneApart, HostAssumption DEF Crash, BaseInv, TablesOK, TableInv, Digest
<1>4. TableInv'
  BY NoneApart DEF Crash, BaseInv, TablesOK, TableInv, Activatable, Digest
<1> QED
  BY <1>1, <1>2, <1>3, <1>4 DEF BaseInv

\* The base layer is inductive by itself.
LEMMA BaseNext ==
    ASSUME BaseInv, [Next]_vars
    PROVE  BaseInv'
<1>1. CASE UNCHANGED vars
  BY <1>1 DEF vars, BaseInv, TablesOK, TableInv, Activatable
<1>2. ASSUME NEW p \in Procs, Work(p) PROVE BaseInv'
  BY <1>2, ClaimBase, StartBuildBase, FinishBuildBase, BuildFailsBase,
     DigestFileBase, CopyFileBase, MarkReadyBase, VerifyBase, AutoActivateBase,
     WorkFailsBase, FailBase, CleanupBase
     DEF Work
<1>3. ASSUME NEW p \in Procs, Request(p) PROVE BaseInv'
  BY <1>3, ActivateRequestBase, ActivateWriteBase, RollbackRequestBase,
     RollbackReadBase, RollbackWriteBase, SearchBase, OpenSearcherBase
     DEF Request
<1>4. ASSUME NEW p \in Procs, ClaimFails(p) \/ Heartbeat(p) \/ Crash(p) PROVE BaseInv'
  BY <1>4, ClaimFailsBase, HeartbeatBase, CrashBase
<1>5. ASSUME NEW g \in Gens, Create(g) \/ Expire(g) \/ Damage(g) PROVE BaseInv'
  BY <1>5, CreateBase, ExpireBase, DamageBase
<1> QED
  BY <1>1, <1>2, <1>3, <1>4, <1>5, TrafficAssumption DEF Next

-----------------------------------------------------------------------------
(* The lease layer *)

\* A step that leaves the queue columns alone, in which no worker takes up a
\* generation.
LEMMA LeaseQuiet ==
    ASSUME LeaseInv, UNCHANGED <<status, holder, lease>>,
           \A q \in Procs : work'[q].gen \in {work[q].gen, None}
    PROVE  LeaseInv'
BY DEF LeaseInv, OneBuilder, LeaseFacts

\* The worker p moves to another program point of its build, or rests.
LEMMA LeaseMove ==
    ASSUME BaseInv, LeaseInv, NEW p \in Procs,
           UNCHANGED <<status, holder, lease>>,
           \/ work' = work
           \/ work' = [work EXCEPT ![p] = NoWork]
           \/ \E pc \in WorkPcs : Step(p, pc) \/ Forget(p, pc)
    PROVE  LeaseInv'
<1>1. \A q \in Procs : work[q] \in WorkState
  BY DEF BaseInv, GoodWork
<1>2. ASSUME NEW q \in Procs PROVE work'[q].gen \in {work[q].gen, None}
  <2>1. CASE work' = work
    BY <2>1
  <2>2. CASE work' = [work EXCEPT ![p] = NoWork]
    BY <2>2 DEF BaseInv, NoWork
  <2>3. ASSUME NEW pc \in WorkPcs, Step(p, pc) PROVE work'[q].gen = work[q].gen
    BY <1>1, <2>3 DEF Step, BaseInv, WorkState
  <2>4. ASSUME NEW pc \in WorkPcs, Forget(p, pc) PROVE work'[q].gen = work[q].gen
    BY <1>1, <2>4 DEF Forget, BaseInv, WorkState
  <2> QED
    BY <2>1, <2>2, <2>3, <2>4
<1> QED
  BY <1>2, LeaseQuiet

\* The worker of g ends the build: the row leaves the queue for good.
LEMMA LeaseEnd ==
    ASSUME BaseInv, LeaseInv, NEW p \in Procs, NEW g \in Gens,
           NEW s \in {"ready", "failed"}, NEW pc \in WorkPcs,
           g = work[p].gen, Step(p, pc) \/ Forget(p, pc),
           status' = [status EXCEPT ![g] = s],
           holder' = [holder EXCEPT ![g] = None],
           lease' = [lease EXCEPT ![g] = None]
    PROVE  LeaseInv'
<1>1. ASSUME NEW q \in Procs PROVE work'[q].gen = work[q].gen
  <2>1. \A r \in Procs : work[r] \in WorkState
    BY DEF BaseInv, GoodWork
  <2>2. CASE Step(p, pc)
    BY <2>1, <2>2 DEF BaseInv, WorkState, Step
  <2>3. CASE Forget(p, pc)
    BY <2>1, <2>3 DEF BaseInv, WorkState, Forget
  <2> QED
    BY <2>2, <2>3
<1>2. ASSUME NEW q \in Procs PROVE LeaseFacts(q)'
  <2>1. work[q].gen \in Gens \cup {None}
    BY DEF BaseInv, GoodWork, WorkState
  <2>2. LeaseFacts(q)
    BY DEF LeaseInv
  <2>3. CASE work[q].gen = g
    BY <1>1, <2>3 DEF BaseInv, TablesOK, LeaseFacts
  <2>4. CASE work[q].gen # g
    BY <1>1, <2>1, <2>2, <2>4 DEF BaseInv, TablesOK, LeaseFacts
  <2> QED
    BY <2>3, <2>4
<1> QED
  BY <1>1, <1>2 DEF LeaseInv, OneBuilder

\* A flip touches only generations that are out of the queue.
LEMMA LeaseDeploy ==
    ASSUME BaseInv, LeaseInv, NEW g \in Gens, TryDeploy(g),
           UNCHANGED <<holder, lease>>,
           \A q \in Procs : work'[q].gen = work[q].gen
    PROVE  LeaseInv'
<1>1. ASSUME NEW k \in Gens, status'[k] # status[k]
      PROVE  status[k] # "building" /\ status'[k] \in {"active", "retired"}
  <2>1. Activatable(g) /\ Deploy(g)
    BY <1>1 DEF TryDeploy
  <2>2. k = g \/ k = pointer.gen
    BY <1>1, <2>1 DEF Deploy
  <2>3. status'[k] \in {"active", "retired"}
    BY <2>1, <2>2 DEF Deploy
  <2>4. status[k] # "building"
    BY <2>1, <2>2, NoneApart DEF Activatable, BaseInv, TableInv
  <2> QED
    BY <2>3, <2>4
<1>2. ASSUME NEW q \in Procs PROVE LeaseFacts(q)'
  <2>1. work[q].gen \in Gens \cup {None}
    BY DEF BaseInv, GoodWork, WorkState
  <2>2. LeaseFacts(q)
    BY DEF LeaseInv
  <2> QED
    BY <1>1, <2>1, <2>2 DEF LeaseFacts
<1> QED
  BY <1>2 DEF LeaseInv, OneBuilder

LEMMA LeaseClaim ==
    ASSUME BaseInv, LeaseInv, NEW p \in Procs, Claim(p)
    PROVE  LeaseInv'
<1>1. PICK g \in Gens :
          /\ Claimable(g)
          /\ status' = [status EXCEPT ![g] = "building"]
          /\ holder' = [holder EXCEPT ![g] = p]
          /\ lease' = [lease EXCEPT ![g] = "live"]
          /\ work' = [work EXCEPT ![p] = [NoWork EXCEPT !.pc = "claimed", !.gen = g]]
  BY DEF Claim
<1>2. \A q \in Procs : work[q].gen # g
  BY <1>1, NoneApart DEF LeaseInv, LeaseFacts, Claimable
<1>3. work'[p].gen = g /\ \A q \in Procs \ {p} : work'[q] = work[q]
  BY <1>1 DEF BaseInv, NoWork
<1>4. ASSUME NEW q \in Procs PROVE LeaseFacts(q)'
  BY <1>1, <1>2, <1>3 DEF BaseInv, TablesOK, LeaseInv, LeaseFacts
<1>5. OneBuilder'
  BY <1>2, <1>3 DEF LeaseInv, OneBuilder
<1> QED
  BY <1>4, <1>5 DEF LeaseInv

LEMMA LeaseNext ==
    ASSUME BaseInv, PromptWorkers, LeaseInv, [Next]_vars
    PROVE  LeaseInv'
<1>1. CASE UNCHANGED vars
  BY <1>1 DEF vars, LeaseInv, OneBuilder, LeaseFacts
<1>2. ASSUME NEW p \in Procs, Work(p) PROVE LeaseInv'
  <2>1. CASE Claim(p)
    BY <2>1, LeaseClaim
  <2>2. CASE StartBuild(p) \/ FinishBuild(p) \/ BuildFails(p) \/ CopyFile(p)
             \/ Verify(p) \/ WorkFails(p) \/ Cleanup(p)
    BY <2>2, LeaseMove
       DEF StartBuild, FinishBuild, BuildFails, CopyFile, Verify, WorkFails,
           Cleanup, Step, WorkPcs
  <2>3. CASE DigestFile(p)
    <3>1. \A q \in Procs : work[q] \in WorkState
      BY DEF BaseInv, GoodWork
    <3>2. \A q \in Procs : work'[q].gen = work[q].gen
      BY <2>3, <3>1 DEF DigestFile, BaseInv, WorkState
    <3> QED
      BY <2>3, <3>2, LeaseQuiet DEF DigestFile
  <2>4. CASE MarkReady(p) \/ Fail(p)
    BY <2>4, WorkGen, LeaseEnd DEF MarkReady, Fail, WorkPcs, Resting
  <2>5. CASE AutoActivate(p)
    <3>1. \A q \in Procs : work'[q].gen = work[q].gen
      BY <2>5 DEF AutoActivate, Step, BaseInv, GoodWork, WorkState
    <3> QED
      BY <2>5, <3>1, WorkGen, LeaseDeploy DEF AutoActivate, Resting
  <2> QED
    BY <1>2, <2>1, <2>2, <2>3, <2>4, <2>5 DEF Work
<1>3. ASSUME NEW p \in Procs, Request(p) PROVE LeaseInv'
  <2>1. CASE ActivateWrite(p) \/ RollbackWrite(p)
    BY <2>1, LeaseDeploy DEF ActivateWrite, RollbackWrite, BaseInv, GoodReq
  <2>2. CASE ~(ActivateWrite(p) \/ RollbackWrite(p))
    <3>1. UNCHANGED <<status, holder, lease, work>>
      BY <1>3, <2>2
         DEF Request, ActivateRequest, RollbackRequest, RollbackRead, Search, OpenSearcher
    <3> QED
      BY <3>1, LeaseQuiet
  <2> QED
    BY <2>1, <2>2
<1>4. ASSUME NEW p \in Procs, Heartbeat(p) PROVE LeaseInv'
  BY <1>4 DEF Heartbeat, BaseInv, TablesOK, LeaseInv, OneBuilder, LeaseFacts
<1>5. ASSUME NEW p \in Procs, ClaimFails(p) \/ Crash(p) PROVE LeaseInv'
  BY <1>5, LeaseMove DEF ClaimFails, Crash, WorkPcs
<1>6. ASSUME NEW g \in Gens, Create(g) PROVE LeaseInv'
  BY <1>6 DEF Create, BaseInv, TablesOK, LeaseInv, OneBuilder, LeaseFacts
<1>7. ASSUME NEW g \in Gens, Expire(g) PROVE LeaseInv'
  BY <1>7, NoneApart
     DEF Expire, PromptWorkers, BaseInv, TablesOK, LeaseInv, OneBuilder, LeaseFacts
<1>8. ASSUME NEW g \in Gens, Damage(g) PROVE LeaseInv'
  BY <1>8, LeaseQuiet DEF Damage
<1> QED
  BY <1>1, <1>2, <1>3, <1>4, <1>5, <1>6, <1>7, <1>8, TrafficAssumption DEF Next

-----------------------------------------------------------------------------
(* The file layer *)

LEMMA SeparatedAlone ==
    ASSUME Separated, PromptWorkers => LeaseInv
    PROVE  FileAlone
BY DEF Separated, FileAlone, LeaseInv, OneBuilder

\* Artifacts and files stay, and workers move only to points at which they
\* need to know no more.
LEMMA FileQuiet ==
    ASSUME FileInv, UNCHANGED <<artifact, file>>,
           \A q \in Procs : work'[q] = work[q]
                          \/ work'[q].pc \notin {"building", "digest", "copy", "ready"}
    PROVE  FileInv'
BY DEF FileInv, FileFacts, FileOf

\* A step of worker p touches no file of another worker, so that only its own
\* facts remain to be shown.
LEMMA FileStep ==
    ASSUME BaseInv, FileAlone, FileInv, NEW p \in Procs,
           work[p].pc \notin Resting,
           \A q \in Procs \ {p} : work'[q] = work[q],
           \/ file' = file
           \/ \E f \in BuildFile \cup {None} : SetFile(p, work[p].gen, f),
           UNCHANGED artifact,
           FileFacts(p)'
    PROVE  FileInv'
<1>1. work[p].gen \in Gens
  BY WorkGen
<1>2. ASSUME NEW q \in Procs, q # p, work[q].pc \notin Resting
      PROVE  FileOf(q, work[q].gen)' = FileOf(q, work[q].gen)
  <2>1. work[q].gen \in Gens /\ work'[q] = work[q]
    BY <1>2, WorkGen
  <2>2. HostOf[q] # HostOf[p] \/ work[q].gen # work[p].gen
    BY <1>1, <1>2, NoneApart DEF FileAlone
  <2> QED
    BY <1>1, <2>1, <2>2, HostAssumption DEF FileOf, SetFile, BaseInv, TablesOK
<1>3. ASSUME NEW q \in Procs, q # p PROVE FileFacts(q)'
  BY <1>2, <1>3 DEF FileInv, FileFacts, Resting
<1> QED
  BY <1>3 DEF FileInv

LEMMA FileNext ==
    ASSUME BaseInv, FileAlone, FileInv, [Next]_vars
    PROVE  FileInv'
<1>0. \A q \in Procs : work[q] \in WorkState
  BY DEF BaseInv, GoodWork
<1>1. CASE UNCHANGED vars
  BY <1>1, FileQuiet DEF vars
<1>2. ASSUME NEW p \in Procs, Work(p) PROVE FileInv'
  <2> DEFINE g == work[p].gen
             f == FileOf(p, g)
  <2>1. CASE Claim(p)
    <3>1. \A q \in Procs : work'[q] = work[q] \/ work'[q].pc = "claimed"
      BY <2>1, <1>0 DEF Claim, NoWork, BaseInv
    <3> QED
      BY <2>1, <3>1, FileQuiet DEF Claim
  <2>2. CASE StartBuild(p)
    <3>1. [owner |-> p, content |-> "partial"] \in BuildFile
      BY DEF BuildFile, Digest
    <3>2. g \in Gens
      BY <2>2, WorkGen DEF StartBuild, Resting
    <3>4. work'[p].pc = "building" /\ work'[p].gen = g
      BY <1>0, <2>2 DEF StartBuild, Step, BaseInv, WorkState
    <3>5. file'[HostOf[p]][g] = [owner |-> p, content |-> "partial"]
      BY <2>2, <3>2, HostAssumption DEF StartBuild, SetFile, FileOf, BaseInv, TablesOK
    <3>6. file'[HostOf[p]][g] # None
      BY <3>1, <3>5, NoneApart
    <3>3. FileFacts(p)'
      BY <3>4, <3>5, <3>6 DEF FileFacts, FileOf
    <3> QED
      BY <2>2, <3>1, <3>3, FileStep DEF StartBuild, Step, Resting, BaseInv
  <2>3. CASE FinishBuild(p)
    <3>1. g \in Gens
      BY <2>3, WorkGen DEF FinishBuild, Resting
    <3>2. f \in BuildFile /\ f.owner = p
      BY <2>3, <3>1, FileOfType DEF FinishBuild, FileInv, FileFacts
    <3>3. [f EXCEPT !.content = "complete"] \in BuildFile
      BY <3>2 DEF BuildFile, Digest
    <3>4. SetFile(p, g, [f EXCEPT !.content = "complete"])
      BY <2>3, <3>2, NoneApart DEF FinishBuild, FileInv, FileFacts
    <3>5. work'[p].pc = "digest" /\ work'[p].gen = g
      BY <1>0, <2>3 DEF FinishBuild, BaseInv, WorkState
    <3>6. FileFacts(p)'
      BY <3>1, <3>2, <3>4, <3>5, HostAssumption
         DEF SetFile, FileFacts, FileOf, BaseInv, TablesOK, BuildFile
    <3> QED
      BY <2>3, <3>3, <3>4, <3>6, FileStep DEF FinishBuild, Resting, BaseInv
  <2>4. CASE BuildFails(p) \/ Cleanup(p)
    <3>1. work'[p].pc \in {"fail", "idle"}
      BY <1>0, <2>4 DEF BuildFails, Cleanup, Step, NoWork, BaseInv, WorkState
    <3>2. FileFacts(p)'
      BY <3>1 DEF FileFacts
    <3> QED
      BY <2>4, <3>2, FileStep DEF BuildFails, Cleanup, Step, Resting, BaseInv
  <2>5. CASE DigestFile(p)
    <3>1. work'[p].gen = g /\ (f = None => work'[p].pc = "fail")
      BY <1>0, <2>5 DEF DigestFile, BaseInv, WorkState
    <3>2. f # None => work'[p].pc = "copy" /\ work'[p].sum = f.content
      BY <1>0, <2>5 DEF DigestFile, BaseInv, WorkState
    <3>3. FileFacts(p)'
      BY <2>5, <3>1, <3>2 DEF DigestFile, FileInv, FileFacts, FileOf
    <3> QED
      BY <2>5, <3>3, FileStep DEF DigestFile, Resting, BaseInv
  <2>6. CASE CopyFile(p)
    <3>1. work'[p].pc \in {"fail", "ready"} /\ work'[p].sum = work[p].sum
      BY <1>0, <2>6 DEF CopyFile, Step, BaseInv, WorkState
    <3>2. FileFacts(p)'
      BY <2>6, <3>1 DEF CopyFile, FileInv, FileFacts
    <3> QED
      BY <2>6, <3>2, FileStep DEF CopyFile, Step, Resting, BaseInv
  <2>7. CASE MarkReady(p)
    <3>1. artifact' = [artifact EXCEPT ![g] = "complete"]
      BY <2>7 DEF MarkReady, FileInv, FileFacts
    <3>2. \A q \in Procs : \/ work'[q] = work[q]
                          \/ work'[q].pc \in {"verify", "cleanup"}
      <4>1. CASE Step(p, "verify")
        BY <1>0, <4>1 DEF Step, BaseInv, WorkState
      <4>2. CASE Forget(p, "cleanup")
        BY <1>0, <4>2 DEF Forget, BaseInv, WorkState
      <4> QED
        BY <2>7, <4>1, <4>2 DEF MarkReady
    <3>3. ASSUME NEW q \in Procs PROVE FileFacts(q)'
      BY <2>7, <3>2 DEF MarkReady, FileInv, FileFacts, FileOf
    <3>4. \A k \in Gens : artifact'[k] # "partial"
      BY <3>1 DEF FileInv, BaseInv, TablesOK
    <3> QED
      BY <3>3, <3>4 DEF FileInv
  <2>8. CASE Verify(p) \/ AutoActivate(p) \/ WorkFails(p) \/ Fail(p)
    <3>1. \A q \in Procs : \/ work'[q] = work[q]
                          \/ work'[q].pc \in {"activate", "cleanup", "fail"}
      <4>1. ASSUME NEW pc \in WorkPcs, Step(p, pc) \/ Forget(p, pc), NEW q \in Procs
            PROVE  work'[q] = work[q] \/ work'[q].pc = pc
        BY <1>0, <4>1 DEF Step, Forget, BaseInv, WorkState
      <4>2. \E pc \in {"activate", "cleanup", "fail"} : Step(p, pc) \/ Forget(p, pc)
        BY <2>8 DEF Verify, AutoActivate, WorkFails, Fail
      <4> QED
        BY <4>1, <4>2 DEF WorkPcs
    <3> QED
      BY <2>8, <3>1, FileQuiet DEF Verify, AutoActivate, WorkFails, Fail
  <2> QED
    BY <1>2, <2>1, <2>2, <2>3, <2>4, <2>5, <2>6, <2>7, <2>8 DEF Work
<1>3. ASSUME NEW p \in Procs, Request(p) PROVE FileInv'
  <2>1. UNCHANGED <<artifact, file, work>>
    BY <1>3 DEF Request, ActivateRequest, ActivateWrite, RollbackRequest,
       RollbackRead, RollbackWrite, Search, OpenSearcher
  <2> QED
    BY <2>1, FileQuiet
<1>4. ASSUME NEW p \in Procs, ClaimFails(p) \/ Heartbeat(p) \/ Crash(p) PROVE FileInv'
  <2>1. \A q \in Procs : work'[q] = work[q] \/ work'[q].pc \in Resting
    BY <1>0, <1>4 DEF ClaimFails, Heartbeat, Crash, Step, NoWork, Resting, BaseInv, WorkState
  <2> QED
    BY <1>4, <2>1, FileQuiet DEF ClaimFails, Heartbeat, Crash, Resting
<1>5. ASSUME NEW g \in Gens, Create(g) \/ Expire(g) \/ Damage(g) PROVE FileInv'
  BY <1>5, FileQuiet DEF Create, Expire, Damage
<1> QED
  BY <1>1, <1>2, <1>3, <1>4, <1>5, TrafficAssumption DEF Next

-----------------------------------------------------------------------------
(* Theorems *)

LEMMA InitInv == Init => IInv
<1> SUFFICES ASSUME Init PROVE IInv
  OBVIOUS
<1>1. BaseInv
  BY InitBase
<1>2. LeaseInv
  BY DEF Init, NoWork, LeaseInv, LeaseFacts, OneBuilder
<1>3. FileInv
  BY NoneApart DEF Init, NoWork, FileInv, FileFacts
<1> QED
  BY <1>1, <1>2, <1>3 DEF IInv

LEMMA NextInv == IInv /\ [Next]_vars => IInv'
<1> SUFFICES ASSUME IInv, [Next]_vars PROVE IInv'
  OBVIOUS
<1>1. BaseInv'
  BY BaseNext DEF IInv
<1>2. PromptWorkers => LeaseInv'
  BY LeaseNext DEF IInv
<1>3. Separated => FileInv'
  BY SeparatedAlone, FileNext DEF IInv
<1> QED
  BY <1>1, <1>2, <1>3 DEF IInv, PromptWorkers, Separated

\* The invariant holds in every reachable state, whatever fails.
THEOREM Invariant == Spec => []IInv
BY InitInv, NextInv, PTL DEF Spec

\* Type correctness; with it, that a row has a holder and a lease exactly while
\* it is being built, although mark_ready and fail check neither.
THEOREM TypeCorrect == Spec => []TypeOK
<1>1. IInv => TypeOK
  BY BaseType DEF IInv
<1> QED
  BY <1>1, Invariant, PTL

\* Leases exclude two workers on one generation, if they only run out for
\* workers that are gone, for any number of workers and crashes.
THEOREM LeasesExclude ==
    ASSUME PromptWorkers
    PROVE  Spec => []OneBuilder
<1>1. IInv => OneBuilder
  BY DEF IInv, LeaseInv
<1> QED
  BY <1>1, Invariant, PTL

\* The pointer never names a generation whose index was incomplete, if either
\* no live worker loses its lease or no two processes share a build directory.
THEOREM NeverExposedPartial ==
    ASSUME Separated
    PROVE  Spec => []ActiveComplete
<1>1. IInv => ActiveComplete
  BY NoneApart DEF IInv, BaseInv, TablesOK, TableInv, FileInv, ActiveComplete, Digest
<1> QED
  BY <1>1, Invariant, PTL

-----------------------------------------------------------------------------
(* The catalog implements the blue/green switch *)

LEMMA CatalogInit == Init => Catalog!Init
BY NoneApart DEF Init, Catalog!Init

\* A flip goes to a finished generation, or does nothing.
LEMMA DeploySwitches ==
    ASSUME BaseInv, FileInv, NEW g \in Gens, TryDeploy(g), UNCHANGED artifact
    PROVE  Catalog!Next \/ UNCHANGED Catalog!vars
<1>1. CASE Activatable(g)
  <2>1. artifact[g] = "complete"
    BY <1>1 DEF BaseInv, TablesOK, TableInv, FileInv, Digest
  <2>2. pointer'.gen = g
    BY <1>1 DEF TryDeploy, Deploy
  <2>3. Catalog!Switch(g)
    BY <2>1, <2>2 DEF Catalog!Switch
  <2> QED
    BY <2>3 DEF Catalog!Next
<1>2. CASE ~Activatable(g)
  BY <1>2 DEF TryDeploy, Catalog!vars
<1> QED
  BY <1>1, <1>2

LEMMA CatalogStep ==
    ASSUME Separated, IInv, [Next]_vars
    PROVE  [Catalog!Next]_(Catalog!vars)
<1>1. BaseInv /\ FileInv
  BY DEF IInv
<1>2. CASE UNCHANGED <<pointer, artifact>>
  BY <1>2 DEF Catalog!vars
<1>3. ASSUME NEW p \in Procs, MarkReady(p) PROVE Catalog!Next
  <2>1. PICK g \in Gens : g = work[p].gen
    BY <1>1, <1>3, WorkGen DEF MarkReady, Resting
  <2>2. artifact' = [artifact EXCEPT ![g] = "complete"]
    BY <1>1, <1>3, <2>1 DEF MarkReady, FileInv, FileFacts
  <2>3. {k \in Gens : artifact'[k] = "complete"} = {k \in Gens : artifact[k] = "complete"} \cup {g}
    BY <1>1, <2>1, <2>2 DEF BaseInv, TablesOK
  <2>4. Catalog!Finish(g)
    BY <1>3, <2>3 DEF MarkReady, Catalog!Finish
  <2> QED
    BY <2>4 DEF Catalog!Next
<1>4. ASSUME NEW p \in Procs, AutoActivate(p) PROVE Catalog!Next \/ UNCHANGED Catalog!vars
  BY <1>1, <1>4, WorkGen, DeploySwitches DEF AutoActivate, Resting
<1>5. ASSUME NEW p \in Procs, ActivateWrite(p) \/ RollbackWrite(p)
      PROVE  Catalog!Next \/ UNCHANGED Catalog!vars
  <2>1. req[p].gen \in Gens
    BY <1>1, <1>5 DEF ActivateWrite, RollbackWrite, BaseInv, GoodReq
  <2> QED
    BY <1>1, <1>5, <2>1, DeploySwitches DEF ActivateWrite, RollbackWrite
<1>6. \/ UNCHANGED <<pointer, artifact>>
      \/ \E p \in Procs : \/ MarkReady(p) \/ AutoActivate(p)
                         \/ ActivateWrite(p) \/ RollbackWrite(p)
  <2>1. CASE UNCHANGED vars
    BY <2>1 DEF vars
  <2>2. ASSUME NEW p \in Procs, Work(p), ~MarkReady(p), ~AutoActivate(p)
        PROVE  UNCHANGED <<pointer, artifact>>
    BY <2>2 DEF Work, Claim, StartBuild, FinishBuild, BuildFails, DigestFile,
       CopyFile, Verify, WorkFails, Fail, Cleanup
  <2>3. ASSUME NEW p \in Procs, Request(p), ~ActivateWrite(p), ~RollbackWrite(p)
        PROVE  UNCHANGED <<pointer, artifact>>
    BY <2>3 DEF Request, ActivateRequest, RollbackRequest, RollbackRead, Search, OpenSearcher
  <2>4. ASSUME NEW p \in Procs, ClaimFails(p) \/ Heartbeat(p) \/ Crash(p)
        PROVE  UNCHANGED <<pointer, artifact>>
    BY <2>4 DEF ClaimFails, Heartbeat, Crash
  <2>5. ASSUME NEW g \in Gens, Create(g) \/ Expire(g) \/ Damage(g)
        PROVE  UNCHANGED <<pointer, artifact>>
    BY <2>5 DEF Create, Expire, Damage
  <2> QED
    BY <2>1, <2>2, <2>3, <2>4, <2>5, TrafficAssumption DEF Next
<1> QED
  BY <1>2, <1>3, <1>4, <1>5, <1>6

\* The catalog implements the blue/green switch under the same condition.
THEOREM CatalogImplements ==
    ASSUME Separated
    PROVE  Spec => ImplementsBlueGreen
<1>1. Init => Catalog!Init
  BY CatalogInit
<1>2. IInv /\ [Next]_vars => [Catalog!Next]_(Catalog!vars)
  BY CatalogStep
<1> QED
  BY <1>1, <1>2, Invariant, PTL DEF Spec, ImplementsBlueGreen, Catalog!Spec

-----------------------------------------------------------------------------
(* Pointer and statuses, and what searchers hold *)

\* Leases last, and neither the storage nor the database fails.
Calm == Faults \cap {"slow", "io", "damage"} = {}

\* A worker that may still mark its generation ready or failed has its row for
\* itself; after mark_ready nothing can go wrong with it.
CalmFacts(p) ==
    LET g == work[p].gen
    IN  /\ work[p].pc \in {"claimed", "building", "digest", "copy", "ready", "fail"}
              => status[g] = "building"
        /\ work[p].pc \in {"ready", "verify"} => store[g] = work[p].sum
        /\ work[p].pc \in {"verify", "activate"} => Activatable(g)

CalmInv == PointerStatus /\ \A p \in Procs : CalmFacts(p)

\* The other workers are about other generations, whose rows and objects stay.
LEMMA CalmWork ==
    ASSUME BaseInv, OneBuilder, CalmInv, NEW p \in Procs, work[p].gen \in Gens,
           \A q \in Procs \ {p} : work'[q] = work[q],
           \A g \in Gens \ {work[p].gen} : /\ store'[g] = store[g]
                                           /\ status[g] = "building" => status'[g] = "building"
                                           /\ Activatable(g) => Activatable(g)',
           CalmFacts(p)', PointerStatus'
    PROVE  CalmInv'
<1>1. ASSUME NEW q \in Procs, q # p PROVE CalmFacts(q)'
  <2>1. work[q].gen = None \/ (work[q].gen \in Gens \ {work[p].gen})
    BY <1>1 DEF OneBuilder, BaseInv, GoodWork, WorkState
  <2>2. work[q].gen = None => work[q].pc \in Resting
    BY DEF BaseInv, GoodWork
  <2> QED
    BY <1>1, <2>1, <2>2 DEF CalmInv, CalmFacts, Resting
<1> QED
  BY <1>1 DEF CalmInv

\* A flip leaves rows that are being built alone, and keeps the others
\* activatable.
LEMMA CalmDeploy ==
    ASSUME BaseInv, CalmInv, NEW g \in Gens, TryDeploy(g)
    PROVE  /\ PointerStatus'
           /\ \A k \in Gens : /\ status[k] = "building" => status'[k] = "building"
                              /\ Activatable(k) => Activatable(k)'
<1>1. CASE Activatable(g)
  <2>1. /\ status' = [s \in Gens |-> IF s = g THEN "active"
                                     ELSE IF s = pointer.gen THEN "retired" ELSE status[s]]
        /\ pointer' = [gen |-> g, prev |-> pointer.gen]
    BY <1>1 DEF TryDeploy, Deploy
  <2>2. PointerStatus'
    BY <2>1 DEF CalmInv, PointerStatus
  <2>3. ASSUME NEW k \in Gens, status[k] = "building" PROVE status'[k] = "building"
    BY <1>1, <2>1, <2>3 DEF CalmInv, PointerStatus, Activatable
  <2>4. ASSUME NEW k \in Gens, Activatable(k) PROVE Activatable(k)'
    BY <2>1, <2>4 DEF Activatable
  <2> QED
    BY <2>2, <2>3, <2>4
<1>2. CASE ~ Activatable(g)
  BY <1>2 DEF TryDeploy, CalmInv, PointerStatus, Activatable
<1> QED
  BY <1>1, <1>2

\* Steps that touch neither rows nor objects, and move no worker into the
\* middle of its work.
LEMMA CalmQuiet ==
    ASSUME CalmInv, UNCHANGED <<status, pointer, store>>,
           \A q \in Procs : work'[q] = work[q] \/ work'[q].pc \in Resting
    PROVE  CalmInv'
BY DEF CalmInv, PointerStatus, CalmFacts, Activatable, Resting

LEMMA CalmStep ==
    ASSUME Calm, IInv, CalmInv, NEW p \in Procs, Work(p)
    PROVE  CalmInv'
<1>0. /\ BaseInv /\ OneBuilder /\ FileInv
      /\ "io" \notin Faults
  BY DEF Calm, IInv, PromptWorkers, Separated, LeaseInv
<1>1. CASE Claim(p)
  <2>1. PICK g \in Gens :
          /\ Claimable(g)
          /\ status' = [status EXCEPT ![g] = "building"]
          /\ work' = [work EXCEPT ![p] = [NoWork EXCEPT !.pc = "claimed", !.gen = g]]
    BY <1>1 DEF Claim
  <2>2. UNCHANGED <<pointer, store>>
    BY <1>1 DEF Claim
  <2>3. status[g] # "active" /\ ~ Activatable(g)
    BY <2>1 DEF Claimable, Activatable
  <2>4. PointerStatus'
    BY <1>0, <2>1, <2>2, <2>3 DEF CalmInv, PointerStatus, BaseInv, TablesOK
  <2>5. work'[p].pc = "claimed" /\ work'[p].gen = g /\ status'[g] = "building"
    BY <1>0, <2>1 DEF BaseInv, TablesOK, WorkState, NoWork
  <2>6. ASSUME NEW q \in Procs PROVE CalmFacts(q)'
    <3>1. CASE q = p
      BY <2>5, <3>1 DEF CalmFacts
    <3>2. CASE q # p
      <4>1. work'[q] = work[q] /\ CalmFacts(q)
        BY <1>0, <2>1, <3>2 DEF BaseInv, CalmInv
      <4>2. \A k \in Gens : /\ status[k] = "building" => status'[k] = "building"
                            /\ Activatable(k) => Activatable(k)'
        BY <1>0, <2>1, <2>3 DEF BaseInv, TablesOK, Activatable
      <4>3. work[q].pc \notin Resting => work[q].gen \in Gens
        BY <1>0, WorkGen
      <4> QED
        BY <2>2, <4>1, <4>2, <4>3 DEF CalmFacts, Resting
    <3> QED
      BY <3>1, <3>2
  <2> QED
    BY <2>4, <2>6 DEF CalmInv
<1>2. CASE ~ Claim(p)
  <2>0. /\ work[p].pc \notin Resting /\ work[p].gen \in Gens
        /\ \A q \in Procs \ {p} : work'[q] = work[q]
        /\ work'[p].gen \in {work[p].gen, None}
    <3>1. work[p].pc \notin Resting
      BY <1>2 DEF Work, StartBuild, FinishBuild, BuildFails, DigestFile, CopyFile, MarkReady,
         Verify, AutoActivate, WorkFails, Fail, Cleanup, Resting
    <3>2. work[p] \in WorkState /\ work \in [Procs -> WorkState]
      BY <1>0 DEF BaseInv, GoodWork
    <3>3. \A q \in Procs \ {p} : work'[q] = work[q]
      BY <1>2, <3>2 DEF Work, StartBuild, FinishBuild, BuildFails, DigestFile, CopyFile,
         MarkReady, Verify, AutoActivate, WorkFails, Fail, Cleanup, Step, Forget
    <3>4. work'[p].gen \in {work[p].gen, None}
      <4>1. \A pc \in WorkPcs : Step(p, pc) \/ Forget(p, pc) => work'[p].gen = work[p].gen
        BY <3>2 DEF Step, Forget, WorkState
      <4>2. DigestFile(p) \/ FinishBuild(p) => work'[p].gen = work[p].gen
        BY <3>2 DEF DigestFile, FinishBuild, WorkState
      <4>3. Cleanup(p) => work'[p].gen = None
        BY <3>2 DEF Cleanup, NoWork
      <4> QED
        BY <1>2, <4>1, <4>2, <4>3 DEF Work, StartBuild, BuildFails, CopyFile,
           MarkReady, Verify, AutoActivate, WorkFails, Fail, WorkPcs
    <3> QED
      BY <1>0, <3>1, <3>3, <3>4, WorkGen
  <2> DEFINE g == work[p].gen
  <2>1. work[p] \in WorkState /\ work \in [Procs -> WorkState] /\ CalmFacts(p)
    BY <1>0 DEF BaseInv, GoodWork, CalmInv
  <2>2. CASE StartBuild(p) \/ FinishBuild(p) \/ BuildFails(p) \/ DigestFile(p)
    <3>1. UNCHANGED <<status, pointer, store>>
      BY <2>2 DEF StartBuild, FinishBuild, BuildFails, DigestFile
    <3>2. work'[p].gen = g /\ work'[p].pc \in {"building", "digest", "fail", "copy"}
      <4>1. CASE StartBuild(p)
        BY <2>1, <4>1 DEF StartBuild, Step, WorkState
      <4>2. CASE FinishBuild(p)
        BY <2>1, <4>2 DEF FinishBuild, WorkState
      <4>3. CASE BuildFails(p)
        BY <2>1, <4>3 DEF BuildFails, Step, WorkState
      <4>4. CASE DigestFile(p)
        BY <2>1, <4>4 DEF DigestFile, WorkState
      <4> QED
        BY <2>2, <4>1, <4>2, <4>3, <4>4
    <3>3. status[g] = "building"
      BY <2>1, <2>2 DEF StartBuild, FinishBuild, BuildFails, DigestFile, CalmFacts
    <3>4. CalmFacts(p)'
      BY <3>1, <3>2, <3>3 DEF CalmFacts
    <3>5. PointerStatus'
      BY <3>1 DEF CalmInv, PointerStatus
    <3> QED
      BY <1>0, <2>0, <3>1, <3>4, <3>5, CalmWork DEF Activatable
  <2>3. CASE CopyFile(p)
    <3>1. UNCHANGED <<status, pointer>> /\ work[p].pc = "copy"
      BY <2>3 DEF CopyFile
    <3>2. status[g] = "building"
      BY <2>1, <3>1 DEF CalmFacts
    <3>3. \A k \in Gens \ {g} : store'[k] = store[k]
      BY <1>0, <2>3 DEF CopyFile, BaseInv, TablesOK
    <3>4. CalmFacts(p)'
      <4>1. CASE FileOf(p, g) = None
        <5>1. work'[p].gen = g /\ work'[p].pc = "fail"
          BY <2>1, <2>3, <4>1 DEF CopyFile, Step, WorkState
        <5> QED
          BY <3>1, <3>2, <5>1 DEF CalmFacts
      <4>2. CASE FileOf(p, g) # None
        <5>1. work'[p].gen = g /\ work'[p].pc = "ready" /\ work'[p].sum = work[p].sum
          BY <2>1, <2>3, <4>2 DEF CopyFile, Step, WorkState
        <5>2. store' = [store EXCEPT ![g] = FileOf(p, g).content]
          BY <2>3, <4>2 DEF CopyFile
        <5>3. FileOf(p, g).content = "complete" /\ work[p].sum = "complete"
          BY <1>0, <3>1, <4>2 DEF FileInv, FileFacts
        <5>4. store'[g] = work[p].sum
          BY <1>0, <2>0, <5>2, <5>3 DEF BaseInv, TablesOK
        <5> QED
          BY <3>1, <3>2, <5>1, <5>4 DEF CalmFacts
      <4> QED
        BY <4>1, <4>2
    <3>5. PointerStatus'
      BY <3>1 DEF CalmInv, PointerStatus
    <3> QED
      BY <1>0, <2>0, <3>1, <3>3, <3>4, <3>5, CalmWork DEF Activatable
  <2>4. CASE MarkReady(p)
    <3>1. /\ status' = [status EXCEPT ![g] = "ready"]
          /\ UNCHANGED <<pointer, store>> /\ work[p].pc = "ready"
      BY <2>4 DEF MarkReady
    <3>2. status[g] = "building" /\ store[g] = work[p].sum
      BY <2>1, <3>1 DEF CalmFacts
    <3>3. status'[g] = "ready" /\ \A k \in Gens \ {g} : status'[k] = status[k]
      BY <1>0, <2>0, <3>1 DEF BaseInv, TablesOK
    <3>4. PointerStatus'
      BY <3>1, <3>2, <3>3 DEF CalmInv, PointerStatus
    <3>5. \/ work'[p].gen = g /\ work'[p].pc = "verify" /\ work'[p].sum = work[p].sum
          \/ work'[p].pc = "cleanup"
      <4>1. CASE Step(p, "verify")
        BY <2>1, <4>1 DEF Step, WorkState
      <4>2. CASE Forget(p, "cleanup")
        BY <2>1, <4>2 DEF Forget, WorkState
      <4> QED
        BY <2>4, <4>1, <4>2 DEF MarkReady
    <3>6. CalmFacts(p)'
      BY <3>1, <3>2, <3>3, <3>5 DEF CalmFacts, Activatable
    <3> QED
      BY <1>0, <2>0, <3>1, <3>3, <3>4, <3>6, CalmWork DEF Activatable
  <2>5. CASE Verify(p)
    <3>1. UNCHANGED <<status, pointer, store>> /\ work[p].pc = "verify"
      BY <2>5 DEF Verify
    <3>2. store[g] = work[p].sum /\ Activatable(g)
      BY <2>1, <3>1 DEF CalmFacts
    <3>3. work'[p].gen = g /\ work'[p].pc = "activate"
      BY <2>1, <2>5, <3>2 DEF Verify, Forget, WorkState
    <3>4. CalmFacts(p)'
      BY <3>1, <3>2, <3>3 DEF CalmFacts, Activatable
    <3>5. PointerStatus'
      BY <3>1 DEF CalmInv, PointerStatus
    <3> QED
      BY <1>0, <2>0, <3>1, <3>4, <3>5, CalmWork DEF Activatable
  <2>6. CASE AutoActivate(p)
    <3>1. UNCHANGED store /\ work[p].pc = "activate" /\ TryDeploy(g)
      BY <2>6 DEF AutoActivate
    <3>2. Activatable(g)
      BY <2>1, <3>1 DEF CalmFacts
    <3>3. work'[p].pc = "cleanup"
      BY <2>1, <2>6, <3>2 DEF AutoActivate, Step, WorkState
    <3>4. CalmFacts(p)'
      BY <3>3 DEF CalmFacts
    <3> QED
      BY <1>0, <2>0, <3>1, <3>4, CalmWork, CalmDeploy
  <2>7. CASE Fail(p)
    <3>1. /\ status' = [status EXCEPT ![g] = "failed"]
          /\ UNCHANGED <<pointer, store>> /\ work[p].pc = "fail"
      BY <2>7 DEF Fail
    <3>2. status[g] = "building"
      BY <2>1, <3>1 DEF CalmFacts
    <3>3. status'[g] = "failed" /\ \A k \in Gens \ {g} : status'[k] = status[k]
      BY <1>0, <2>0, <3>1 DEF BaseInv, TablesOK
    <3>4. PointerStatus'
      BY <3>1, <3>2, <3>3 DEF CalmInv, PointerStatus
    <3>5. work'[p].pc = "cleanup"
      BY <2>1, <2>7 DEF Fail, Forget, WorkState
    <3>6. CalmFacts(p)'
      BY <3>5 DEF CalmFacts
    <3> QED
      BY <1>0, <2>0, <3>1, <3>3, <3>4, <3>6, CalmWork DEF Activatable
  <2>8. CASE Cleanup(p)
    <3>1. \A q \in Procs : work'[q] = work[q] \/ work'[q].pc \in Resting
      BY <2>1, <2>8 DEF Cleanup, NoWork, Resting
    <3> QED
      BY <2>8, <3>1, CalmQuiet DEF Cleanup
  <2> QED
    BY <1>0, <1>2, <2>2, <2>3, <2>4, <2>5, <2>6, <2>7, <2>8 DEF Work, WorkFails
<1> QED
  BY <1>1, <1>2

LEMMA CalmNext ==
    ASSUME Calm, IInv, CalmInv, [Next]_vars
    PROVE  CalmInv'
<1>0. BaseInv
  BY DEF IInv
<1>1. CASE UNCHANGED vars
  BY <1>1, CalmQuiet DEF vars
<1>2. ASSUME NEW p \in Procs, Work(p) PROVE CalmInv'
  BY <1>2, CalmStep
<1>3. ASSUME NEW p \in Procs, Request(p) PROVE CalmInv'
  <2>1. CASE ActivateWrite(p) \/ RollbackWrite(p)
    <3>1. req[p].gen \in Gens /\ TryDeploy(req[p].gen) /\ UNCHANGED <<store, work>>
      BY <1>0, <2>1 DEF ActivateWrite, RollbackWrite, BaseInv, GoodReq
    <3>2. ASSUME NEW q \in Procs PROVE CalmFacts(q)'
      <4>1. work[q].pc \notin Resting => work[q].gen \in Gens
        BY <1>0, WorkGen
      <4> QED
        BY <1>0, <3>1, <4>1, CalmDeploy DEF CalmInv, CalmFacts, Resting
    <3> QED
      BY <1>0, <3>1, <3>2, CalmDeploy DEF CalmInv
  <2>2. CASE ~ ActivateWrite(p) /\ ~ RollbackWrite(p)
    BY <1>3, <2>2, CalmQuiet DEF Request, ActivateRequest, RollbackRequest, RollbackRead,
       Search, OpenSearcher
  <2> QED
    BY <2>1, <2>2
<1>4. ASSUME NEW p \in Procs, ClaimFails(p) \/ Heartbeat(p) \/ Crash(p) PROVE CalmInv'
  <2>1. \A q \in Procs : work'[q] = work[q] \/ work'[q].pc \in Resting
    BY <1>0, <1>4 DEF ClaimFails, Heartbeat, Crash, Step, NoWork, Resting, BaseInv, GoodWork,
       WorkState
  <2> QED
    BY <1>4, <2>1, CalmQuiet DEF ClaimFails, Heartbeat, Crash
<1>5. ASSUME NEW g \in Gens, Create(g) PROVE CalmInv'
  <2>1. /\ status[g] = "none" /\ status' = [status EXCEPT ![g] = "queued"]
        /\ UNCHANGED <<pointer, store, work>>
    BY <1>5 DEF Create
  <2>2. \A k \in Gens \ {g} : status'[k] = status[k]
    BY <1>0, <2>1 DEF BaseInv, TablesOK
  <2>3. status'[g] = "queued"
    BY <1>0, <2>1 DEF BaseInv, TablesOK
  <2>4. PointerStatus'
    BY <2>1, <2>2, <2>3 DEF CalmInv, PointerStatus
  <2>5. ASSUME NEW q \in Procs PROVE CalmFacts(q)'
    <3>1. work[q].pc \notin Resting => work[q].gen \in Gens
      BY <1>0, WorkGen
    <3> QED
      BY <2>1, <2>2, <3>1 DEF CalmInv, CalmFacts, Resting, Activatable
  <2> QED
    BY <2>4, <2>5 DEF CalmInv
<1>6. ASSUME NEW g \in Gens, Expire(g) \/ Damage(g) PROVE CalmInv'
  BY <1>6, CalmQuiet DEF Expire, Damage, Calm
<1> QED
  BY <1>1, <1>2, <1>3, <1>4, <1>5, <1>6, TrafficAssumption DEF Next

\* The pointer names the only active generation, although the status and the
\* pointer are also written by mark_ready and fail, which look at neither: when
\* leases last and storage and database answer, for any requests and crashes.
THEOREM PointerAgrees ==
    ASSUME Calm
    PROVE  Spec => []PointerStatus
<1>1. Init => CalmInv
  BY NoneApart DEF Init, NoWork, CalmInv, CalmFacts, PointerStatus
<1>2. IInv /\ CalmInv /\ [Next]_vars => CalmInv'
  BY CalmNext
<1>3. CalmInv => PointerStatus
  BY DEF CalmInv
<1> QED
  BY <1>1, <1>2, <1>3, Invariant, PTL DEF Spec

\* A reader only ever opens complete indexes: the pointer is read before a flip
\* and the object after it, and objects may be damaged at any time.
LEMMA OpenedNext ==
    ASSUME Separated, IInv, ServedComplete, [Next]_vars
    PROVE  ServedComplete'
<1>0. BaseInv /\ FileInv
  BY DEF IInv
<1>1. ASSUME NEW p \in Procs, OpenSearcher(p) PROVE ServedComplete'
  <2>1. PICK g \in Gens : g = req[p].gen
    BY <1>0, <1>1 DEF OpenSearcher, BaseInv, GoodReq
  <2>2. CASE UNCHANGED opened
    BY <2>2 DEF ServedComplete
  <2>3. CASE opened' = [opened EXCEPT ![p][g] = store[g]] /\ Verified(g)
    <3>1. store[g] = "complete"
      BY <1>0, <2>3 DEF Verified, FileInv, BaseInv, TablesOK, Digest
    <3> QED
      BY <1>0, <2>3, <3>1 DEF ServedComplete, BaseInv, TablesOK
  <2> QED
    BY <1>1, <2>1, <2>2, <2>3 DEF OpenSearcher
<1>2. ASSUME NEW p \in Procs, Crash(p) PROVE ServedComplete'
  <2>1. opened' = [opened EXCEPT ![p] = [g \in Gens |-> None]]
    BY <1>2 DEF Crash
  <2> QED
    BY <1>0, <2>1 DEF ServedComplete, BaseInv, TablesOK
<1>3. CASE UNCHANGED opened
  BY <1>3 DEF ServedComplete
<1>4. UNCHANGED opened \/ \E p \in Procs : OpenSearcher(p) \/ Crash(p)
  <2>1. ASSUME NEW p \in Procs, Work(p) PROVE UNCHANGED opened
    BY <2>1 DEF Work, Claim, StartBuild, FinishBuild, BuildFails, DigestFile,
       CopyFile, MarkReady, Verify, AutoActivate, WorkFails, Fail, Cleanup
  <2>2. ASSUME NEW p \in Procs, Request(p), ~ OpenSearcher(p) PROVE UNCHANGED opened
    BY <2>2 DEF Request, ActivateRequest, ActivateWrite, RollbackRequest, RollbackRead,
       RollbackWrite, Search
  <2>3. ASSUME NEW p \in Procs, ClaimFails(p) \/ Heartbeat(p) PROVE UNCHANGED opened
    BY <2>3 DEF ClaimFails, Heartbeat
  <2>4. ASSUME NEW g \in Gens, Create(g) \/ Expire(g) \/ Damage(g) PROVE UNCHANGED opened
    BY <2>4 DEF Create, Expire, Damage
  <2> QED
    BY <2>1, <2>2, <2>3, <2>4, TrafficAssumption DEF Next, vars
<1> QED
  BY <1>1, <1>2, <1>3, <1>4

\* No searcher reads an incomplete or a damaged index, whatever fails, if
\* workers are prompt or have build directories of their own.
THEOREM SearchersComplete ==
    ASSUME Separated
    PROVE  Spec => []ServedComplete
<1>1. Init => ServedComplete
  BY DEF Init, ServedComplete
<1>2. IInv /\ ServedComplete /\ [Next]_vars => ServedComplete'
  BY OpenedNext
<1> QED
  BY <1>1, <1>2, Invariant, PTL DEF Spec

=============================================================================
