---------------------------- MODULE FastPathProofs ----------------------------
(***************************************************************************)
(* Theorems about FastPath, for any number of processes, profiles, calls,  *)
(* slots and places in the queue, and any faults.                          *)
(*                                                                         *)
(* The counters are exact because a request that waits or runs is at one   *)
(* process and leaves by one of the two releases; a copy is explained      *)
(* because whatever makes it differ from Redis is under way to it, will    *)
(* replace it, or says that it does not.                                   *)
(***************************************************************************)
EXTENDS FastPath, FiniteSetTheorems, TLAPS

\* A call that has begun names its process and profile; one that has not, none.
CallFacts ==
    /\ \A w \in Writers : IF admin[w].pc = "idle" THEN admin[w].proc = None
                          ELSE admin[w].proc \in Procs /\ admin[w].id \in Ids
    /\ \A w \in Writers : admin[w].pc \in {"deleting", "deleted"} => admin[w].ver = 0
    /\ \A r \in Requests : IF req[r].pc = "idle" THEN req[r].proc = None
                           ELSE req[r].proc \in Procs /\ req[r].id \in Ids

\* No request waits twice.
Once(s) == \A j, k \in DOMAIN s : s[j] = s[k] => j = k

QueueInv == \A p \in Procs : Once(waiters[p])

IInv == TypeOK /\ CallFacts /\ QueueInv /\ SchedulerExact /\ CopiesExplained

-----------------------------------------------------------------------------
(* Sequences without duplicates *)

LEMMA ConcatOnce ==
  ASSUME NEW S, NEW s \in Seq(S), NEW t \in Seq(S)
  PROVE  ToSet(s \o t) = ToSet(s) \cup ToSet(t)
<1>1. \A x \in ToSet(s) : x \in ToSet(s \o t)
  BY DEF ToSet
<1>2. ASSUME NEW x \in ToSet(t) PROVE x \in ToSet(s \o t)
  <2>1. PICK k \in DOMAIN t : t[k] = x
    BY DEF ToSet
  <2>2. Len(s) + k \in DOMAIN (s \o t) /\ (s \o t)[Len(s) + k] = x
    BY <2>1
  <2> QED BY <2>2 DEF ToSet
<1>3. ToSet(s \o t) \subseteq ToSet(s) \cup ToSet(t)
  BY DEF ToSet
<1> QED BY <1>1, <1>2, <1>3

LEMMA AppendOnce ==
  ASSUME NEW S, NEW s \in Seq(S), NEW x \in S, Once(s), x \notin ToSet(s)
  PROVE  /\ Append(s, x) \in Seq(S)
         /\ Once(Append(s, x))
         /\ ToSet(Append(s, x)) = ToSet(s) \cup {x}
<1>1. Append(s, x) \in Seq(S) /\ Once(Append(s, x))
  BY DEF Once, ToSet
<1>2. ToSet(Append(s, x)) \subseteq ToSet(s) \cup {x}
  BY DEF ToSet
<1>3. \A y \in ToSet(s) : y \in ToSet(Append(s, x))
  BY DEF ToSet
<1>4. x \in ToSet(Append(s, x))
  <2>1. Len(s) + 1 \in DOMAIN Append(s, x) /\ Append(s, x)[Len(s) + 1] = x
    OBVIOUS
  <2> QED BY <2>1 DEF ToSet
<1> QED BY <1>1, <1>2, <1>3, <1>4

LEMMA RemoveOnce ==
  ASSUME NEW S, NEW s \in Seq(S), NEW k \in DOMAIN s, Once(s)
  PROVE  /\ RemoveAt(s, k) \in Seq(S)
         /\ Once(RemoveAt(s, k))
         /\ ToSet(RemoveAt(s, k)) = ToSet(s) \ {s[k]}
<1> DEFINE t == RemoveAt(s, k)
<1>1. /\ t \in Seq(S) /\ Len(t) = Len(s) - 1
      /\ \A i \in 1 .. Len(t) : t[i] = IF i < k THEN s[i] ELSE s[i + 1]
  <2> DEFINE a == SubSeq(s, 1, k - 1)
             b == SubSeq(s, k + 1, Len(s))
  <2>1. /\ a \in Seq(S) /\ Len(a) = k - 1
        /\ \A i \in 1 .. k - 1 : a[i] = s[i]
    OBVIOUS
  <2>2. /\ b \in Seq(S) /\ Len(b) = Len(s) - k
        /\ \A i \in 1 .. Len(s) - k : b[i] = s[k + i]
    OBVIOUS
  <2>3. t = a \o b
    BY DEF RemoveAt
  <2> HIDE DEF a, b, t
  <2>4. t \in Seq(S) /\ Len(t) = Len(s) - 1
    BY <2>1, <2>2, <2>3
  <2>5. ASSUME NEW i \in 1 .. Len(t) PROVE t[i] = IF i < k THEN s[i] ELSE s[i + 1]
    <3>1. CASE i < k
      BY <2>1, <2>2, <2>3, <2>4, <3>1
    <3>2. CASE i >= k
      <4>1. t[i] = b[i - (k - 1)] /\ i - (k - 1) \in 1 .. Len(s) - k
        BY <2>1, <2>2, <2>3, <2>4, <3>2
      <4> QED BY <4>1, <2>2, <3>2
    <3> QED BY <3>1, <3>2
  <2> QED BY <2>4, <2>5
<1> HIDE DEF t
<1>2. Once(t)
  <2> SUFFICES ASSUME NEW i \in DOMAIN t, NEW j \in DOMAIN t, t[i] = t[j] PROVE i = j
    BY DEF Once
  <2> DEFINE a == IF i < k THEN i ELSE i + 1
             b == IF j < k THEN j ELSE j + 1
  <2>1. a \in DOMAIN s /\ b \in DOMAIN s /\ s[a] = s[b]
    BY <1>1
  <2>2. a = b
    BY <2>1 DEF Once
  <2> QED BY <2>2, <1>1
<1>3. ASSUME NEW x \in ToSet(t) PROVE x \in ToSet(s) \ {s[k]}
  <2>1. PICK i \in DOMAIN t : t[i] = x
    BY DEF ToSet
  <2> DEFINE a == IF i < k THEN i ELSE i + 1
  <2>2. a \in DOMAIN s /\ s[a] = x /\ a # k
    BY <1>1, <2>1
  <2>3. x # s[k]
    BY <2>2 DEF Once
  <2> QED BY <2>2, <2>3 DEF ToSet
<1>4. ASSUME NEW x \in ToSet(s), x # s[k] PROVE x \in ToSet(t)
  <2>1. PICK i \in DOMAIN s : s[i] = x
    BY DEF ToSet
  <2> DEFINE a == IF i < k THEN i ELSE i - 1
  <2>2. a \in DOMAIN t /\ t[a] = x
    BY <1>1, <1>4, <2>1
  <2> QED BY <2>2 DEF ToSet
<1>5. ToSet(t) = ToSet(s) \ {s[k]}
  BY <1>3, <1>4
<1> QED BY <1>1, <1>2, <1>5 DEF t

\* The first of a queue leaves it.
LEMMA TailOnce ==
  ASSUME NEW S, NEW s \in Seq(S), s # << >>, Once(s)
  PROVE  /\ Tail(s) \in Seq(S)
         /\ Once(Tail(s))
         /\ Head(s) \in ToSet(s)
         /\ ToSet(Tail(s)) = ToSet(s) \ {Head(s)}
<1>1. 1 \in DOMAIN s /\ Head(s) = s[1]
  OBVIOUS
<1>2. Tail(s) = RemoveAt(s, 1)
  BY <1>1 DEF RemoveAt
<1>3. /\ RemoveAt(s, 1) \in Seq(S) /\ Once(RemoveAt(s, 1))
      /\ ToSet(RemoveAt(s, 1)) = ToSet(s) \ {s[1]}
  BY <1>1, RemoveOnce
<1>4. s[1] \in ToSet(s)
  BY <1>1 DEF ToSet
<1> QED BY <1>1, <1>2, <1>3, <1>4

-----------------------------------------------------------------------------
(* What the invariant says of one request and of one deployment *)

LEMMA ScopeFacts ==
  ASSUME TypeOK
  PROVE  /\ scope.procs \subseteq Procs /\ scope.ids \subseteq Ids
         /\ scope.writers \subseteq Writers /\ scope.requests \subseteq Requests
BY FastAssumption DEF TypeOK

LEMMA AtFinite ==
  ASSUME NEW p, NEW pcs
  PROVE  /\ IsFiniteSet(At(p, pcs))
         /\ Cardinality(At(p, pcs)) \in Nat
<1>1. IsFiniteSet(At(p, pcs))
  <2>1. At(p, pcs) \subseteq Requests
    BY DEF At
  <2> QED BY <2>1, FastAssumption, FS_Subset
<1> QED BY <1>1, FS_CardinalityType

\* A request that waits or runs is counted at its process, and in its queue
\* or among its slots.
LEMMA Occupied ==
  ASSUME IInv, NEW r \in Requests, req[r].pc \in {"waiting", "running"}
  PROVE  /\ req[r].proc \in Procs
         /\ pending[req[r].proc] > 0
         /\ req[r].pc = "running" => inflight[req[r].proc] > 0
         /\ req[r].pc = "waiting" => r \in ToSet(waiters[req[r].proc])
<1> DEFINE p == req[r].proc
<1>1. p \in Procs
  BY DEF IInv, CallFacts
<1>2. CountsExact(p)
  BY <1>1 DEF IInv, SchedulerExact
<1>3. r \in At(p, {"waiting", "running"}) /\ (req[r].pc = "running" => r \in At(p, {"running"}))
      /\ (req[r].pc = "waiting" => r \in At(p, {"waiting"}))
  BY DEF At
<1>4. Cardinality(At(p, {"waiting", "running"})) # 0
  BY <1>3, AtFinite, FS_EmptySet
<1>5. req[r].pc = "running" => Cardinality(At(p, {"running"})) # 0
  BY <1>3, AtFinite, FS_EmptySet
<1> HIDE DEF p
<1>6. pending[p] \in Nat /\ inflight[p] \in Nat
  BY <1>1 DEF IInv, TypeOK
<1>7. pending[p] > 0 /\ (req[r].pc = "running" => inflight[p] > 0)
      /\ (req[r].pc = "waiting" => r \in ToSet(waiters[p]))
  BY <1>2, <1>3, <1>4, <1>5, <1>6 DEF CountsExact
<1> QED BY <1>1, <1>7 DEF p

-----------------------------------------------------------------------------
(* Types *)

LEMMA InitTyped ==
  ASSUME Init
  PROVE  TypeOK /\ CallFacts
<1>1. Cardinality(Ids) \in Nat
  BY FastAssumption, FS_CardinalityType
<1>2. redis \in [Ids -> Nat]
  BY <1>1 DEF Init
<1>3. chan \in [Procs -> Seq([id : Ids, from : Procs])] /\ waiters \in [Procs -> Seq(Requests)]
      /\ results \in Seq(Stream) /\ yielded \in Seq(Stream)
  BY DEF Init
<1>4. {pending, inflight, slots} \subseteq [Procs -> Nat]
  BY FastAssumption DEF Init
<1>5. admin \in [Writers -> [pc : AdminPcs, proc : Procs \cup {None}, id : Ids \cup {None}, ver : Nat]]
  BY DEF Init, Idle, AdminPcs
<1>6. req \in [Requests -> [pc : Dispatched \cup Gone \cup {"idle"}, proc : Procs \cup {None},
                            id : Ids \cup {None}, ver : Nat]]
  BY DEF Init, Idle
<1>7. CallFacts
  BY DEF Init, Idle, CallFacts
<1> QED BY <1>1, <1>2, <1>3, <1>4, <1>5, <1>6, <1>7 DEF Init, TypeOK

\* The types of the variables of the registry, and of the rest.
Events == [id : Ids, from : Procs]

AdminRows == [pc : AdminPcs, proc : Procs \cup {None}, id : Ids \cup {None}, ver : Nat]

RequestRows == [pc : Dispatched \cup Gone \cup {"idle"}, proc : Procs \cup {None},
                id : Ids \cup {None}, ver : Nat]

RegistryTyped ==
    /\ redis \in [Ids -> Nat]
    /\ clock \in Nat
    /\ chan \in [Procs -> Seq(Events)]
    /\ listening \in [Procs -> BOOLEAN]
    /\ cache \in [Procs -> [Ids -> Nat]]
    /\ excused \subseteq Procs \X Ids
    /\ admin \in [Writers -> AdminRows]

RequestsTyped == req \in [Requests -> RequestRows]

SchedulerTyped ==
    /\ pending \in [Procs -> Nat] /\ inflight \in [Procs -> Nat] /\ slots \in [Procs -> Nat]
    /\ waiters \in [Procs -> Seq(Requests)]

StreamTyped == results \in Seq(Stream) /\ yielded \in Seq(Stream)

LEMMA TypeParts ==
  TypeOK <=> /\ scope \in Scopes
             /\ RegistryTyped /\ RequestsTyped /\ SchedulerTyped /\ StreamTyped
BY DEF TypeOK, RegistryTyped, RequestsTyped, SchedulerTyped, StreamTyped, Events, AdminRows,
       RequestRows

LEMMA InstallTyped ==
  ASSUME RegistryTyped, NEW p \in Procs, NEW i \in Ids, NEW v \in Nat, Install(p, i, v)
  PROVE  cache' \in [Procs -> [Ids -> Nat]] /\ excused' \subseteq Procs \X Ids
<1> DEFINE victim == IF cache[p][i] = 0 /\ Cardinality(Cached(p)) >= Limit
                     THEN {Oldest(p)} ELSE {}
           row == [j \in Ids |-> IF j = i THEN v ELSE IF j \in victim THEN 0 ELSE cache[p][j]]
<1>1. cache' = [cache EXCEPT ![p] = row]
  BY DEF Install, RegistryTyped
<1>2. excused' = (excused \ {<<p, j>> : j \in victim \cup {i}})
                    \cup (IF v = redis[i] THEN {} ELSE {<<p, i>>})
  BY DEF Install
<1>3. row \in [Ids -> Nat]
  BY DEF RegistryTyped
<1> HIDE DEF row, victim
<1>4. excused' \subseteq excused \cup {<<p, i>>}
  BY <1>2
<1>5. cache \in [Procs -> [Ids -> Nat]] /\ excused \subseteq Procs \X Ids
  BY DEF RegistryTyped
<1>6. cache' \in [Procs -> [Ids -> Nat]]
  BY <1>1, <1>3, <1>5
<1>7. <<p, i>> \in Procs \X Ids
  OBVIOUS
<1>8. excused' \subseteq Procs \X Ids
  BY <1>4, <1>5, <1>7
<1> QED BY <1>6, <1>8

LEMMA PublishTyped ==
  ASSUME RegistryTyped, NEW p \in Procs, NEW i \in Ids, Publish(i, p)
  PROVE  chan' \in [Procs -> Seq(Events)] /\ excused' \subseteq Procs \X Ids
<1>1. chan \in [Procs -> Seq(Events)] /\ excused \subseteq Procs \X Ids
  BY DEF RegistryTyped
<1>2. [id |-> i, from |-> p] \in Events
  BY DEF Events
<1>3. chan' \in [Procs -> Seq(Events)]
  <2> DEFINE ev == [id |-> i, from |-> p]
  <2>1. chan' = [q \in Procs |-> IF listening[q] THEN Append(chan[q], ev) ELSE chan[q]]
    BY DEF Publish
  <2>2. ev \in Events /\ chan \in [Procs -> Seq(Events)]
    BY <1>1, <1>2
  <2> HIDE DEF ev
  <2>3. \A q \in Procs : chan[q] \in Seq(Events) /\ Append(chan[q], ev) \in Seq(Events)
    BY <2>2
  <2> QED BY <2>1, <2>3
<1>4. \A q \in Procs : <<q, i>> \in Procs \X Ids
  OBVIOUS
<1>5. ASSUME NEW e \in excused' PROVE e \in excused \/ \E q \in Procs : e = <<q, i>>
  BY DEF Publish
<1>7. excused' \subseteq Procs \X Ids
  BY <1>1, <1>4, <1>5
<1> QED BY <1>3, <1>7

LEMMA PopTyped ==
  ASSUME RegistryTyped, NEW p \in Procs, NEW i \in Ids, Pop(p, i)
  PROVE  cache' \in [Procs -> [Ids -> Nat]] /\ excused' \subseteq Procs \X Ids
BY DEF RegistryTyped, Pop

LEMMA AdminMoves ==
  ASSUME RegistryTyped, CallFacts, UNCHANGED req,
         NEW w \in Writers, admin[w].pc # "idle",
         NEW pc \in AdminPcs \ {"idle"}, admin' = [admin EXCEPT ![w].pc = pc],
         pc \in {"deleting", "deleted"} => admin[w].ver = 0
  PROVE  admin' \in [Writers -> AdminRows] /\ CallFacts'
<1>1. admin \in [Writers -> AdminRows]
  BY DEF RegistryTyped
<1>2. admin'[w] = [admin[w] EXCEPT !.pc = pc] /\ \A v \in Writers \ {w} : admin'[v] = admin[v]
  BY <1>1
<1>3. admin[w] \in AdminRows
  BY <1>1
<1>4. admin'[w] \in AdminRows /\ admin'[w].pc = pc /\ admin'[w].proc = admin[w].proc
      /\ admin'[w].id = admin[w].id /\ admin'[w].ver = admin[w].ver
  BY <1>2, <1>3 DEF AdminRows
<1>5. admin' \in [Writers -> AdminRows]
  BY <1>1, <1>4
<1> QED BY <1>2, <1>4, <1>5 DEF CallFacts

\* An administrator's call changes the registry alone.
LEMMA AdminTyped ==
  ASSUME IInv, NEW w \in Writers, AdminStep(w)
  PROVE  RegistryTyped' /\ CallFacts' /\ UNCHANGED <<req, scheduler, stream>>
<1> DEFINE a == admin[w]
<1>1. RegistryTyped /\ CallFacts
  BY TypeParts DEF IInv
<1>2. a.pc # "idle" => a.proc \in Procs /\ a.id \in Ids /\ a.ver \in Nat
  BY <1>1 DEF CallFacts, RegistryTyped, AdminRows
<1>0. /\ admin' \in [Writers -> AdminRows] /\ CallFacts'
      /\ UNCHANGED <<req, scheduler, stream>>
  <2>1. PICK pc \in AdminPcs \ {"idle"} :
          /\ admin' = [admin EXCEPT ![w].pc = pc]
          /\ pc \in {"deleting", "deleted"} => a.pc = "deleting"
    BY DEF AdminStep, Save, AdminFails, CreateEnd, Hdel, PublishDelete, DeleteEnd, AdminPcs
  <2>2. a.pc # "idle" /\ UNCHANGED <<req, scheduler, stream>>
    BY DEF AdminStep, Save, AdminFails, CreateEnd, Hdel, PublishDelete, DeleteEnd
  <2>3. pc \in {"deleting", "deleted"} => a.ver = 0
    BY <1>1, <2>1 DEF CallFacts
  <2>4. UNCHANGED req
    BY <2>2
  <2> QED BY <1>1, <2>1, <2>2, <2>3, <2>4, AdminMoves
<1>3. CASE Save(w)
  <2>1. Publish(a.id, a.proc) /\ a.pc # "idle"
    BY <1>3 DEF Save
  <2>2. chan' \in [Procs -> Seq(Events)] /\ excused' \subseteq Procs \X Ids
    BY <1>1, <1>2, <2>1, PublishTyped
  <2> QED BY <1>0, <1>1, <1>2, <1>3, <2>1, <2>2 DEF Save, RegistryTyped
<1>4. CASE AdminFails(w)
  <2>1. a.pc # "idle"
    BY <1>4 DEF AdminFails
  <2>2. excused' \subseteq Procs \X Ids
    BY <1>1, <1>2, <1>4, <2>1 DEF AdminFails, RegistryTyped
  <2> QED BY <1>0, <1>1, <1>4, <2>2 DEF AdminFails, RegistryTyped
<1>5. CASE CreateEnd(w)
  <2>1. Install(a.proc, a.id, a.ver) /\ a.pc # "idle"
    BY <1>5 DEF CreateEnd
  <2>2. cache' \in [Procs -> [Ids -> Nat]] /\ excused' \subseteq Procs \X Ids
    BY <1>1, <1>2, <2>1, InstallTyped
  <2> QED BY <1>0, <1>1, <1>5, <2>2 DEF CreateEnd, RegistryTyped
<1>6. CASE Hdel(w)
  BY <1>0, <1>1, <1>2, <1>6 DEF Hdel, RegistryTyped
<1>7. CASE PublishDelete(w)
  <2>1. Publish(a.id, a.proc) /\ a.pc # "idle"
    BY <1>7 DEF PublishDelete
  <2>2. chan' \in [Procs -> Seq(Events)] /\ excused' \subseteq Procs \X Ids
    BY <1>1, <1>2, <2>1, PublishTyped
  <2> QED BY <1>0, <1>1, <1>7, <2>2 DEF PublishDelete, RegistryTyped
<1>8. CASE DeleteEnd(w)
  <2>1. Pop(a.proc, a.id) /\ a.pc # "idle"
    BY <1>8 DEF DeleteEnd
  <2>2. cache' \in [Procs -> [Ids -> Nat]] /\ excused' \subseteq Procs \X Ids
    BY <1>1, <1>2, <2>1, PopTyped
  <2> QED BY <1>0, <1>1, <1>8, <2>2 DEF DeleteEnd, RegistryTyped
<1> QED BY <1>3, <1>4, <1>5, <1>6, <1>7, <1>8 DEF AdminStep

\* One request changes: its row, and nothing of the others.
LEMMA RequestMoves ==
  ASSUME RequestsTyped, CallFacts, UNCHANGED admin,
         NEW r \in Requests, NEW row \in RequestRows, row.pc # "idle",
         row.proc \in Procs, row.id \in Ids,
         req' = [req EXCEPT ![r] = row]
  PROVE  RequestsTyped' /\ CallFacts'
<1>1. req \in [Requests -> RequestRows]
  BY DEF RequestsTyped
<1>2. req'[r] = row /\ \A s \in Requests \ {r} : req'[s] = req[s]
  BY <1>1
<1>3. req' \in [Requests -> RequestRows]
  BY <1>1
<1>4. CallFacts'
  BY <1>2 DEF CallFacts
<1> QED BY <1>3, <1>4 DEF RequestsTyped

\* A request in progress goes on to pc, with the version ver.
LEMMA GotoTyped ==
  ASSUME RequestsTyped, CallFacts, UNCHANGED admin,
         NEW r \in Requests, req[r].pc # "idle",
         NEW pc \in Dispatched \cup Gone, NEW ver \in Nat,
         req' = [req EXCEPT ![r].pc = pc, ![r].ver = ver]
  PROVE  RequestsTyped' /\ CallFacts'
<1> DEFINE row == [req[r] EXCEPT !.pc = pc, !.ver = ver]
<1>1. req[r] \in RequestRows /\ req[r].proc \in Procs /\ req[r].id \in Ids
  BY DEF RequestsTyped, RequestRows, CallFacts
<1>2. row \in RequestRows /\ row.pc = pc /\ row.proc = req[r].proc /\ row.id = req[r].id
  BY <1>1 DEF RequestRows
<1>3. req' = [req EXCEPT ![r] = row]
  BY DEF RequestsTyped
<1>4. row.pc # "idle"
  BY <1>2 DEF Dispatched, Gone
<1> HIDE DEF row
<1> QED BY <1>1, <1>2, <1>3, <1>4, RequestMoves

LEMMA StepTyped ==
  ASSUME RequestsTyped, CallFacts, UNCHANGED admin,
         NEW r \in Requests, req[r].pc # "idle",
         NEW pc \in Dispatched \cup Gone, Goto(r, pc)
  PROVE  RequestsTyped' /\ CallFacts'
<1>1. req[r] \in RequestRows /\ req[r].ver \in Nat
  BY DEF RequestsTyped, RequestRows
<1>2. req' = [req EXCEPT ![r].pc = pc, ![r].ver = req[r].ver]
  BY <1>1 DEF Goto, RequestsTyped, RequestRows
<1> QED BY <1>1, <1>2, GotoTyped

LEMMA LeaveTyped ==
  ASSUME StreamTyped, NEW r \in Requests, NEW pc, Leave(r, pc)
  PROVE  StreamTyped'
BY DEF StreamTyped, Leave

\* Every step of the processes, the calls and the clients keeps the types but
\* for those of the counters, which depend on what they count.
LEMMA RequestTyped ==
  ASSUME IInv, NEW r \in Requests, RequestStep(r) \/ Cancel(r)
  PROVE  RegistryTyped' /\ RequestsTyped' /\ CallFacts' /\ StreamTyped' /\ SchedulerTyped'
<1> DEFINE q == req[r]
<1>0. RegistryTyped /\ RequestsTyped /\ CallFacts /\ StreamTyped /\ SchedulerTyped
  BY TypeParts DEF IInv
<1>1. q.pc \in Dispatched /\ q.pc # "idle"
  BY DEF RequestStep, Cancel, LoadLock, RegistryGet, InstallLoaded, Admit, Acquire, QueueTimeout,
         ExecuteDirect, LeaveQueue, Release, Dispatched
<1>2. q.proc \in Procs /\ q.id \in Ids /\ q.ver \in Nat
  BY <1>0, <1>1 DEF CallFacts, RequestsTyped, RequestRows
<1>3. UNCHANGED admin
  BY DEF RequestStep, Cancel, LoadLock, RegistryGet, InstallLoaded, Admit, Acquire, QueueTimeout,
         ExecuteDirect, LeaveQueue, Release, registry
<1>4. CASE LoadLock(r)
  <2>1. RequestsTyped' /\ CallFacts'
    <3>1. CASE cache[q.proc][q.id] # 0
      <4>1. cache[q.proc][q.id] \in Nat /\ "admit" \in Dispatched
        BY <1>0, <1>2 DEF RegistryTyped, Dispatched
      <4> QED BY <1>0, <1>1, <1>3, <1>4, <3>1, <4>1, GotoTyped DEF LoadLock
    <3>2. CASE cache[q.proc][q.id] = 0
      BY <1>0, <1>1, <1>3, <1>4, <3>2, StepTyped DEF LoadLock, Dispatched
    <3> QED BY <3>1, <3>2
  <2> QED BY <1>0, <1>4, <2>1 DEF LoadLock, registry, scheduler, stream, RegistryTyped,
                                  SchedulerTyped, StreamTyped
<1>5. CASE RegistryGet(r)
  <2>1. RequestsTyped' /\ CallFacts' /\ StreamTyped'
    <3>1. CASE redis[q.id] = 0
      BY <1>0, <1>1, <1>3, <1>5, <3>1, StepTyped, LeaveTyped DEF RegistryGet, Leave, Gone
    <3>2. CASE redis[q.id] # 0
      <4>1. redis[q.id] \in Nat /\ "install" \in Dispatched
        BY <1>0, <1>2 DEF RegistryTyped, Dispatched
      <4> QED BY <1>0, <1>1, <1>3, <1>5, <3>2, <4>1, GotoTyped
              DEF RegistryGet, stream, StreamTyped
    <3> QED BY <3>1, <3>2
  <2> QED BY <1>0, <1>5, <2>1 DEF RegistryGet, registry, scheduler, RegistryTyped, SchedulerTyped
<1>6. CASE InstallLoaded(r)
  <2>1. cache' \in [Procs -> [Ids -> Nat]] /\ excused' \subseteq Procs \X Ids
    BY <1>0, <1>2, <1>6, InstallTyped DEF InstallLoaded
  <2>2. RequestsTyped' /\ CallFacts'
    BY <1>0, <1>1, <1>3, <1>6, StepTyped DEF InstallLoaded, Dispatched
  <2> QED BY <1>0, <1>6, <2>1, <2>2 DEF InstallLoaded, scheduler, stream, RegistryTyped,
                                        SchedulerTyped, StreamTyped
<1>7. CASE Admit(r)
  <2>1. RequestsTyped' /\ CallFacts'
    <3>1. PICK pc \in Dispatched \cup Gone : Goto(r, pc)
      BY <1>7 DEF Admit, Leave, Dispatched, Gone
    <3> QED BY <1>0, <1>1, <1>3, <3>1, StepTyped
  <2>2. StreamTyped'
    BY <1>0, <1>7, LeaveTyped DEF Admit, stream, StreamTyped
  <2>3. SchedulerTyped'
    <3>1. CASE UNCHANGED scheduler
      BY <1>0, <3>1 DEF scheduler, SchedulerTyped
    <3>2. CASE /\ pending' = [pending EXCEPT ![q.proc] = @ + 1]
               /\ slots[q.proc] > 0 /\ UNCHANGED waiters
               /\ slots' = [slots EXCEPT ![q.proc] = @ - 1]
               /\ inflight' = [inflight EXCEPT ![q.proc] = @ + 1]
      BY <1>0, <1>2, <3>2 DEF SchedulerTyped
    <3>3. CASE /\ pending' = [pending EXCEPT ![q.proc] = @ + 1]
               /\ waiters' = [waiters EXCEPT ![q.proc] = Append(@, r)]
               /\ UNCHANGED <<slots, inflight>>
      BY <1>0, <1>2, <3>3 DEF SchedulerTyped
    <3> QED BY <1>7, <3>1, <3>2, <3>3 DEF Admit
  <2> QED BY <1>0, <1>7, <2>1, <2>2, <2>3 DEF Admit, registry, RegistryTyped
<1>8. CASE Acquire(r)
  <2>1. RequestsTyped' /\ CallFacts'
    BY <1>0, <1>1, <1>3, <1>8, StepTyped DEF Acquire, Dispatched
  <2>2. waiters[q.proc] # << >>
    <3>1. CountsExact(q.proc) /\ r \in At(q.proc, {"waiting"})
      BY <1>2, <1>8 DEF IInv, SchedulerExact, Acquire, At
    <3> QED BY <3>1 DEF CountsExact, ToSet
  <2>3. SchedulerTyped'
    BY <1>0, <1>2, <1>8, <2>2 DEF Acquire, SchedulerTyped
  <2> QED BY <1>0, <1>8, <2>1, <2>3 DEF Acquire, registry, stream, RegistryTyped, StreamTyped
<1>9. ASSUME NEW pc \in Gone, LeaveQueue(r, pc)
      PROVE  RegistryTyped' /\ RequestsTyped' /\ CallFacts' /\ StreamTyped' /\ SchedulerTyped'
  <2>1. RequestsTyped' /\ CallFacts' /\ StreamTyped'
    BY <1>0, <1>1, <1>3, <1>9, StepTyped, LeaveTyped DEF LeaveQueue, Leave
  <2>2. pending[q.proc] - 1 \in Nat
    BY <1>0, <1>2, <1>9, Occupied DEF LeaveQueue, SchedulerTyped
  <2>3. PICK k \in DOMAIN waiters[q.proc] : waiters' = [waiters EXCEPT ![q.proc] = RemoveAt(@, k)]
    BY <1>9 DEF LeaveQueue
  <2>4. RemoveAt(waiters[q.proc], k) \in Seq(Requests)
    BY <1>0, <1>2, RemoveOnce DEF IInv, QueueInv, SchedulerTyped
  <2>5. SchedulerTyped'
    BY <1>0, <1>2, <1>9, <2>2, <2>3, <2>4 DEF LeaveQueue, SchedulerTyped
  <2> QED BY <1>0, <1>9, <2>1, <2>5 DEF LeaveQueue, registry, RegistryTyped
<1>10. ASSUME NEW pc \in Gone, Release(r, pc)
       PROVE  RegistryTyped' /\ RequestsTyped' /\ CallFacts' /\ StreamTyped' /\ SchedulerTyped'
  <2>1. RequestsTyped' /\ CallFacts' /\ StreamTyped'
    BY <1>0, <1>1, <1>3, <1>10, StepTyped, LeaveTyped DEF Release, Leave
  <2>2. pending[q.proc] - 1 \in Nat /\ inflight[q.proc] - 1 \in Nat
    BY <1>0, <1>2, <1>10, Occupied DEF Release, SchedulerTyped
  <2>3. SchedulerTyped'
    BY <1>0, <1>2, <1>10, <2>2 DEF Release, SchedulerTyped
  <2> QED BY <1>0, <1>10, <2>1, <2>3 DEF Release, registry, RegistryTyped
<1>11. CASE /\ q.pc \in {"load", "get", "install"} /\ Goto(r, "cancelled")
            /\ UNCHANGED <<registry, scheduler, stream>>
  <2>1. RequestsTyped' /\ CallFacts'
    BY <1>0, <1>1, <1>3, <1>11, StepTyped DEF Gone
  <2> QED BY <1>0, <1>11, <2>1 DEF registry, scheduler, stream, RegistryTyped, SchedulerTyped,
                                   StreamTyped
<1>12. {"timeout", "answered", "cancelled"} \subseteq Gone
  BY DEF Gone
<1> QED BY <1>4, <1>5, <1>6, <1>7, <1>8, <1>9, <1>10, <1>11, <1>12
        DEF RequestStep, Cancel, QueueTimeout, ExecuteDirect

LEMMA ProcessTyped ==
  ASSUME IInv, NEW p \in Procs, Subscribe(p) \/ Listen(p) \/ ListenerEnds(p)
  PROVE  RegistryTyped' /\ CallFacts' /\ UNCHANGED <<admin, req, scheduler, stream>>
<1>0. RegistryTyped /\ CallFacts
  BY TypeParts DEF IInv
<1>1. UNCHANGED <<admin, req, scheduler, stream>>
  BY DEF Subscribe, Listen, ListenerEnds
<1>2. CallFacts'
  BY <1>0, <1>1 DEF CallFacts
<1>3. CASE Subscribe(p)
  BY <1>0, <1>1, <1>2, <1>3 DEF Subscribe, RegistryTyped
<1>4. CASE Listen(p)
  <2> DEFINE ev == Head(chan[p])
  <2>1. chan[p] \in Seq(Events) /\ chan[p] # << >>
    BY <1>0, <1>4 DEF Listen, RegistryTyped
  <2>2. ev \in Events /\ Tail(chan[p]) \in Seq(Events)
    BY <2>1
  <2>5. ev.id \in Ids
    BY <2>2 DEF Events
  <2>3. chan' \in [Procs -> Seq(Events)]
    BY <1>0, <1>4, <2>2 DEF Listen, RegistryTyped
  <2>4. cache' \in [Procs -> [Ids -> Nat]] /\ excused' \subseteq Procs \X Ids
    BY <1>0, <1>4, <2>5, PopTyped DEF Listen, RegistryTyped
  <2> QED BY <1>0, <1>1, <1>2, <1>4, <2>3, <2>4 DEF Listen, RegistryTyped
<1>5. CASE ListenerEnds(p)
  <2>1. chan' \in [Procs -> Seq(Events)]
    BY <1>0, <1>5 DEF ListenerEnds, RegistryTyped
  <2>2. \A i \in Ids : <<p, i>> \in Procs \X Ids
    OBVIOUS
  <2>3. \A e \in excused' : e \in excused \/ \E i \in Ids : e = <<p, i>>
    BY <1>5 DEF ListenerEnds, Cached
  <2>4. excused' \subseteq Procs \X Ids
    BY <1>0, <2>2, <2>3 DEF RegistryTyped
  <2> QED BY <1>0, <1>1, <1>2, <1>5, <2>1, <2>4 DEF ListenerEnds, RegistryTyped
<1> QED BY <1>3, <1>4, <1>5

LEMMA CrashTyped ==
  ASSUME IInv, NEW p \in Procs, Crash(p)
  PROVE  RegistryTyped' /\ RequestsTyped' /\ CallFacts' /\ SchedulerTyped' /\ UNCHANGED stream
<1>0. RegistryTyped /\ RequestsTyped /\ CallFacts /\ SchedulerTyped
  BY TypeParts DEF IInv
<1>1. /\ \A w \in Writers : admin'[w] = IF admin[w].proc = p THEN [admin[w] EXCEPT !.pc = "done"]
                                        ELSE admin[w]
      /\ DOMAIN admin' = Writers /\ admin' = [w \in Writers |-> admin'[w]]
  BY DEF Crash
<1>2. \A w \in Writers : admin'[w] \in AdminRows
  <2>1. \A w \in Writers : admin[w] \in AdminRows
    BY <1>0 DEF RegistryTyped
  <2>2. \A a \in AdminRows : [a EXCEPT !.pc = "done"] \in AdminRows
    BY DEF AdminRows, AdminPcs
  <2> QED BY <1>1, <2>1, <2>2
<1>3. /\ \A r \in Requests : req'[r] = IF req[r].proc = p THEN [req[r] EXCEPT !.pc = "cancelled"]
                                       ELSE req[r]
      /\ req' = [r \in Requests |-> req'[r]]
  BY DEF Crash
<1>4. \A r \in Requests : req'[r] \in RequestRows
  BY <1>0, <1>3 DEF RequestsTyped, RequestRows, Gone
<1>5. admin' \in [Writers -> AdminRows] /\ req' \in [Requests -> RequestRows]
  BY <1>1, <1>2, <1>3, <1>4
<1>6. p # None
  BY FastAssumption
<1>7. CallFacts'
  <2>1. \A w \in Writers : /\ admin'[w].proc = admin[w].proc /\ admin'[w].id = admin[w].id
                           /\ admin'[w].ver = admin[w].ver
                           /\ admin'[w].pc = IF admin[w].proc = p THEN "done" ELSE admin[w].pc
    BY <1>0, <1>1 DEF RegistryTyped, AdminRows
  <2>2. \A r \in Requests : /\ req'[r].proc = req[r].proc /\ req'[r].id = req[r].id
                            /\ req'[r].pc = IF req[r].proc = p THEN "cancelled" ELSE req[r].pc
    BY <1>0, <1>3 DEF RequestsTyped, RequestRows
  <2> QED BY <1>0, <1>6, <2>1, <2>2 DEF CallFacts
<1>8. cache' \in [Procs -> [Ids -> Nat]] /\ chan' \in [Procs -> Seq(Events)]
      /\ listening' \in [Procs -> BOOLEAN]
  BY <1>0 DEF Crash, RegistryTyped
<1>9. excused' \subseteq Procs \X Ids
  <2>1. \A e \in excused' : e \in excused \/ e \in (Procs \ {p}) \X Ids
    BY DEF Crash
  <2> QED BY <1>0, <2>1 DEF RegistryTyped
<1>10. SchedulerTyped'
  BY <1>0, FastAssumption DEF Crash, SchedulerTyped
<1>11. UNCHANGED <<redis, clock, stream>>
  BY DEF Crash
<1>12. RegistryTyped'
  BY <1>0, <1>5, <1>8, <1>9, <1>11 DEF RegistryTyped
<1>13. RequestsTyped'
  BY <1>5 DEF RequestsTyped
<1> QED BY <1>7, <1>10, <1>11, <1>12, <1>13

LEMMA CallTyped ==
  ASSUME IInv, Call
  PROVE  RegistryTyped' /\ RequestsTyped' /\ CallFacts' /\ UNCHANGED <<scheduler, stream>>
<1>0. RegistryTyped /\ RequestsTyped /\ CallFacts
  BY TypeParts DEF IInv
<1>1. \A p \in scope.procs : p \in Procs
  BY ScopeFacts DEF IInv
<1>2. \A i \in scope.ids : i \in Ids
  BY ScopeFacts DEF IInv
<1>3. /\ \A w \in scope.writers : w \in Writers
      /\ \A r \in scope.requests : r \in Requests
  BY ScopeFacts DEF IInv
<1>4. ASSUME NEW w \in Writers, NEW p \in Procs, NEW i \in Ids,
             CreateStart(w, p, i) \/ DeleteStart(w, p, i)
      PROVE  RegistryTyped' /\ RequestsTyped' /\ CallFacts' /\ UNCHANGED <<scheduler, stream>>
  <2>1. PICK row \in AdminRows :
          /\ row.proc = p /\ row.id = i /\ row.pc \in {"saving", "deleting"}
          /\ row.pc = "deleting" => row.ver = 0
          /\ admin' = [admin EXCEPT ![w] = row]
    <3> DEFINE a == [pc |-> "saving", proc |-> p, id |-> i, ver |-> clock + 1]
               b == [pc |-> "deleting", proc |-> p, id |-> i, ver |-> 0]
    <3>1. a \in AdminRows /\ b \in AdminRows
      BY <1>0 DEF AdminRows, AdminPcs, RegistryTyped
    <3>2. admin' = [admin EXCEPT ![w] = a] \/ admin' = [admin EXCEPT ![w] = b]
      BY <1>4 DEF CreateStart, DeleteStart
    <3> QED BY <3>1, <3>2
  <2>2. /\ clock' \in Nat
        /\ UNCHANGED <<redis, chan, listening, cache, excused, req, scheduler, stream>>
    BY <1>0, <1>4 DEF CreateStart, DeleteStart, RegistryTyped
  <2>3. admin \in [Writers -> AdminRows]
    BY <1>0 DEF RegistryTyped
  <2>4. admin' \in [Writers -> AdminRows]
    BY <2>1, <2>3
  <2>5. CallFacts'
    BY <1>0, <2>1, <2>2, <2>3 DEF CallFacts
  <2> QED BY <1>0, <2>2, <2>4, <2>5 DEF RegistryTyped, RequestsTyped
<1>5. ASSUME NEW r \in Requests, NEW p \in Procs, NEW i \in Ids, Arrive(r, p, i)
      PROVE  RegistryTyped' /\ RequestsTyped' /\ CallFacts' /\ UNCHANGED <<scheduler, stream>>
  <2> DEFINE row == [pc |-> IF cache[p][i] # 0 THEN "admit" ELSE "load",
                     proc |-> p, id |-> i, ver |-> cache[p][i]]
  <2>1. row \in RequestRows /\ row.pc # "idle" /\ row.proc = p /\ row.id = i
    BY <1>0 DEF RequestRows, Dispatched, RegistryTyped
  <2>2. req' = [req EXCEPT ![r] = row] /\ UNCHANGED <<registry, scheduler, stream>>
    BY <1>5 DEF Arrive
  <2> HIDE DEF row
  <2>3. UNCHANGED admin
    BY <2>2 DEF registry
  <2>4. RequestsTyped' /\ CallFacts'
    BY <1>0, <2>1, <2>2, <2>3, RequestMoves
  <2> QED BY <1>0, <2>2, <2>4 DEF registry, RegistryTyped
<1> QED BY <1>1, <1>2, <1>3, <1>4, <1>5 DEF Call

LEMMA YieldTyped ==
  ASSUME StreamTyped, Yield
  PROVE  /\ StreamTyped'
         /\ yielded' \o results' = yielded \o results
<1>1. Head(results) \in Stream /\ Tail(results) \in Seq(Stream) /\ results # << >>
  BY DEF StreamTyped, Yield
<1>2. StreamTyped'
  BY <1>1 DEF StreamTyped, Yield
<1>3. Append(yielded, Head(results)) \o Tail(results) = yielded \o results
  BY <1>1 DEF StreamTyped
<1> QED BY <1>2, <1>3 DEF Yield

LEMMA NextTyped ==
  ASSUME IInv, [Next]_vars
  PROVE  TypeOK' /\ CallFacts'
<1>0. scope \in Scopes /\ RegistryTyped /\ RequestsTyped /\ SchedulerTyped /\ StreamTyped
      /\ CallFacts
  BY TypeParts DEF IInv
<1> SUFFICES RegistryTyped' /\ RequestsTyped' /\ SchedulerTyped' /\ StreamTyped' /\ CallFacts'
             /\ UNCHANGED scope
  BY <1>0 DEF TypeOK, RegistryTyped, RequestsTyped, SchedulerTyped, StreamTyped, Events,
              AdminRows, RequestRows
<1>1. CASE Call /\ UNCHANGED scope
  BY <1>0, <1>1, CallTyped DEF scheduler, stream, SchedulerTyped, StreamTyped
<1>2. ASSUME NEW w \in Writers, AdminStep(w), UNCHANGED scope
      PROVE  RegistryTyped' /\ RequestsTyped' /\ SchedulerTyped' /\ StreamTyped' /\ CallFacts'
  BY <1>0, <1>2, AdminTyped DEF scheduler, stream, SchedulerTyped, StreamTyped, RequestsTyped
<1>3. ASSUME NEW r \in Requests, RequestStep(r) \/ Cancel(r), UNCHANGED scope
      PROVE  RegistryTyped' /\ RequestsTyped' /\ SchedulerTyped' /\ StreamTyped' /\ CallFacts'
  BY <1>3, RequestTyped
<1>4. ASSUME NEW p \in Procs, Subscribe(p) \/ Listen(p) \/ ListenerEnds(p), UNCHANGED scope
      PROVE  RegistryTyped' /\ RequestsTyped' /\ SchedulerTyped' /\ StreamTyped' /\ CallFacts'
  BY <1>0, <1>4, ProcessTyped DEF scheduler, stream, SchedulerTyped, StreamTyped, RequestsTyped
<1>5. ASSUME NEW p \in Procs, Crash(p), UNCHANGED scope
      PROVE  RegistryTyped' /\ RequestsTyped' /\ SchedulerTyped' /\ StreamTyped' /\ CallFacts'
  BY <1>0, <1>5, CrashTyped DEF stream, StreamTyped
<1>6. CASE Yield /\ UNCHANGED scope
  BY <1>0, <1>6, YieldTyped DEF Yield, registry, scheduler, RegistryTyped, SchedulerTyped,
                                RequestsTyped, CallFacts
<1>7. CASE UNCHANGED vars
  BY <1>0, <1>7 DEF vars, registry, scheduler, stream, RegistryTyped, SchedulerTyped,
                    StreamTyped, RequestsTyped, CallFacts
<1>8. \A p \in scope.procs : p \in Procs
  BY ScopeFacts DEF IInv
<1>9. UNCHANGED scope
  BY DEF Next, vars
<1> QED BY <1>1, <1>2, <1>3, <1>4, <1>5, <1>6, <1>7, <1>8, <1>9 DEF Next, Step

-----------------------------------------------------------------------------
(* The counters *)

OnlyRequest(r) ==
    /\ req'[r].proc = req[r].proc
    /\ \A s \in Requests \ {r} : req'[s] = req[s]

LEMMA AtMoves ==
  ASSUME NEW r \in Requests, \A s \in Requests \ {r} : req'[s] = req[s],
         NEW p, NEW pcs
  PROVE  /\ r \in At(p, pcs) /\ r \notin At(p, pcs)' =>
              /\ At(p, pcs)' = At(p, pcs) \ {r}
              /\ Cardinality(At(p, pcs)') = Cardinality(At(p, pcs)) - 1
         /\ r \notin At(p, pcs) /\ r \in At(p, pcs)' =>
              /\ At(p, pcs)' = At(p, pcs) \cup {r}
              /\ Cardinality(At(p, pcs)') = Cardinality(At(p, pcs)) + 1
         /\ (r \in At(p, pcs) <=> r \in At(p, pcs)') => At(p, pcs)' = At(p, pcs)
<1>1. IsFiniteSet(At(p, pcs)) /\ Cardinality(At(p, pcs)) \in Nat
  BY AtFinite
<1>2. CASE r \in At(p, pcs) /\ r \notin At(p, pcs)'
  <2>1. At(p, pcs)' = At(p, pcs) \ {r}
    BY <1>2 DEF At
  <2> QED BY <1>1, <1>2, <2>1, FS_RemoveElement
<1>3. CASE r \notin At(p, pcs) /\ r \in At(p, pcs)'
  <2>1. At(p, pcs)' = At(p, pcs) \cup {r}
    BY <1>3 DEF At
  <2> QED BY <1>1, <1>3, <2>1, FS_AddElement
<1>4. CASE r \in At(p, pcs) <=> r \in At(p, pcs)'
  BY <1>4 DEF At
<1> QED BY <1>2, <1>3, <1>4

\* A step that leaves the scheduler alone, of a request that neither waits nor
\* runs, before or after.
LEMMA CountsKept ==
  ASSUME IInv, NEW r \in Requests, \A s \in Requests \ {r} : req'[s] = req[s],
         req[r].pc \notin {"waiting", "running"}, req'[r].pc \notin {"waiting", "running"},
         UNCHANGED scheduler
  PROVE  QueueInv' /\ \A p \in Procs : CountsExact(p)'
<1>1. QueueInv'
  BY DEF IInv, QueueInv, scheduler
<1>2. ASSUME NEW p \in Procs PROVE CountsExact(p)'
  <2>1. /\ At(p, {"waiting", "running"})' = At(p, {"waiting", "running"})
        /\ At(p, {"running"})' = At(p, {"running"})
        /\ At(p, {"waiting"})' = At(p, {"waiting"})
    BY DEF At
  <2>2. CountsExact(p)
    BY DEF IInv, SchedulerExact
  <2> QED BY <2>1, <2>2 DEF CountsExact, scheduler
<1> QED BY <1>1, <1>2

\* The processes the request is not at.
LEMMA CountsElsewhere ==
  ASSUME IInv, NEW r \in Requests, OnlyRequest(r),
         NEW p \in Procs, p # req[r].proc,
         pending'[p] = pending[p], inflight'[p] = inflight[p], slots'[p] = slots[p],
         waiters'[p] = waiters[p]
  PROVE  CountsExact(p)' /\ Once(waiters[p])'
<1>1. /\ At(p, {"waiting", "running"})' = At(p, {"waiting", "running"})
      /\ At(p, {"running"})' = At(p, {"running"})
      /\ At(p, {"waiting"})' = At(p, {"waiting"})
  BY DEF At, OnlyRequest
<1>2. CountsExact(p) /\ Once(waiters[p])
  BY DEF IInv, SchedulerExact, QueueInv
<1>3. CountsExact(p)'
  BY <1>1, <1>2 DEF CountsExact
<1> QED BY <1>2, <1>3 DEF Once

LEMMA GotoOnly ==
  ASSUME IInv, NEW r \in Requests, NEW pc, Goto(r, pc)
  PROVE  OnlyRequest(r) /\ req'[r].pc = pc
<1>1. req \in [Requests -> RequestRows]
  BY TypeParts DEF IInv, RequestsTyped
<1>2. req[r] \in RequestRows
  BY <1>1
<1> QED BY <1>1, <1>2 DEF Goto, OnlyRequest, RequestRows

LEMMA AdmitCounts ==
  ASSUME IInv, NEW r \in Requests, Admit(r)
  PROVE  QueueInv' /\ \A p \in Procs : CountsExact(p)'
<1>1. PICK q \in Procs : q = req[r].proc /\ req[r].pc = "admit"
  BY DEF Admit, IInv, CallFacts
<1>2. CountsExact(q) /\ Once(waiters[q]) /\ SchedulerTyped /\ waiters[q] \in Seq(Requests)
  BY <1>1, TypeParts DEF IInv, SchedulerExact, QueueInv, SchedulerTyped
<1>3. CASE pending[q] >= Capacity
  <2>1. Goto(r, "rejected") /\ UNCHANGED scheduler
    BY <1>1, <1>3 DEF Admit, Leave
  <2>2. OnlyRequest(r) /\ req'[r].pc = "rejected"
    BY <2>1, GotoOnly
  <2> QED BY <1>1, <2>1, <2>2, CountsKept DEF OnlyRequest
<1>4. CASE ~ (pending[q] >= Capacity)
  <2>1. pending[q] < Capacity /\ pending[q] \in Nat /\ inflight[q] \in Nat /\ slots[q] \in Nat
    BY <1>1, <1>2, <1>4, FastAssumption DEF SchedulerTyped
  <2>2. PICK pc \in {"running", "waiting"} :
          /\ Goto(r, pc)
          /\ pending' = [pending EXCEPT ![q] = @ + 1]
          /\ IF pc = "running"
             THEN /\ slots[q] > 0 /\ UNCHANGED waiters
                  /\ slots' = [slots EXCEPT ![q] = @ - 1]
                  /\ inflight' = [inflight EXCEPT ![q] = @ + 1]
             ELSE /\ waiters' = [waiters EXCEPT ![q] = Append(@, r)]
                  /\ UNCHANGED <<slots, inflight>>
    BY <1>1, <1>4 DEF Admit
  <2>3. OnlyRequest(r) /\ req'[r].pc = pc
    BY <2>2, GotoOnly
  <2>4. ASSUME NEW p \in Procs, p # q PROVE CountsExact(p)' /\ Once(waiters[p])'
    <3>1. pending'[p] = pending[p] /\ inflight'[p] = inflight[p] /\ slots'[p] = slots[p]
          /\ waiters'[p] = waiters[p]
      BY <1>2, <2>2, <2>4 DEF SchedulerTyped
    <3> QED BY <1>1, <2>3, <2>4, <3>1, CountsElsewhere
  <2>5. /\ r \notin At(q, {"waiting", "running"}) /\ r \notin At(q, {"running"})
        /\ r \notin At(q, {"waiting"})
        /\ r \in At(q, {"waiting", "running"})'
        /\ r \in At(q, {"running"})' <=> pc = "running"
        /\ r \in At(q, {"waiting"})' <=> pc = "waiting"
    BY <1>1, <2>3 DEF At, OnlyRequest
  <2>6. /\ Cardinality(At(q, {"waiting", "running"})') = Cardinality(At(q, {"waiting", "running"})) + 1
        /\ Cardinality(At(q, {"running"})') = Cardinality(At(q, {"running"}))
                                                 + (IF pc = "running" THEN 1 ELSE 0)
        /\ At(q, {"waiting"})' = At(q, {"waiting"}) \cup (IF pc = "waiting" THEN {r} ELSE {})
    <3>1. \A s \in Requests \ {r} : req'[s] = req[s]
      BY <2>3 DEF OnlyRequest
    <3>2. Cardinality(At(q, {"running"})) \in Nat
      BY AtFinite
    <3>3. Cardinality(At(q, {"waiting", "running"})') = Cardinality(At(q, {"waiting", "running"})) + 1
      BY <2>5, <3>1, AtMoves
    <3>4. Cardinality(At(q, {"running"})') = Cardinality(At(q, {"running"}))
                                                + (IF pc = "running" THEN 1 ELSE 0)
      BY <2>5, <3>1, <3>2, AtMoves
    <3>5. At(q, {"waiting"})' = At(q, {"waiting"}) \cup (IF pc = "waiting" THEN {r} ELSE {})
      BY <2>5, <3>1, AtMoves
    <3> QED BY <3>3, <3>4, <3>5
  <2>7. /\ pending'[q] = pending[q] + 1
        /\ inflight'[q] = inflight[q] + (IF pc = "running" THEN 1 ELSE 0)
        /\ slots'[q] = slots[q] - (IF pc = "running" THEN 1 ELSE 0)
    BY <1>1, <1>2, <2>1, <2>2 DEF SchedulerTyped
  <2>8. /\ ToSet(waiters'[q]) = ToSet(waiters[q]) \cup (IF pc = "waiting" THEN {r} ELSE {})
        /\ Once(waiters'[q])
    <3>1. r \notin ToSet(waiters[q])
      BY <1>2, <2>5 DEF CountsExact
    <3>2. waiters'[q] = IF pc = "waiting" THEN Append(waiters[q], r) ELSE waiters[q]
      BY <1>1, <1>2, <2>2 DEF SchedulerTyped
    <3> QED BY <1>2, <3>1, <3>2, AppendOnce
  <2>9. pending'[q] <= Capacity
    BY <2>1, <2>7, FastAssumption
  <2>10. slots'[q] + inflight'[q] = Slots
    BY <1>2, <2>1, <2>7 DEF CountsExact
  <2>11. CountsExact(q)' /\ Once(waiters[q])'
    BY <1>2, <2>6, <2>7, <2>8, <2>9, <2>10 DEF CountsExact, Once
  <2> QED BY <2>4, <2>11 DEF QueueInv
<1> QED BY <1>3, <1>4

LEMMA AcquireCounts ==
  ASSUME IInv, NEW r \in Requests, Acquire(r)
  PROVE  QueueInv' /\ \A p \in Procs : CountsExact(p)'
<1>1. PICK q \in Procs : q = req[r].proc /\ req[r].pc = "waiting"
  BY DEF Acquire, IInv, CallFacts
<1>2. CountsExact(q) /\ Once(waiters[q]) /\ SchedulerTyped /\ waiters[q] \in Seq(Requests)
  BY <1>1, TypeParts DEF IInv, SchedulerExact, QueueInv, SchedulerTyped
<1>3. pending[q] \in Nat /\ inflight[q] \in Nat /\ slots[q] \in Nat /\ slots[q] > 0
  BY <1>1, <1>2 DEF SchedulerTyped, Acquire
<1>4. OnlyRequest(r) /\ req'[r].pc = "running"
  BY GotoOnly DEF Acquire
<1>5. /\ pending'[q] = pending[q] /\ inflight'[q] = inflight[q] + 1 /\ slots'[q] = slots[q] - 1
      /\ waiters'[q] = Tail(waiters[q]) /\ Head(waiters[q]) = r
  BY <1>1, <1>2 DEF Acquire, SchedulerTyped
<1>6. ASSUME NEW p \in Procs, p # q PROVE CountsExact(p)' /\ Once(waiters[p])'
  <2>1. pending'[p] = pending[p] /\ inflight'[p] = inflight[p] /\ slots'[p] = slots[p]
        /\ waiters'[p] = waiters[p]
    BY <1>1, <1>2, <1>6 DEF Acquire, SchedulerTyped
  <2> QED BY <1>1, <1>4, <1>6, <2>1, CountsElsewhere
<1>7. /\ r \in At(q, {"waiting", "running"}) /\ r \notin At(q, {"running"})
      /\ r \in At(q, {"waiting"})
      /\ r \in At(q, {"waiting", "running"})' /\ r \in At(q, {"running"})'
      /\ r \notin At(q, {"waiting"})'
  BY <1>1, <1>4 DEF At, OnlyRequest
<1>8. \A s \in Requests \ {r} : req'[s] = req[s]
  BY <1>4 DEF OnlyRequest
<1>9. At(q, {"waiting", "running"})' = At(q, {"waiting", "running"})
  BY <1>7, <1>8, AtMoves
<1>10. Cardinality(At(q, {"running"})') = Cardinality(At(q, {"running"})) + 1
  BY <1>7, <1>8, AtMoves
<1>11. At(q, {"waiting"})' = At(q, {"waiting"}) \ {r}
  BY <1>7, <1>8, AtMoves
<1>12. Once(waiters'[q]) /\ ToSet(waiters'[q]) = ToSet(waiters[q]) \ {r}
  <2>1. waiters[q] # << >>
    BY <1>2, <1>7 DEF CountsExact, ToSet
  <2> QED BY <1>2, <1>5, <2>1, TailOnce
<1>13. slots'[q] + inflight'[q] = Slots
  BY <1>2, <1>3, <1>5 DEF CountsExact
<1>14. CountsExact(q)' /\ Once(waiters[q])'
  BY <1>2, <1>5, <1>9, <1>10, <1>11, <1>12, <1>13 DEF CountsExact, Once
<1> QED BY <1>6, <1>14 DEF QueueInv

LEMMA LeaveQueueCounts ==
  ASSUME IInv, NEW r \in Requests, NEW pc \in Gone, LeaveQueue(r, pc)
  PROVE  QueueInv' /\ \A p \in Procs : CountsExact(p)'
<1>1. PICK q \in Procs : q = req[r].proc /\ req[r].pc = "waiting"
  BY DEF LeaveQueue, IInv, CallFacts
<1>2. CountsExact(q) /\ Once(waiters[q]) /\ SchedulerTyped /\ waiters[q] \in Seq(Requests)
  BY <1>1, TypeParts DEF IInv, SchedulerExact, QueueInv, SchedulerTyped
<1>3. pending[q] \in Nat /\ inflight[q] \in Nat /\ slots[q] \in Nat
  BY <1>1, <1>2 DEF SchedulerTyped
<1>4. OnlyRequest(r) /\ req'[r].pc = pc
  BY GotoOnly DEF LeaveQueue, Leave
<1>5. PICK k \in DOMAIN waiters[q] :
         waiters[q][k] = r /\ waiters' = [waiters EXCEPT ![q] = RemoveAt(@, k)]
  BY <1>1 DEF LeaveQueue
<1>6. /\ pending'[q] = pending[q] - 1 /\ inflight'[q] = inflight[q] /\ slots'[q] = slots[q]
      /\ waiters'[q] = RemoveAt(waiters[q], k)
  BY <1>1, <1>2, <1>5 DEF LeaveQueue, SchedulerTyped
<1>7. ASSUME NEW p \in Procs, p # q PROVE CountsExact(p)' /\ Once(waiters[p])'
  <2>1. pending'[p] = pending[p] /\ inflight'[p] = inflight[p] /\ slots'[p] = slots[p]
        /\ waiters'[p] = waiters[p]
    BY <1>1, <1>2, <1>5, <1>7 DEF LeaveQueue, SchedulerTyped
  <2> QED BY <1>1, <1>4, <1>7, <2>1, CountsElsewhere
<1>8. /\ r \in At(q, {"waiting", "running"}) /\ r \notin At(q, {"running"})
      /\ r \in At(q, {"waiting"})
      /\ r \notin At(q, {"waiting", "running"})' /\ r \notin At(q, {"running"})'
      /\ r \notin At(q, {"waiting"})'
  BY <1>1, <1>4 DEF At, OnlyRequest, Gone
<1>9. \A s \in Requests \ {r} : req'[s] = req[s]
  BY <1>4 DEF OnlyRequest
<1>10. Cardinality(At(q, {"waiting", "running"})') = Cardinality(At(q, {"waiting", "running"})) - 1
  BY <1>8, <1>9, AtMoves
<1>11. At(q, {"running"})' = At(q, {"running"})
  BY <1>8, <1>9, AtMoves
<1>12. At(q, {"waiting"})' = At(q, {"waiting"}) \ {r}
  BY <1>8, <1>9, AtMoves
<1>13. Once(waiters'[q]) /\ ToSet(waiters'[q]) = ToSet(waiters[q]) \ {r}
  BY <1>2, <1>5, <1>6, RemoveOnce
<1>14. pending'[q] <= Capacity
  BY <1>2, <1>3, <1>6, FastAssumption DEF CountsExact
<1>15. CountsExact(q)' /\ Once(waiters[q])'
  BY <1>2, <1>6, <1>10, <1>11, <1>12, <1>13, <1>14 DEF CountsExact, Once
<1> QED BY <1>7, <1>15 DEF QueueInv

LEMMA ReleaseCounts ==
  ASSUME IInv, NEW r \in Requests, NEW pc \in Gone, Release(r, pc)
  PROVE  QueueInv' /\ \A p \in Procs : CountsExact(p)'
<1>1. PICK q \in Procs : q = req[r].proc /\ req[r].pc = "running"
  BY DEF Release, IInv, CallFacts
<1>2. CountsExact(q) /\ Once(waiters[q]) /\ SchedulerTyped
  BY <1>1, TypeParts DEF IInv, SchedulerExact, QueueInv
<1>3. pending[q] \in Nat /\ inflight[q] \in Nat /\ slots[q] \in Nat
  BY <1>1, <1>2 DEF SchedulerTyped
<1>4. OnlyRequest(r) /\ req'[r].pc = pc
  BY GotoOnly DEF Release, Leave
<1>5. /\ pending'[q] = pending[q] - 1 /\ inflight'[q] = inflight[q] - 1 /\ slots'[q] = slots[q] + 1
      /\ waiters'[q] = waiters[q]
  BY <1>1, <1>2 DEF Release, SchedulerTyped
<1>6. ASSUME NEW p \in Procs, p # q PROVE CountsExact(p)' /\ Once(waiters[p])'
  <2>1. pending'[p] = pending[p] /\ inflight'[p] = inflight[p] /\ slots'[p] = slots[p]
        /\ waiters'[p] = waiters[p]
    BY <1>1, <1>2, <1>6 DEF Release, SchedulerTyped
  <2> QED BY <1>1, <1>4, <1>6, <2>1, CountsElsewhere
<1>7. /\ r \in At(q, {"waiting", "running"}) /\ r \in At(q, {"running"})
      /\ r \notin At(q, {"waiting"})
      /\ r \notin At(q, {"waiting", "running"})' /\ r \notin At(q, {"running"})'
      /\ r \notin At(q, {"waiting"})'
  BY <1>1, <1>4 DEF At, OnlyRequest, Gone
<1>8. \A s \in Requests \ {r} : req'[s] = req[s]
  BY <1>4 DEF OnlyRequest
<1>9. Cardinality(At(q, {"waiting", "running"})') = Cardinality(At(q, {"waiting", "running"})) - 1
  BY <1>7, <1>8, AtMoves
<1>10. Cardinality(At(q, {"running"})') = Cardinality(At(q, {"running"})) - 1
  BY <1>7, <1>8, AtMoves
<1>11. At(q, {"waiting"})' = At(q, {"waiting"})
  BY <1>7, <1>8, AtMoves
<1>12. pending'[q] <= Capacity /\ slots'[q] + inflight'[q] = Slots
  BY <1>2, <1>3, <1>5, FastAssumption DEF CountsExact
<1>13. CountsExact(q)' /\ Once(waiters[q])'
  BY <1>2, <1>5, <1>9, <1>10, <1>11, <1>12 DEF CountsExact, Once
<1> QED BY <1>6, <1>13 DEF QueueInv

LEMMA CrashCounts ==
  ASSUME IInv, NEW q \in Procs, Crash(q)
  PROVE  QueueInv' /\ \A p \in Procs : CountsExact(p)'
<1>1. SchedulerTyped /\ RequestsTyped
  BY TypeParts DEF IInv
<1>2. \A r \in Requests : /\ req'[r].proc = req[r].proc
                          /\ req'[r].pc = IF req[r].proc = q THEN "cancelled" ELSE req[r].pc
  BY <1>1 DEF Crash, RequestsTyped, RequestRows
<1>3. ASSUME NEW p \in Procs, p # q PROVE CountsExact(p)' /\ Once(waiters[p])'
  <2>1. pending'[p] = pending[p] /\ inflight'[p] = inflight[p] /\ slots'[p] = slots[p]
        /\ waiters'[p] = waiters[p]
    BY <1>1, <1>3 DEF Crash, SchedulerTyped
  <2>2. /\ At(p, {"waiting", "running"})' = At(p, {"waiting", "running"})
        /\ At(p, {"running"})' = At(p, {"running"})
        /\ At(p, {"waiting"})' = At(p, {"waiting"})
    BY <1>2, <1>3 DEF At
  <2>3. CountsExact(p) /\ Once(waiters[p])
    BY DEF IInv, SchedulerExact, QueueInv
  <2> QED BY <2>1, <2>2, <2>3 DEF CountsExact, Once
<1>4. CountsExact(q)' /\ Once(waiters[q])'
  <2>1. pending'[q] = 0 /\ inflight'[q] = 0 /\ slots'[q] = Slots /\ waiters'[q] = << >>
    BY <1>1 DEF Crash, SchedulerTyped
  <2>2. /\ At(q, {"waiting", "running"})' = {} /\ At(q, {"running"})' = {}
        /\ At(q, {"waiting"})' = {}
    BY <1>2 DEF At
  <2>3. Cardinality({}) = 0
    BY FS_EmptySet
  <2>4. ToSet(<< >>) = {} /\ Once(<< >>)
    BY DEF ToSet, Once
  <2>5. 0 <= Capacity /\ Slots + 0 = Slots
    BY FastAssumption
  <2>6. CountsExact(q)'
    BY <2>1, <2>2, <2>3, <2>4, <2>5 DEF CountsExact
  <2>7. Once(waiters[q])'
    BY <2>1, <2>4 DEF Once
  <2> QED BY <2>6, <2>7
<1> QED BY <1>3, <1>4 DEF QueueInv

\* The processes, the administrators and the clients leave the scheduler alone.
LEMMA CountsFrame ==
  ASSUME IInv, UNCHANGED <<req, scheduler>>
  PROVE  QueueInv' /\ \A p \in Procs : CountsExact(p)'
BY DEF IInv, QueueInv, SchedulerExact, CountsExact, At, scheduler

LEMMA CountsNext ==
  ASSUME IInv, [Next]_vars
  PROVE  QueueInv' /\ \A p \in Procs : CountsExact(p)'
<1>1. ASSUME NEW r \in Requests, NEW p, NEW i, Arrive(r, p, i)
      PROVE  QueueInv' /\ \A q \in Procs : CountsExact(q)'
  <2>1. req \in [Requests -> RequestRows]
    BY TypeParts DEF IInv, RequestsTyped
  <2>2. /\ \A s \in Requests \ {r} : req'[s] = req[s]
        /\ req[r].pc = "idle" /\ req'[r].pc \in {"admit", "load"} /\ UNCHANGED scheduler
    BY <1>1, <2>1 DEF Arrive
  <2> QED BY <2>2, CountsKept
<1>2. ASSUME NEW w \in Writers, AdminStep(w)
      PROVE  QueueInv' /\ \A q \in Procs : CountsExact(q)'
  BY <1>2, AdminTyped, CountsFrame
<1>3. ASSUME NEW r \in Requests, LoadLock(r) \/ RegistryGet(r) \/ InstallLoaded(r)
      PROVE  QueueInv' /\ \A q \in Procs : CountsExact(q)'
  <2>1. req \in [Requests -> RequestRows]
    BY TypeParts DEF IInv, RequestsTyped
  <2>2. req[r] \in RequestRows
    BY <2>1
  <2>3. UNCHANGED scheduler /\ req[r].pc \in {"load", "get", "install"}
    BY <1>3 DEF LoadLock, RegistryGet, InstallLoaded, Leave
  <2>4. PICK pc \in {"admit", "get", "not_found", "install"} :
          \E ver : req' = [req EXCEPT ![r].pc = pc, ![r].ver = ver]
                    \/ req' = [req EXCEPT ![r].pc = pc]
    BY <1>3 DEF LoadLock, RegistryGet, InstallLoaded, Leave, Goto
  <2>5. req'[r].pc = pc /\ \A s \in Requests \ {r} : req'[s] = req[s]
    BY <2>1, <2>2, <2>4 DEF RequestRows
  <2> QED BY <2>3, <2>5, CountsKept
<1>4. ASSUME NEW r \in Requests, RequestStep(r) \/ Cancel(r)
      PROVE  QueueInv' /\ \A q \in Procs : CountsExact(q)'
  <2>1. {"timeout", "answered", "cancelled"} \subseteq Gone
    BY DEF Gone
  <2>2. ASSUME Goto(r, "cancelled"), req[r].pc \in {"load", "get", "install"}, UNCHANGED scheduler
        PROVE  QueueInv' /\ \A q \in Procs : CountsExact(q)'
    BY <2>2, GotoOnly, CountsKept DEF OnlyRequest
  <2> QED BY <1>3, <1>4, <2>1, <2>2, AdmitCounts, AcquireCounts, LeaveQueueCounts, ReleaseCounts
          DEF RequestStep, Cancel, QueueTimeout, ExecuteDirect
<1>5. ASSUME NEW p \in Procs, Subscribe(p) \/ Listen(p) \/ ListenerEnds(p)
      PROVE  QueueInv' /\ \A q \in Procs : CountsExact(q)'
  BY <1>5, ProcessTyped, CountsFrame
<1>6. ASSUME NEW p \in Procs, Crash(p)
      PROVE  QueueInv' /\ \A q \in Procs : CountsExact(q)'
  BY <1>6, CrashCounts
<1>7. ASSUME UNCHANGED <<req, scheduler>>
      PROVE  QueueInv' /\ \A q \in Procs : CountsExact(q)'
  BY <1>7, CountsFrame
<1>8. \A p \in scope.procs : p \in Procs
  BY ScopeFacts DEF IInv
<1>9. \A r \in scope.requests : r \in Requests
  BY ScopeFacts DEF IInv
<1>10. CASE Call
  <2>1. ASSUME NEW w, NEW p, NEW i, CreateStart(w, p, i) \/ DeleteStart(w, p, i)
        PROVE  UNCHANGED <<req, scheduler>>
    BY <2>1 DEF CreateStart, DeleteStart
  <2> QED BY <1>1, <1>7, <1>9, <1>10, <2>1 DEF Call
<1>11. CASE Step
  <2>1. Yield => UNCHANGED <<req, scheduler>>
    BY DEF Yield
  <2> QED BY <1>2, <1>4, <1>5, <1>6, <1>7, <1>8, <1>11, <2>1 DEF Step
<1>12. UNCHANGED vars => UNCHANGED <<req, scheduler>>
  BY DEF vars
<1> QED BY <1>7, <1>10, <1>11, <1>12 DEF Next

-----------------------------------------------------------------------------
(* The stream *)

LEMMA StreamFrame ==
  ASSUME IInv, StreamTyped', yielded' \o results' = yielded \o results,
         \A r \in Stream : req'[r].pc \in Gone <=> req[r].pc \in Gone
  PROVE  StreamOnce'
BY DEF IInv, SchedulerExact, StreamOnce

\* The result of an event that ends is put at the end of the queue.
LEMMA StreamLeave ==
  ASSUME IInv, NEW r \in Requests, NEW pc \in Gone, Leave(r, pc), req[r].pc \notin Gone
  PROVE  StreamOnce'
<1>1. OnlyRequest(r) /\ req'[r].pc = pc
  BY GotoOnly DEF Leave
<1>2. StreamOnce /\ StreamTyped
  BY TypeParts DEF IInv, SchedulerExact
<1>3. CASE r \notin Stream
  <2>1. UNCHANGED <<results, yielded>>
    BY <1>3 DEF Leave
  <2>2. \A s \in Stream : req'[s] = req[s]
    BY <1>1, <1>3, FastAssumption DEF OnlyRequest
  <2> QED BY <1>2, <2>1, <2>2 DEF StreamOnce
<1>4. CASE r \in Stream
  <2> DEFINE all == yielded \o results
  <2>1. all \in Seq(Stream) /\ Once(all) /\ ToSet(all) = {t \in Stream : req[t].pc \in Gone}
    BY <1>2 DEF StreamOnce, StreamTyped, Once
  <2>2. r \notin ToSet(all)
    BY <2>1
  <2>3. yielded' \o results' = Append(all, r)
    BY <1>2, <1>4 DEF Leave, StreamTyped
  <2> HIDE DEF all
  <2>4. Once(Append(all, r)) /\ ToSet(Append(all, r)) = ToSet(all) \cup {r}
    BY <1>4, <2>1, <2>2, AppendOnce
  <2>5. {t \in Stream : req'[t].pc \in Gone} = {t \in Stream : req[t].pc \in Gone} \cup {r}
    BY <1>1, <1>4, FastAssumption DEF OnlyRequest
  <2> QED BY <2>1, <2>3, <2>4, <2>5 DEF StreamOnce, Once
<1> QED BY <1>3, <1>4

LEMMA StreamNext ==
  ASSUME IInv, [Next]_vars
  PROVE  StreamOnce'
<1>0. RequestsTyped /\ StreamTyped /\ CallFacts /\ StreamOnce
  BY TypeParts DEF IInv, SchedulerExact
<1>1. ASSUME UNCHANGED stream, \A r \in Stream : req'[r].pc \in Gone <=> req[r].pc \in Gone
      PROVE  StreamOnce'
  BY <1>0, <1>1 DEF StreamOnce, stream
<1>2. ASSUME UNCHANGED <<req, stream>> PROVE StreamOnce'
  BY <1>1, <1>2
<1>3. ASSUME NEW r \in Requests, NEW p, NEW i, Arrive(r, p, i)
      PROVE  StreamOnce'
  <2>1. /\ \A s \in Requests \ {r} : req'[s] = req[s]
        /\ req[r].pc = "idle" /\ req'[r].pc \in {"admit", "load"} /\ UNCHANGED stream
    BY <1>0, <1>3 DEF Arrive, RequestsTyped
  <2> QED BY <1>1, <2>1, FastAssumption DEF Gone
<1>4. ASSUME NEW r \in Requests, NEW pc, NEW ver, UNCHANGED stream,
             req[r].pc \notin Gone, pc \notin Gone,
             req' = [req EXCEPT ![r].pc = pc, ![r].ver = ver] \/ Goto(r, pc)
      PROVE  StreamOnce'
  <2>1. req[r] \in RequestRows
    BY <1>0 DEF RequestsTyped
  <2>2. \A s \in Requests \ {r} : req'[s] = req[s]
    BY <1>0, <1>4 DEF Goto, RequestsTyped
  <2>3. req'[r].pc = pc
    BY <1>0, <1>4, <2>1 DEF Goto, RequestsTyped, RequestRows
  <2> QED BY <1>1, <1>4, <2>2, <2>3, FastAssumption
<1>5. ASSUME NEW r \in Requests, RequestStep(r) \/ Cancel(r)
      PROVE  StreamOnce'
  <2>1. req[r].pc \notin Gone
    BY <1>5 DEF RequestStep, Cancel, LoadLock, RegistryGet, InstallLoaded, Admit, Acquire,
                QueueTimeout, ExecuteDirect, LeaveQueue, Release, Gone
  <2>2. CASE \E pc \in Gone : Leave(r, pc)
    BY <2>1, <2>2, StreamLeave
  <2>3. CASE /\ UNCHANGED stream
             /\ \E pc \in Dispatched, ver \in Nat :
                   req' = [req EXCEPT ![r].pc = pc, ![r].ver = ver] \/ Goto(r, pc)
    BY <1>4, <2>1, <2>3 DEF Dispatched, Gone
  <2>4. CASE Goto(r, "cancelled") /\ r \notin Stream /\ UNCHANGED stream
    <3>1. OnlyRequest(r)
      BY <2>4, GotoOnly
    <3> QED BY <1>1, <2>4, <3>1, FastAssumption DEF OnlyRequest
  <2>5. CASE LoadLock(r)
    <3>1. UNCHANGED stream /\ {"admit", "get"} \subseteq Dispatched
      BY <2>5 DEF LoadLock, Dispatched
    <3>2. \/ Goto(r, "get")
          \/ \E ver \in Nat : req' = [req EXCEPT ![r].pc = "admit", ![r].ver = ver]
      <4>1. req[r].pc # "idle"
        BY <2>5 DEF LoadLock
      <4>2. cache[req[r].proc][req[r].id] \in Nat
        BY <1>0, <4>1, TypeParts DEF IInv, CallFacts, RegistryTyped
      <4> QED BY <2>5, <4>2 DEF LoadLock
    <3> QED BY <2>3, <3>1, <3>2
  <2>6. CASE RegistryGet(r)
    <3>1. "install" \in Dispatched /\ "not_found" \in Gone
      BY DEF Dispatched, Gone
    <3>2. CASE redis[req[r].id] = 0
      BY <2>2, <2>6, <3>1, <3>2 DEF RegistryGet
    <3>3. CASE redis[req[r].id] # 0
      <4>1. req[r].pc # "idle"
        BY <2>6 DEF RegistryGet
      <4>2. redis[req[r].id] \in Nat
        BY <1>0, <4>1, TypeParts DEF IInv, CallFacts, RegistryTyped
      <4> QED BY <2>3, <2>6, <3>1, <3>3, <4>2 DEF RegistryGet
    <3> QED BY <3>2, <3>3
  <2>7. CASE InstallLoaded(r) \/ Acquire(r)
    BY <2>3, <2>7 DEF InstallLoaded, Acquire, Dispatched
  <2>8. CASE Admit(r)
    <3>1. \/ Leave(r, "rejected")
          \/ UNCHANGED stream /\ (Goto(r, "running") \/ Goto(r, "waiting"))
      BY <2>8 DEF Admit
    <3> QED BY <2>2, <2>3, <3>1 DEF Dispatched, Gone
  <2>9. CASE QueueTimeout(r) \/ ExecuteDirect(r)
    BY <2>2, <2>9 DEF QueueTimeout, ExecuteDirect, LeaveQueue, Release, Gone
  <2>10. CASE Cancel(r)
    BY <2>2, <2>4, <2>10 DEF Cancel, LeaveQueue, Release, Gone
  <2> QED BY <1>5, <2>5, <2>6, <2>7, <2>8, <2>9, <2>10 DEF RequestStep
<1>6. ASSUME NEW p \in Procs, Crash(p)
      PROVE  StreamOnce'
  <2>1. \A r \in Stream : req'[r] = req[r]
    BY <1>0, <1>6, FastAssumption DEF Crash, RequestsTyped
  <2>2. UNCHANGED stream
    BY <1>6 DEF Crash
  <2> QED BY <1>1, <2>1, <2>2
<1>7. CASE Yield
  <2>1. UNCHANGED req
    BY <1>7 DEF Yield
  <2> QED BY <1>0, <1>7, <2>1, YieldTyped, StreamFrame
<1>8. ASSUME NEW w \in Writers, AdminStep(w)
      PROVE  StreamOnce'
  BY <1>2, <1>8, AdminTyped
<1>9. ASSUME NEW p \in Procs, Subscribe(p) \/ Listen(p) \/ ListenerEnds(p)
      PROVE  StreamOnce'
  BY <1>2, <1>9, ProcessTyped
<1>10. \A p \in scope.procs : p \in Procs
  BY ScopeFacts DEF IInv
<1>11. \A r \in scope.requests : r \in Requests
  BY ScopeFacts DEF IInv
<1>12. CASE Call
  <2>1. ASSUME NEW w, NEW p, NEW i, CreateStart(w, p, i) \/ DeleteStart(w, p, i)
        PROVE  UNCHANGED <<req, stream>>
    BY <2>1 DEF CreateStart, DeleteStart
  <2> QED BY <1>2, <1>3, <1>11, <1>12, <2>1 DEF Call
<1>13. UNCHANGED vars => UNCHANGED <<req, stream>>
  BY DEF vars
<1> QED BY <1>2, <1>5, <1>6, <1>7, <1>8, <1>9, <1>10, <1>12, <1>13 DEF Next, Step


-----------------------------------------------------------------------------
(* The copies *)

OnTheWay(p, i) == \E k \in DOMAIN chan[p] : chan[p][k].id = i /\ chan[p][k].from # p

\* The call will publish the change, or replace the copy.
Covers(a, p, i) ==
    /\ a.id = i
    /\ \/ a.pc = "deleted"
       \/ a.proc = p /\ a.pc \in {"saved", "unanswered", "published"}

Covered(p, i) == \E w \in Writers : Covers(admin[w], p, i)

Explained(p, i) ==
    \/ cache[p][i] \in {0, redis[i]}
    \/ <<p, i>> \in excused
    \/ OnTheWay(p, i)
    \/ Covered(p, i)

LEMMA CopiesParts ==
  CopiesExplained <=> \A p \in Procs, i \in Ids : Explained(p, i)
BY DEF CopiesExplained, Explained, OnTheWay, Covered, Covers, Cached

LEMMA CopiesPartsNext ==
  CopiesExplained' <=> \A p \in Procs, i \in Ids : Explained(p, i)'
BY DEF CopiesExplained, Explained, OnTheWay, Covered, Covers, Cached

\* A copy that is left alone stays explained while its explanation does.
LEMMA CopyKept ==
  ASSUME NEW p, NEW i, Explained(p, i),
         cache'[p][i] = cache[p][i] \/ cache'[p][i] = 0, redis'[i] = redis[i],
         <<p, i>> \in excused => <<p, i>> \in excused',
         OnTheWay(p, i) => OnTheWay(p, i)' \/ <<p, i>> \in excused' \/ cache[p][i] = 0,
         Covered(p, i) => Covered(p, i)' \/ <<p, i>> \in excused' \/ cache[p][i] = 0
  PROVE  Explained(p, i)'
BY DEF Explained

LEMMA AppendTravels ==
  ASSUME NEW p \in Procs, NEW s \in Seq(Events), NEW e \in Events, chan[p] = s,
         chan'[p] = Append(s, e)
  PROVE  /\ \A i : OnTheWay(p, i) => OnTheWay(p, i)'
         /\ e.from # p => OnTheWay(p, e.id)'
<1>1. Len(Append(s, e)) = Len(s) + 1 /\ DOMAIN Append(s, e) = 1 .. (Len(s) + 1)
      /\ DOMAIN s = 1 .. Len(s) /\ Len(s) \in Nat
  OBVIOUS
<1>2. \A k \in DOMAIN s : k \in DOMAIN Append(s, e) /\ Append(s, e)[k] = s[k]
  BY <1>1
<1>3. Len(s) + 1 \in DOMAIN Append(s, e) /\ Append(s, e)[Len(s) + 1] = e
  BY <1>1
<1> QED BY <1>2, <1>3 DEF OnTheWay

LEMMA TailTravels ==
  ASSUME NEW p \in Procs, NEW s \in Seq(Events), s # << >>, chan[p] = s, chan'[p] = Tail(s),
         NEW i, Head(s).id # i \/ Head(s).from = p, OnTheWay(p, i)
  PROVE  OnTheWay(p, i)'
<1>1. PICK k \in DOMAIN s : s[k].id = i /\ s[k].from # p
  BY DEF OnTheWay
<1>2. Head(s) = s[1] /\ DOMAIN s = 1 .. Len(s) /\ Len(s) \in Nat
  OBVIOUS
<1>3. k \in 2 .. Len(s)
  BY <1>1, <1>2
<1>4. k - 1 \in DOMAIN Tail(s) /\ Tail(s)[k - 1] = s[k]
  BY <1>2, <1>3
<1> QED BY <1>1, <1>4 DEF OnTheWay

\* What PUBLISH does to the copies: each of the other processes has the event
\* on its way, has no copy, or is told apart.
LEMMA PublishCopies ==
  ASSUME RegistryTyped, NEW p \in Procs, NEW i \in Ids, Publish(i, p)
  PROVE  /\ excused \subseteq excused'
         /\ \A q \in Procs, j \in Ids : OnTheWay(q, j) => OnTheWay(q, j)'
         /\ \A q \in Procs \ {p} : \/ OnTheWay(q, i)' \/ <<q, i>> \in excused'
                                   \/ cache[q][i] = 0
<1> DEFINE ev == [id |-> i, from |-> p]
<1>1. chan' = [q \in Procs |-> IF listening[q] THEN Append(chan[q], ev) ELSE chan[q]]
  BY DEF Publish
<1>2. ev \in Events /\ ev.id = i /\ ev.from = p
  BY DEF Events
<1> HIDE DEF ev
<1>3. excused \subseteq excused'
      /\ \A q \in Procs \ {p} : ~ listening[q] /\ cache[q][i] # 0 => <<q, i>> \in excused'
  BY DEF Publish
<1>4. \A q \in Procs : chan[q] \in Seq(Events)
  BY DEF RegistryTyped
<1>5. ASSUME NEW q \in Procs, listening[q]
      PROVE  /\ \A j : OnTheWay(q, j) => OnTheWay(q, j)'
             /\ q # p => OnTheWay(q, i)'
  <2>1. chan'[q] = Append(chan[q], ev)
    BY <1>1, <1>5
  <2> QED BY <1>2, <1>4, <2>1, AppendTravels
<1>6. ASSUME NEW q \in Procs, ~ listening[q]
      PROVE  \A j : OnTheWay(q, j) => OnTheWay(q, j)'
  BY <1>1, <1>6 DEF OnTheWay
<1> QED BY <1>3, <1>5, <1>6

\* An install makes its copy the stored profile, or says that it is not, and
\* drops or leaves the others.
LEMMA InstallCopies ==
  ASSUME RegistryTyped, CopiesExplained, NEW p \in Procs, NEW i \in Ids, NEW v \in Nat,
         Install(p, i, v), UNCHANGED <<redis, chan>>,
         \A q \in Procs, j \in Ids : Covered(q, j) => Covered(q, j)' \/ (q = p /\ j = i)
  PROVE  CopiesExplained'
<1> DEFINE victim == IF cache[p][i] = 0 /\ Cardinality(Cached(p)) >= Limit
                     THEN {Oldest(p)} ELSE {}
           row == [j \in Ids |-> IF j = i THEN v ELSE IF j \in victim THEN 0 ELSE cache[p][j]]
<1>1. cache' = [cache EXCEPT ![p] = row]
  BY DEF Install, RegistryTyped
<1>2. excused' = (excused \ {<<p, j>> : j \in victim \cup {i}})
                    \cup (IF v = redis[i] THEN {} ELSE {<<p, i>>})
  BY DEF Install
<1>3. cache'[p] = row /\ \A q \in Procs \ {p} : cache'[q] = cache[q]
  BY <1>1 DEF RegistryTyped
<1>4. row[i] = v /\ \A j \in Ids \ {i} : row[j] = IF j \in victim THEN 0 ELSE cache[p][j]
  OBVIOUS
<1> HIDE DEF row, victim
<1>5. ASSUME NEW q \in Procs, NEW j \in Ids PROVE Explained(q, j)'
  <2>1. Explained(q, j)
    BY CopiesParts
  <2>2. redis'[j] = redis[j] /\ (OnTheWay(q, j) => OnTheWay(q, j)')
    BY DEF OnTheWay
  <2>3. CASE q = p /\ j = i
    BY <1>2, <1>3, <1>4, <2>2, <2>3 DEF Explained
  <2>4. CASE q = p /\ j # i /\ j \in victim
    BY <1>3, <1>4, <2>4 DEF Explained
  <2>5. CASE q # p \/ (j # i /\ j \notin victim)
    <3>1. <<q, j>> \in excused => <<q, j>> \in excused'
      BY <1>2, <2>5
    <3>2. cache'[q][j] = cache[q][j]
      BY <1>3, <1>4, <2>5
    <3>3. Covered(q, j) => Covered(q, j)' \/ cache[q][j] = 0
      BY <1>4, <2>5, CopiesParts
    <3> QED BY <2>1, <2>2, <3>1, <3>2, <3>3, CopyKept
  <2> QED BY <2>3, <2>4, <2>5
<1> QED BY <1>5, CopiesPartsNext

\* A call that moves covers what it covers after the step.
LEMMA CoveredByOthers ==
  ASSUME NEW w \in Writers, \A v \in Writers \ {w} : admin'[v] = admin[v],
         NEW p, NEW i, Covered(p, i), ~ Covers(admin[w], p, i) \/ Covers(admin'[w], p, i)
  PROVE  Covered(p, i)'
BY DEF Covered, Covers

LEMMA AdminCopies ==
  ASSUME IInv, NEW w \in Writers, AdminStep(w)
  PROVE  CopiesExplained'
<1> DEFINE a == admin[w]
<1>0. RegistryTyped /\ CallFacts /\ CopiesExplained
  BY TypeParts DEF IInv
<1>1. a \in AdminRows
  BY <1>0 DEF RegistryTyped
<1>2. a.pc # "idle" => a.proc \in Procs /\ a.id \in Ids /\ a.ver \in Nat
  BY <1>0, <1>1 DEF CallFacts, AdminRows
<1>3. \A q \in Procs, j \in Ids : Explained(q, j)
  BY <1>0, CopiesParts
<1>4. ASSUME NEW pc, admin' = [admin EXCEPT ![w].pc = pc]
      PROVE  /\ \A v \in Writers \ {w} : admin'[v] = admin[v]
             /\ admin'[w].pc = pc /\ admin'[w].proc = a.proc /\ admin'[w].id = a.id
  BY <1>0, <1>1, <1>4 DEF RegistryTyped, AdminRows
<1>5. CASE Save(w)
  <2>1. PICK pc \in {"saved", "unanswered"} : admin' = [admin EXCEPT ![w].pc = pc]
    BY <1>5 DEF Save
  <2>2. /\ a.pc = "saving" /\ Publish(a.id, a.proc) /\ UNCHANGED cache
        /\ redis' = [redis EXCEPT ![a.id] = a.ver]
    BY <1>5 DEF Save
  <2>3. PICK p \in Procs, i \in Ids : p = a.proc /\ i = a.id
    BY <1>2, <2>2
  <2>4. /\ \A v \in Writers \ {w} : admin'[v] = admin[v]
        /\ admin'[w].pc = pc /\ admin'[w].proc = a.proc /\ admin'[w].id = a.id
    BY <1>4, <2>1
  <2>5. /\ excused \subseteq excused'
        /\ \A q \in Procs, j \in Ids : OnTheWay(q, j) => OnTheWay(q, j)'
        /\ \A q \in Procs \ {p} : \/ OnTheWay(q, i)' \/ <<q, i>> \in excused'
                                       \/ cache[q][i] = 0
    BY <1>0, <2>2, <2>3, PublishCopies
  <2>6. ASSUME NEW q \in Procs, NEW j \in Ids PROVE Explained(q, j)'
    <3>1. CASE j = i /\ q = p
      BY <2>1, <2>3, <2>4, <3>1 DEF Explained, Covered, Covers
    <3>2. CASE j = i /\ q # p
      BY <2>2, <2>5, <3>2 DEF Explained
    <3>3. CASE j # i
      <4>1. redis'[j] = redis[j]
        BY <1>0, <2>2, <2>3, <3>3 DEF RegistryTyped
      <4>2. Covered(q, j) => Covered(q, j)'
        BY <2>2, <2>3, <2>4, <3>3, CoveredByOthers DEF Covers
      <4>3. cache'[q][j] = cache[q][j]
        BY <2>2
      <4> QED BY <1>3, <2>5, <4>1, <4>2, <4>3, CopyKept
    <3> QED BY <3>1, <3>2, <3>3
  <2> QED BY <2>6, CopiesPartsNext
<1>6. CASE AdminFails(w)
  <2>1. /\ a.pc \in {"saving", "unanswered", "deleting", "deleted"}
        /\ admin' = [admin EXCEPT ![w].pc = "done"] /\ UNCHANGED <<redis, chan, cache>>
    BY <1>6 DEF AdminFails
  <2>2. /\ excused \subseteq excused'
        /\ a.pc = "unanswered" /\ cache[a.proc][a.id] # 0 => <<a.proc, a.id>> \in excused'
        /\ a.pc = "deleted" =>
             \A q \in Procs : cache[q][a.id] # 0 => <<q, a.id>> \in excused'
    BY <1>6 DEF AdminFails
  <2>4. \A v \in Writers \ {w} : admin'[v] = admin[v]
    BY <1>4, <2>1
  <2>5. a.pc = "unanswered" => a.proc \in Procs
    BY <1>2
  <2>6. ASSUME NEW q \in Procs, NEW j \in Ids PROVE Explained(q, j)'
    <3>1. Covered(q, j) => Covered(q, j)' \/ <<q, j>> \in excused' \/ cache[q][j] = 0
      <4>1. Covers(a, q, j) => <<q, j>> \in excused' \/ cache[q][j] = 0
        BY <2>1, <2>2 DEF Covers
      <4> QED BY <2>4, <4>1, CoveredByOthers
    <3>2. OnTheWay(q, j) => OnTheWay(q, j)'
      BY <2>1 DEF OnTheWay
    <3> QED BY <1>3, <2>1, <2>2, <3>1, <3>2, CopyKept
  <2> QED BY <2>6, CopiesPartsNext
<1>7. CASE CreateEnd(w)
  <2>1. /\ a.pc = "saved" /\ Install(a.proc, a.id, a.ver) /\ UNCHANGED <<redis, chan>>
        /\ admin' = [admin EXCEPT ![w].pc = "done"]
    BY <1>7 DEF CreateEnd
  <2>2. \A v \in Writers \ {w} : admin'[v] = admin[v]
    BY <1>4, <2>1
  <2>3. ASSUME NEW q \in Procs, NEW j \in Ids, Covered(q, j)
        PROVE  Covered(q, j)' \/ (q = a.proc /\ j = a.id)
    BY <2>1, <2>2, <2>3, CoveredByOthers DEF Covers
  <2>4. a.proc \in Procs /\ a.id \in Ids /\ a.ver \in Nat
    BY <1>2, <2>1
  <2> HIDE DEF a
  <2> QED BY <1>0, <2>1, <2>3, <2>4, InstallCopies
<1>8. CASE Hdel(w)
  <2>1. /\ a.pc = "deleting" /\ redis' = [redis EXCEPT ![a.id] = 0]
        /\ admin' = [admin EXCEPT ![w].pc = IF redis[a.id] # 0 THEN "deleted" ELSE "published"]
        /\ UNCHANGED <<chan, cache, excused>>
    BY <1>8 DEF Hdel
  <2>2. /\ \A v \in Writers \ {w} : admin'[v] = admin[v]
        /\ admin'[w].pc = IF redis[a.id] # 0 THEN "deleted" ELSE "published"
        /\ admin'[w].id = a.id
    BY <1>4, <2>1
  <2>3. ASSUME NEW q \in Procs, NEW j \in Ids PROVE Explained(q, j)'
    <3>1. CASE j = a.id /\ redis[j] # 0
      BY <2>2, <2>3, <3>1 DEF Explained, Covered, Covers
    <3>2. CASE j # a.id \/ redis[j] = 0
      <4>1. redis'[j] = redis[j]
        BY <1>0, <2>1, <3>2 DEF RegistryTyped
      <4>2. Covered(q, j) => Covered(q, j)'
        BY <2>1, <2>2, CoveredByOthers DEF Covers
      <4>3. OnTheWay(q, j) => OnTheWay(q, j)'
        BY <2>1 DEF OnTheWay
      <4>4. cache'[q][j] = cache[q][j]
        BY <2>1
      <4> QED BY <1>3, <2>1, <4>1, <4>2, <4>3, <4>4, CopyKept
    <3> QED BY <3>1, <3>2
  <2> QED BY <2>3, CopiesPartsNext
<1>9. CASE PublishDelete(w)
  <2>1. /\ a.pc = "deleted" /\ Publish(a.id, a.proc) /\ UNCHANGED <<redis, cache>>
        /\ admin' = [admin EXCEPT ![w].pc = "published"]
    BY <1>9 DEF PublishDelete
  <2>2. /\ \A v \in Writers \ {w} : admin'[v] = admin[v]
        /\ admin'[w].pc = "published" /\ admin'[w].proc = a.proc /\ admin'[w].id = a.id
    BY <1>4, <2>1
  <2>3. PICK p \in Procs, i \in Ids : p = a.proc /\ i = a.id
    BY <1>2, <2>1
  <2>5. /\ excused \subseteq excused'
        /\ \A q \in Procs, j \in Ids : OnTheWay(q, j) => OnTheWay(q, j)'
        /\ \A q \in Procs \ {p} : \/ OnTheWay(q, i)' \/ <<q, i>> \in excused'
                                       \/ cache[q][i] = 0
    BY <1>0, <2>1, <2>3, PublishCopies
  <2>6. ASSUME NEW q \in Procs, NEW j \in Ids PROVE Explained(q, j)'
    <3>1. CASE j = i /\ q = p
      BY <2>2, <2>3, <3>1 DEF Explained, Covered, Covers
    <3>2. CASE j = i /\ q # p
      BY <2>1, <2>5, <3>2 DEF Explained
    <3>3. CASE j # i
      <4>1. Covered(q, j) => Covered(q, j)'
        BY <2>1, <2>2, <2>3, <3>3, CoveredByOthers DEF Covers
      <4> QED BY <1>3, <2>1, <2>5, <4>1, CopyKept
    <3> QED BY <3>1, <3>2, <3>3
  <2> QED BY <2>6, CopiesPartsNext
<1>10. CASE DeleteEnd(w)
  <2>1. /\ a.pc = "published" /\ Pop(a.proc, a.id) /\ UNCHANGED <<redis, chan>>
        /\ admin' = [admin EXCEPT ![w].pc = "done"]
    BY <1>10 DEF DeleteEnd
  <2>2. \A v \in Writers \ {w} : admin'[v] = admin[v]
    BY <1>4, <2>1
  <2>3. a.proc \in Procs /\ a.id \in Ids
    BY <1>2, <2>1
  <2>4. ASSUME NEW q \in Procs, NEW j \in Ids PROVE Explained(q, j)'
    <3>1. CASE q = a.proc /\ j = a.id
      <4>1. cache'[q][j] = 0
        BY <1>0, <2>1, <3>1 DEF Pop, RegistryTyped
      <4> QED BY <4>1 DEF Explained
    <3>2. CASE ~ (q = a.proc /\ j = a.id)
      <4>1. cache'[q][j] = cache[q][j]
        BY <1>0, <2>1, <2>3, <3>2 DEF Pop, RegistryTyped
      <4>2. Covered(q, j) => Covered(q, j)'
        BY <2>1, <2>2, <3>2, CoveredByOthers DEF Covers
      <4>3. OnTheWay(q, j) => OnTheWay(q, j)'
        BY <2>1 DEF OnTheWay
      <4>4. <<q, j>> \in excused => <<q, j>> \in excused'
        BY <2>1, <3>2 DEF Pop
      <4>5. redis'[j] = redis[j]
        BY <2>1
      <4> QED BY <1>3, <4>1, <4>2, <4>3, <4>4, <4>5, CopyKept
    <3> QED BY <3>1, <3>2
  <2> QED BY <2>4, CopiesPartsNext
<1> QED BY <1>5, <1>6, <1>7, <1>8, <1>9, <1>10 DEF AdminStep

LEMMA ProcessCopies ==
  ASSUME IInv, NEW p \in Procs, Subscribe(p) \/ Listen(p) \/ ListenerEnds(p)
  PROVE  CopiesExplained'
<1>0. RegistryTyped /\ \A q \in Procs, j \in Ids : Explained(q, j)
  BY TypeParts, CopiesParts DEF IInv
<1>1. \A q, j : Covered(q, j) => Covered(q, j)'
  BY DEF Subscribe, Listen, ListenerEnds, Covered
<1>2. UNCHANGED redis
  BY DEF Subscribe, Listen, ListenerEnds
<1>3. CASE Subscribe(p)
  <2>1. UNCHANGED <<cache, excused, chan>>
    BY <1>3 DEF Subscribe
  <2>2. \A q, j : OnTheWay(q, j) => OnTheWay(q, j)'
    BY <2>1 DEF OnTheWay
  <2> QED BY <1>0, <1>1, <1>2, <2>1, <2>2, CopyKept, CopiesPartsNext
<1>4. CASE Listen(p)
  <2>1. chan[p] \in Seq(Events) /\ chan[p] # << >> /\ chan' = [chan EXCEPT ![p] = Tail(@)]
    BY <1>0, <1>4 DEF Listen, RegistryTyped
  <2>2. chan'[p] = Tail(chan[p]) /\ \A q \in Procs \ {p} : chan'[q] = chan[q]
    BY <1>0, <2>1 DEF RegistryTyped
  <2>3. Head(chan[p]) \in Events
    BY <2>1
  <2>4. Head(chan[p]).from = p => UNCHANGED <<cache, excused>>
    BY <1>4 DEF Listen
  <2>5. Head(chan[p]).from # p => Pop(p, Head(chan[p]).id)
    BY <1>4 DEF Listen
  <2>6. ASSUME NEW q \in Procs, NEW j \in Ids PROVE Explained(q, j)'
    <3>1. CASE q = p /\ j = Head(chan[p]).id /\ Head(chan[p]).from # p
      <4>1. cache'[q][j] = 0
        BY <1>0, <2>5, <3>1 DEF Pop, RegistryTyped
      <4> QED BY <4>1 DEF Explained
    <3>2. CASE ~ (q = p /\ j = Head(chan[p]).id /\ Head(chan[p]).from # p)
      <4>1. OnTheWay(q, j) => OnTheWay(q, j)'
        <5>1. CASE q = p
          BY <2>1, <2>2, <3>2, <5>1, TailTravels
        <5>2. CASE q # p
          BY <2>2, <5>2 DEF OnTheWay
        <5> QED BY <5>1, <5>2
      <4>2. cache'[q][j] = cache[q][j]
        <5>1. CASE Head(chan[p]).from = p
          BY <2>4, <5>1
        <5>2. CASE Head(chan[p]).from # p
          BY <1>0, <2>3, <2>5, <3>2, <5>2 DEF Pop, RegistryTyped, Events
        <5> QED BY <5>1, <5>2
      <4>3. <<q, j>> \in excused => <<q, j>> \in excused'
        BY <2>4, <2>5, <3>2 DEF Pop
      <4> QED BY <1>0, <1>1, <1>2, <4>1, <4>2, <4>3, CopyKept
    <3> QED BY <3>1, <3>2
  <2> QED BY <2>6, CopiesPartsNext
<1>5. CASE ListenerEnds(p)
  <2>1. chan' = [chan EXCEPT ![p] = << >>] /\ UNCHANGED cache /\ excused \subseteq excused'
    BY <1>5 DEF ListenerEnds
  <2>2. \A j \in Ids : OnTheWay(p, j) => <<p, j>> \in excused' \/ cache[p][j] = 0
    BY <1>5 DEF ListenerEnds, OnTheWay, Cached
  <2>3. ASSUME NEW q \in Procs, NEW j \in Ids PROVE Explained(q, j)'
    <3>1. OnTheWay(q, j) => OnTheWay(q, j)' \/ <<q, j>> \in excused' \/ cache[q][j] = 0
      <4>1. CASE q = p
        BY <2>2, <4>1
      <4>2. CASE q # p
        BY <1>0, <2>1, <4>2 DEF OnTheWay, RegistryTyped
      <4> QED BY <4>1, <4>2
    <3> QED BY <1>0, <1>1, <1>2, <2>1, <3>1, CopyKept
  <2> QED BY <2>3, CopiesPartsNext
<1> QED BY <1>3, <1>4, <1>5

\* Only the calls of the process that HDEL and have not published yet covered
\* copies of others.
LEMMA CrashCopies ==
  ASSUME IInv, NEW p \in Procs, Crash(p)
  PROVE  CopiesExplained'
<1>0. RegistryTyped /\ CallFacts /\ \A q \in Procs, j \in Ids : Explained(q, j)
  BY TypeParts, CopiesParts DEF IInv
<1>1. /\ cache' = [cache EXCEPT ![p] = [i \in Ids |-> 0]] /\ UNCHANGED redis
      /\ chan' = [chan EXCEPT ![p] = << >>]
      /\ \A w \in Writers : admin[w].proc # p => admin'[w] = admin[w]
      /\ \A e \in excused : e[1] # p => e \in excused'
      /\ \A e \in (Procs \ {p}) \X Ids :
           /\ cache[e[1]][e[2]] # 0
           /\ \E w \in Writers : admin[w] = [pc |-> "deleted", proc |-> p, id |-> e[2], ver |-> 0]
           => e \in excused'
  BY DEF Crash
<1>2. ASSUME NEW q \in Procs, NEW j \in Ids PROVE Explained(q, j)'
  <2>1. CASE q = p
    <3>1. cache'[q][j] = 0
      BY <1>0, <1>1, <2>1 DEF RegistryTyped
    <3> QED BY <3>1 DEF Explained
  <2>2. CASE q # p
    <3>1. cache'[q] = cache[q] /\ chan'[q] = chan[q] /\ redis'[j] = redis[j]
      BY <1>0, <1>1, <2>2 DEF RegistryTyped
    <3>2. <<q, j>> \in excused => <<q, j>> \in excused'
      BY <1>1, <2>2
    <3>3. Covered(q, j) => Covered(q, j)' \/ <<q, j>> \in excused' \/ cache[q][j] = 0
      <4>1. ASSUME NEW w \in Writers, Covers(admin[w], q, j), cache[q][j] # 0,
                   admin[w].proc = p
            PROVE  <<q, j>> \in excused'
        <5>1. admin[w].pc = "deleted" /\ admin[w].id = j /\ admin[w].ver = 0
          BY <1>0, <2>2, <4>1 DEF Covers, CallFacts
        <5>2. admin[w] \in AdminRows
          BY <1>0 DEF RegistryTyped
        <5>3. admin[w] = [pc |-> "deleted", proc |-> p, id |-> j, ver |-> 0]
          BY <4>1, <5>1, <5>2 DEF AdminRows
        <5>4. <<q, j>> \in (Procs \ {p}) \X Ids /\ <<q, j>>[1] = q /\ <<q, j>>[2] = j
          BY <2>2
        <5> QED BY <1>1, <4>1, <5>3, <5>4
      <4>2. ASSUME NEW w \in Writers, Covers(admin[w], q, j), admin[w].proc # p
            PROVE  Covered(q, j)'
        BY <1>1, <4>2 DEF Covered, Covers
      <4> QED BY <4>1, <4>2 DEF Covered
    <3>4. OnTheWay(q, j) => OnTheWay(q, j)'
      BY <3>1 DEF OnTheWay
    <3> QED BY <1>0, <3>1, <3>2, <3>3, <3>4, CopyKept
  <2> QED BY <2>1, <2>2
<1> QED BY <1>2, CopiesPartsNext

LEMMA CopiesNext ==
  ASSUME IInv, [Next]_vars
  PROVE  CopiesExplained'
<1>0. RegistryTyped /\ RequestsTyped /\ CallFacts /\ CopiesExplained
  BY TypeParts DEF IInv
<1>1. ASSUME UNCHANGED <<redis, chan, cache, excused, admin>>
      PROVE  CopiesExplained'
  <2>1. \A q \in Procs, j \in Ids : Explained(q, j)
    BY <1>0, CopiesParts
  <2>2. \A q, j : /\ OnTheWay(q, j) => OnTheWay(q, j)'
                  /\ Covered(q, j) => Covered(q, j)'
    BY <1>1 DEF OnTheWay, Covered
  <2> QED BY <1>1, <2>1, <2>2, CopyKept, CopiesPartsNext
<1>2. ASSUME UNCHANGED registry PROVE CopiesExplained'
  BY <1>1, <1>2 DEF registry
<1>3. ASSUME NEW w \in Writers, NEW p, NEW i, CreateStart(w, p, i) \/ DeleteStart(w, p, i)
      PROVE  CopiesExplained'
  <2>1. /\ admin[w].pc = "idle" /\ UNCHANGED <<redis, chan, cache, excused>>
        /\ \A v \in Writers \ {w} : admin'[v] = admin[v]
    BY <1>0, <1>3 DEF CreateStart, DeleteStart, RegistryTyped
  <2>2. \A q, j : Covered(q, j) => Covered(q, j)'
    BY <2>1, CoveredByOthers DEF Covers
  <2>3. \A q, j : OnTheWay(q, j) => OnTheWay(q, j)'
    BY <2>1 DEF OnTheWay
  <2>4. \A q \in Procs, j \in Ids : Explained(q, j)
    BY <1>0, CopiesParts
  <2> QED BY <2>1, <2>2, <2>3, <2>4, CopyKept, CopiesPartsNext
<1>4. ASSUME NEW r \in Requests, RequestStep(r) \/ Cancel(r)
      PROVE  CopiesExplained'
  <2>1. CASE InstallLoaded(r)
    <3>1. PICK p \in Procs, i \in Ids, v \in Nat : p = req[r].proc /\ i = req[r].id /\ v = req[r].ver
      BY <1>0, <2>1 DEF InstallLoaded, CallFacts, RequestsTyped, RequestRows
    <3>2. Install(p, i, v) /\ UNCHANGED <<redis, chan, admin>>
      BY <2>1, <3>1 DEF InstallLoaded
    <3>3. \A q, j : Covered(q, j) => Covered(q, j)'
      BY <3>2 DEF Covered
    <3> QED BY <1>0, <3>2, <3>3, InstallCopies
  <2>2. CASE ~ InstallLoaded(r)
    <3>1. UNCHANGED registry
      BY <1>4, <2>2 DEF RequestStep, Cancel, LoadLock, RegistryGet, Admit, Acquire,
                        QueueTimeout, ExecuteDirect, LeaveQueue, Release
    <3> QED BY <1>2, <3>1
  <2> QED BY <2>1, <2>2
<1>5. ASSUME NEW p \in Procs, Subscribe(p) \/ Listen(p) \/ ListenerEnds(p) \/ Crash(p)
      PROVE  CopiesExplained'
  BY <1>5, ProcessCopies, CrashCopies
<1>6. Yield \/ UNCHANGED vars => CopiesExplained'
  BY <1>2 DEF Yield, vars
<1>7. (\E r \in scope.requests, p \in scope.procs, i \in scope.ids : Arrive(r, p, i))
        => CopiesExplained'
  BY <1>2 DEF Arrive
<1>8. (\A p \in scope.procs : p \in Procs) /\ (\A w \in scope.writers : w \in Writers)
  BY ScopeFacts DEF IInv
<1> QED BY <1>3, <1>4, <1>5, <1>6, <1>7, <1>8, AdminCopies DEF Next, Call, Step

-----------------------------------------------------------------------------
(* The invariant *)

LEMMA InitScheduled ==
  ASSUME Init
  PROVE  QueueInv /\ SchedulerExact /\ CopiesExplained
<1>1. \A p \in Procs : /\ pending[p] = 0 /\ inflight[p] = 0 /\ slots[p] = Slots
                       /\ waiters[p] = << >> /\ chan[p] = << >>
                       /\ \A i \in Ids : cache[p][i] = 0
  BY DEF Init
<1>2. \A r \in Requests : req[r].pc = "idle" /\ req[r].proc = None
  BY DEF Init, Idle
<1>3. ASSUME NEW p \in Procs PROVE CountsExact(p) /\ Once(waiters[p])
  <2>1. \A pcs : At(p, pcs) = {}
    BY <1>2, FastAssumption DEF At
  <2>2. Cardinality({}) = 0 /\ ToSet(<< >>) = {}
    BY FS_EmptySet DEF ToSet
  <2>3. Slots \in Nat /\ Capacity \in Nat
    BY FastAssumption
  <2>4. /\ At(p, {"waiting", "running"}) = {} /\ At(p, {"running"}) = {}
        /\ At(p, {"waiting"}) = {} /\ ToSet(waiters[p]) = {}
    BY <1>1, <2>1, <2>2
  <2>5. Slots + 0 = Slots /\ 0 <= Capacity
    BY <2>3
  <2>6. CountsExact(p)
    BY <1>1, <2>2, <2>4, <2>5 DEF CountsExact
  <2> QED BY <1>1, <2>6 DEF Once
<1>4. StreamOnce
  <2>1. yielded \o results = << >>
    BY DEF Init
  <2>2. {r \in Stream : req[r].pc \in Gone} = {} /\ ToSet(<< >>) = {}
    BY <1>2, FastAssumption DEF Gone, ToSet
  <2> QED BY <2>1, <2>2 DEF StreamOnce
<1>5. CopiesExplained
  BY <1>1 DEF CopiesExplained, Cached
<1> QED BY <1>3, <1>4, <1>5 DEF QueueInv, SchedulerExact

\* IInv is inductive: the types and what a call names, no request twice in a
\* queue, the counters of every process and the accounts of the stream, and
\* what explains each copy.
THEOREM Invariance == Spec => []IInv
<1>1. Init => IInv
  BY InitTyped, InitScheduled DEF IInv
<1>2. IInv /\ [Next]_vars => IInv'
  <2> SUFFICES ASSUME IInv, [Next]_vars PROVE IInv'
    OBVIOUS
  <2>1. TypeOK' /\ CallFacts'
    BY NextTyped
  <2>2. QueueInv' /\ SchedulerExact'
    BY CountsNext, StreamNext DEF SchedulerExact
  <2>3. CopiesExplained'
    BY CopiesNext
  <2> QED BY <2>1, <2>2, <2>3 DEF IInv
<1> QED BY <1>1, <1>2, PTL DEF Spec

\* Every variable keeps its type through every handler of the registry, the
\* scheduler and the stream (app/fastpath.py, app/profile_registry.py).
THEOREM TypeCorrect == Spec => []TypeOK
<1>1. IInv => TypeOK
  BY DEF IInv
<1> QED BY <1>1, Invariance, PTL

\* _pending, _inflight and the semaphore of FastDecisionRuntime.execute are
\* the numbers of requests they stand for, in every process, after any
\* timeouts, cancellations, errors and crashes; never more requests are
\* admitted than the capacity or run than there are slots, no request waits
\* that is gone, and stream_batch has one result for each event that ended.
THEOREM SchedulerStaysExact == Spec => []SchedulerExact
<1>1. IInv => SchedulerExact
  BY DEF IInv
<1> QED BY <1>1, Invariance, PTL

\* A compiled copy that is not the stored profile has an event on its way
\* (_on_shared_profile_event), a call that will replace or publish it, or was
\* left behind by an install overtaken by a write, a lost event or an error:
\* there is no other way to serve from an old profile.
THEOREM CopiesStayExplained == Spec => []CopiesExplained
<1>1. IInv => CopiesExplained
  BY DEF IInv
<1> QED BY <1>1, Invariance, PTL

=============================================================================
