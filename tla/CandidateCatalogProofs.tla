------------------------- MODULE CandidateCatalogProofs -------------------------
(***************************************************************************)
(* Proofs about candidate catalogs, for any number of catalogs, items,     *)
(* snapshots, requests and processes: the types, that the index is that    *)
(* of the texts, and that a search shows texts it scored.                  *)
(*                                                                         *)
(* Neither property is inductive.  A write indexes with the settings its   *)
(* call read before, so the invariant says of each call under the lock of  *)
(* the store what it read and that this is still true (DimRead, RowsRead); *)
(* it is, because other calls of the process wait for the lock, and those  *)
(* of other processes cannot make a catalog with other settings (Steady).  *)
(***************************************************************************)
EXTENDS CandidateCatalog, FiniteSetTheorems, TLAPS

Args == Dims \cup (UNION {s.batches : s \in Scopes}) \cup (SUBSET Items) \cup Snapshots
            \cup {"local_sparse", "openai_compatible", None}

CallRecord ==
    [kind : Kinds \cup {None}, proc : Procs \cup {None}, pc : Pcs,
     cat : Catalogs \cup {None}, arg : Args, dim : Dims \cup {None},
     rows : SUBSET Rows, answer : Statuses \cup {None}]

Active(x) == x.pc \notin {"idle", "done"}

Locking(x) == x.pc \in {"check", "write", "features", "items"}

\* What is known of a request at each of its statements.
CallOK(x) ==
    /\ Active(x) => x.proc \in scope.procs /\ x.cat \in Catalogs
    /\ Locking(x) \/ x.pc = "rank" => x.dim \in scope.dims
    /\ Active(x) =>
         /\ x.kind = "create" => x.arg \in scope.dims
         /\ x.kind = "upsert" => x.arg \in scope.batches
         /\ x.kind \in {"snapshot", "drop_snapshot", "restore"} => x.arg \in Snapshots

CallsOK == call \in [Calls -> CallRecord] /\ \A c \in Calls : CallOK(call[c])

\* A catalog that is not there has no items, no index and no snapshots.
TablesOK ==
    /\ \A k \in Catalogs : catalog[k] \in scope.dims \cup {None}
    /\ \A k \in Catalogs : catalog[k] = None => items[k] = Nothing /\ features[k] = Nothing
    /\ \A s \in Snapshots : snapshots[s] # None => catalog[snapshots[s].cat] # None

\* Settings read under the lock are those of the catalog as long as it exists.
DimRead ==
    Steady => \A c \in Calls : Locking(call[c]) =>
                  catalog[call[c].cat] \in {None, call[c].dim}

Alone == Cardinality(scope.procs) = 1

\* The features a search has read are those the table holds.
RowsRead ==
    Alone => \A c \in Calls : call[c].pc = "items" =>
        \A x \in call[c].rows : x.scored = features[call[c].cat][x.item]

TypesOK ==
    /\ scope \in Scopes
    /\ catalog \in [Catalogs -> Dims \cup {None}]
    /\ items \in [Catalogs -> Contents]
    /\ features \in [Catalogs -> [Items -> Signatures]]
    /\ snapshots \in [Snapshots -> Snapped]
    /\ taken \in [Snapshots -> Snapped]

DataInv == TypesOK /\ TablesOK /\ IndexMatches

CallInv == CallsOK /\ DimRead /\ RowsRead /\ SearchCoherent

IInv == DataInv /\ CallInv

-----------------------------------------------------------------------------
(* Helpers *)

LEMMA SignatureType ==
    ASSUME NEW text \in Texts \cup {None}, NEW dim \in Dims
    PROVE  Signature(text, dim) \in Signatures
BY CatalogAssumption DEF Signature, Signatures

LEMMA NothingIndex ==
    ASSUME NEW dim
    PROVE  Index(Nothing, dim) = Nothing /\ Nothing \in Contents /\ Nothing \in [Items -> Signatures]
BY DEF Index, Nothing, Signature, Contents, Signatures

LEMMA IndexType ==
    ASSUME NEW content \in Contents, NEW dim \in Dims
    PROVE  Index(content, dim) \in [Items -> Signatures]
<1>1. \A i \in Items : Signature(content[i], dim) \in Signatures
  BY SignatureType DEF Contents
<1> QED
  BY <1>1 DEF Index

\* With one process, no request but the one that takes a step holds the lock.
LEMMA OneHolder ==
    ASSUME IInv, Alone, NEW c \in Calls, NEW pc \in Pcs \ {"idle", "done"}, At(c, pc),
           NEW d \in Calls \ {c}
    PROVE  ~ Locking(call[d])
<1>1. PICK p : scope.procs = {p}
  BY CatalogAssumption, FS_Singleton DEF Alone, IInv, DataInv, TypesOK
<1>2. CASE Active(call[d])
  BY <1>1, <1>2 DEF IInv, CallInv, CallsOK, CallOK, At, HoldsLock, Locking, Active
<1>3. CASE ~ Active(call[d])
  BY <1>3 DEF Active, Locking
<1> QED
  BY <1>2, <1>3

\* The settings a request under the lock has read.
LEMMA DimKnown ==
    ASSUME IInv, NEW c \in Calls, Locking(call[c])
    PROVE  /\ call[c].cat \in Catalogs /\ call[c].dim \in scope.dims /\ call[c].dim \in Dims
           /\ Steady => catalog[call[c].cat] \in {None, call[c].dim}
<1>1. scope.dims \subseteq Dims
  BY CatalogAssumption DEF IInv, DataInv, TypesOK
<1>2. Active(call[c])
  BY DEF Active, Locking
<1> QED
  BY <1>1, <1>2 DEF IInv, CallInv, CallsOK, CallOK, DimRead

-----------------------------------------------------------------------------
(* What a step does to the requests *)

\* c has reached another statement, all other requests are where they were.
Moves(c) == /\ call' \in [Calls -> CallRecord]
            /\ \A d \in Calls \ {c} : call'[d] = call[d]

LEMMA NoCallType ==
    /\ NoCall \in CallRecord
    /\ NoCall.kind = None /\ NoCall.pc = "idle" /\ NoCall.rows = {} /\ NoCall.dim = None
    /\ NoCall.answer = None
BY DEF NoCall, CallRecord, Args, Pcs

LEMMA AnsweredMoves ==
    ASSUME CallsOK, NEW c \in Calls, NEW status \in Statuses, NEW rows \in SUBSET Rows,
           Answered(c, status, rows)
    PROVE  /\ Moves(c)
           /\ call'[c].pc = "done" /\ call'[c].kind = None /\ call'[c].rows = rows
           /\ rows # {} => call'[c].dim = call[c].dim
<1> DEFINE d == IF rows = {} THEN None ELSE call[c].dim
           x == [NoCall EXCEPT !.pc = "done", !.answer = status, !.rows = rows, !.dim = d]
<1>1. d \in Dims \cup {None} /\ (rows # {} => d = call[c].dim)
  BY DEF CallsOK, CallRecord
<1>2. call' = [call EXCEPT ![c] = x]
  BY DEF Answered
<1> HIDE DEF d
<1>3. x \in CallRecord
  BY <1>1, NoCallType DEF CallRecord, Pcs
<1>4. x.pc = "done" /\ x.kind = None /\ x.rows = rows /\ x.dim = d
  BY NoCallType DEF CallRecord
<1> HIDE DEF x
<1>5. call'[c] = x /\ Moves(c)
  BY <1>2, <1>3 DEF CallsOK, Moves
<1> QED
  BY <1>1, <1>4, <1>5

LEMMA MovesInv ==
    ASSUME IInv, NEW c \in Calls, Moves(c), scope' = scope, CallOK(call[c])'
    PROVE  CallsOK'
<1>1. ASSUME NEW d \in Calls \ {c} PROVE CallOK(call[d])'
  <2>1. CallOK(call[d]) /\ call'[d] = call[d]
    BY DEF IInv, CallInv, CallsOK, Moves
  <2> QED
    BY <2>1 DEF CallOK, Active, Locking
<1> QED
  BY <1>1 DEF CallsOK, Moves

tables == <<scope, catalog, items, features, snapshots, taken>>

\* A step that reads.
LEMMA ReadsInv ==
    ASSUME IInv, NEW c \in Calls, Moves(c), UNCHANGED tables, CallOK(call[c])',
           Steady /\ Locking(call'[c]) => catalog[call'[c].cat] \in {None, call'[c].dim},
           Alone /\ call'[c].pc = "items" =>
               \A x \in call'[c].rows : x.scored = features[call'[c].cat][x.item],
           Alone /\ call'[c].pc \in {"rank", "done"} =>
               \A x \in call'[c].rows : x.scored = Signature(x.text, call'[c].dim)
    PROVE  IInv'
<1>1. CallsOK'
  BY MovesInv DEF tables
<1>2. DataInv'
  BY DEF tables, IInv, DataInv, TypesOK, TablesOK, IndexMatches, Steady
<1>3. DimRead'
  BY DEF tables, IInv, CallInv, DimRead, Moves, Steady
<1>4. RowsRead'
  BY DEF tables, IInv, CallInv, RowsRead, Moves, Alone
<1>5. SearchCoherent'
  BY DEF tables, IInv, CallInv, SearchCoherent, Moves, Alone
<1> QED
  BY <1>1, <1>2, <1>3, <1>4, <1>5 DEF IInv, CallInv

\* A request that is refused.
LEMMA RefusedInv ==
    ASSUME IInv, NEW c \in Calls, NEW status \in Statuses, Answer(c, status), UNCHANGED tables
    PROVE  IInv'
<1>1. Moves(c) /\ call'[c].pc = "done" /\ call'[c].kind = None /\ call'[c].rows = {}
  BY AnsweredMoves DEF Answer, IInv, CallInv
<1>2. CallOK(call[c])' /\ ~ Locking(call'[c])
  BY <1>1 DEF CallOK, Active, Locking
<1> QED
  BY <1>1, <1>2, ReadsInv

\* A step that writes and answers: the others that hold the lock are requests
\* of other processes, which wait for a catalog with the settings they read.
LEMMA WritesInv ==
    ASSUME IInv, NEW c \in Calls, NEW pc \in {"row", "write"}, At(c, pc),
           NEW status \in Statuses, Answer(c, status), scope' = scope, DataInv'
    PROVE  IInv'
<1>1. Moves(c) /\ call'[c].pc = "done" /\ call'[c].rows = {}
  BY AnsweredMoves DEF Answer, IInv, CallInv
<1>2. CallsOK'
  BY <1>1, MovesInv DEF CallOK, Active, Locking
<1>3. Alone => \A d \in Calls \ {c} : ~ Locking(call[d])
  BY OneHolder DEF Pcs
<1>4. DimRead'
  <2> SUFFICES ASSUME Steady, NEW d \in Calls, Locking(call'[d])
               PROVE  catalog'[call'[d].cat] \in {None, call'[d].dim}
    BY DEF DimRead, Steady
  <2>1. d # c /\ call'[d] = call[d] /\ Locking(call[d])
    BY <1>1 DEF Moves, Locking
  <2>2. ~ Alone
    BY <1>3, <2>1
  <2>3. PICK dim : scope.dims = {dim}
    BY <2>2, CatalogAssumption, FS_Singleton DEF Steady, Alone, IInv, DataInv, TypesOK
  <2>4. call[d].cat \in Catalogs /\ call[d].dim = dim
    BY <2>1, <2>3, DimKnown
  <2>5. catalog'[call[d].cat] \in {None, dim}
    BY <2>3, <2>4 DEF DataInv, TablesOK
  <2> QED
    BY <2>1, <2>4, <2>5
<1>5. RowsRead'
  BY <1>1, <1>3 DEF RowsRead, Alone, Moves, Locking
<1>6. SearchCoherent'
  BY <1>1 DEF IInv, CallInv, SearchCoherent, Moves
<1> QED
  BY <1>2, <1>4, <1>5, <1>6 DEF IInv, CallInv

\* What a catalog holds is replaced, with an index of the settings it has.
LEMMA ContentInv ==
    ASSUME IInv, NEW k \in Catalogs, NEW content \in Contents,
           NEW index \in [Items -> Signatures],
           items' = [items EXCEPT ![k] = content],
           features' = [features EXCEPT ![k] = index],
           UNCHANGED <<scope, catalog, snapshots, taken>>,
           catalog[k] = None => content = Nothing /\ index = Nothing,
           Steady /\ catalog[k] # None => index = Index(content, catalog[k])
    PROVE  DataInv'
<1>1. TypesOK'
  BY DEF IInv, DataInv, TypesOK
<1>2. \A l \in Catalogs : /\ items'[l] = (IF l = k THEN content ELSE items[l])
                           /\ features'[l] = (IF l = k THEN index ELSE features[l])
  BY DEF IInv, DataInv, TypesOK
<1>3. TablesOK'
  BY <1>2 DEF IInv, DataInv, TablesOK
<1>4. IndexMatches'
  BY <1>2 DEF IInv, DataInv, IndexMatches, Steady
<1> QED
  BY <1>1, <1>3, <1>4 DEF DataInv

-----------------------------------------------------------------------------
(* Every step *)

LEMMA RequestInv ==
    ASSUME IInv, NEW c \in Calls, NEW p, NEW kind \in Kinds, NEW k \in Catalogs, NEW arg \in Args,
           Request(c, p, kind, k, arg),
           kind = "create" => arg \in scope.dims,
           kind = "upsert" => arg \in scope.batches,
           kind \in {"snapshot", "drop_snapshot", "restore"} => arg \in Snapshots
    PROVE  IInv'
<1> DEFINE x == [NoCall EXCEPT !.kind = kind, !.proc = p, !.cat = k, !.pc = "row", !.arg = arg]
<1>1. p \in scope.procs /\ p \in Procs
  BY CatalogAssumption DEF Request, IInv, DataInv, TypesOK
<1>2. x \in CallRecord
  BY <1>1, NoCallType DEF CallRecord, Pcs
<1>3. x.kind = kind /\ x.proc = p /\ x.cat = k /\ x.pc = "row" /\ x.arg = arg
  BY NoCallType DEF CallRecord
<1>4. call' = [call EXCEPT ![c] = x] /\ UNCHANGED tables
  BY DEF Request, tables
<1> HIDE DEF x
<1>5. call'[c] = x /\ Moves(c)
  BY <1>2, <1>4 DEF IInv, CallInv, CallsOK, Moves
<1>6. CallOK(call[c])' /\ ~ Locking(call'[c]) /\ call'[c].pc \notin {"items", "rank", "done"}
  BY <1>1, <1>3, <1>4, <1>5 DEF CallOK, Active, Locking, tables
<1> QED
  BY <1>4, <1>5, <1>6, ReadsInv

LEMMA NewRequestInv ==
    ASSUME IInv, NEW c \in Calls, NEW p \in Procs, NEW k \in Catalogs, NewRequest(c, p, k)
    PROVE  IInv'
<1>1. scope \in Scopes /\ scope.dims \subseteq Dims
  BY CatalogAssumption DEF IInv, DataInv, TypesOK
<1>2. CASE CatalogRequest(c, p, k)
  <2>1. CASE \E dim \in scope.dims : Request(c, p, "create", k, dim)
    BY <1>1, <2>1, RequestInv DEF Args, Kinds
  <2>2. CASE Request(c, p, "delete", k, None)
    BY <2>2, RequestInv DEF Args, Kinds
  <2> QED
    BY <1>2, <2>1, <2>2 DEF CatalogRequest
<1>3. CASE ItemRequest(c, p, k)
  <2>1. CASE \E batch \in scope.batches : Request(c, p, "upsert", k, batch)
    BY <1>1, <2>1, RequestInv DEF Args, Kinds
  <2>2. CASE \E S \in (SUBSET Items) \ {{}} : Request(c, p, "delete_items", k, S)
    BY <2>2, RequestInv DEF Args, Kinds
  <2>3. CASE \E method \in {"local_sparse", "openai_compatible"} :
                Request(c, p, "search", k, method)
    BY <2>3, RequestInv DEF Args, Kinds
  <2> QED
    BY <1>3, <2>1, <2>2, <2>3 DEF ItemRequest
<1>4. CASE SnapshotRequest(c, p, k)
  <2>1. \A s \in Snapshots : s \in Args
    BY DEF Args
  <2>2. CASE \E s \in Snapshots, kind \in {"snapshot", "drop_snapshot", "restore"} :
                Request(c, p, kind, k, s)
    BY <2>1, <2>2, RequestInv DEF Kinds
  <2>3. CASE Request(c, p, "rebuild", k, None)
    BY <2>3, RequestInv DEF Args, Kinds
  <2> QED
    BY <1>4, <2>2, <2>3 DEF SnapshotRequest
<1> QED
  BY <1>2, <1>3, <1>4 DEF NewRequest

LEMMA CatalogRowInv ==
    ASSUME IInv, NEW c \in Calls, CatalogRow(c)
    PROVE  IInv'
<1>1. UNCHANGED tables /\ At(c, "row") /\ call[c].pc = "row" /\ call[c].kind # "create"
  BY DEF CatalogRow, tables, At
<1>2. call[c] \in CallRecord /\ CallOK(call[c]) /\ call[c].cat \in Catalogs
  BY <1>1 DEF IInv, CallInv, CallsOK, CallOK, Active
<1>3. CASE catalog[call[c].cat] = None
  BY <1>1, <1>3, RefusedInv DEF CatalogRow, Statuses
<1>4. CASE catalog[call[c].cat] # None
  <2> DEFINE dim == catalog[call[c].cat]
  <2>1. dim \in scope.dims /\ dim \in Dims
    BY <1>2, <1>4 DEF IInv, DataInv, TypesOK, TablesOK
  <2>2. PICK next \in {"check", "write", "features"} :
            call' = [call EXCEPT ![c].pc = next, ![c].dim = dim]
    BY <1>4 DEF CatalogRow
  <2> HIDE DEF dim
  <2>3. Moves(c)
    BY <1>2, <2>1, <2>2 DEF IInv, CallInv, CallsOK, Moves, CallRecord, Pcs
  <2>4. /\ call'[c].pc = next /\ call'[c].dim = dim /\ call'[c].kind = call[c].kind
        /\ call'[c].proc = call[c].proc /\ call'[c].cat = call[c].cat
        /\ call'[c].arg = call[c].arg
    BY <1>2, <2>2 DEF IInv, CallInv, CallsOK, CallRecord
  <2>5. CallOK(call[c])'
    BY <1>1, <1>2, <2>1, <2>4 DEF CallOK, Active, Locking, tables
  <2> QED
    BY <1>1, <2>3, <2>4, <2>5, ReadsInv DEF dim
<1> QED
  BY <1>3, <1>4

LEMMA CreateCatalogInv ==
    ASSUME IInv, NEW c \in Calls, CreateCatalog(c)
    PROVE  IInv'
<1> DEFINE k == call[c].cat
<1>1. At(c, "row") /\ k \in Catalogs /\ call[c].arg \in scope.dims
  BY DEF CreateCatalog, At, IInv, CallInv, CallsOK, CallOK, Active
<1>2. CASE catalog[k] # None
  BY <1>2, RefusedInv DEF CreateCatalog, tables, Statuses
<1>3. CASE catalog[k] = None
  <2>1. /\ catalog' = [catalog EXCEPT ![k] = call[c].arg] /\ Answer(c, "200")
        /\ UNCHANGED <<scope, items, features, snapshots, taken>>
    BY <1>3 DEF CreateCatalog
  <2>2. call[c].arg \in Dims /\ call[c].arg # None
    BY <1>1, CatalogAssumption DEF IInv, DataInv, TypesOK
  <2>3. \A l \in Catalogs : catalog'[l] = IF l = k THEN call[c].arg ELSE catalog[l]
    BY <2>1 DEF IInv, DataInv, TypesOK
  <2>4. TypesOK'
    BY <2>1, <2>2 DEF IInv, DataInv, TypesOK
  <2>5. TablesOK'
    BY <1>1, <2>1, <2>2, <2>3 DEF IInv, DataInv, TypesOK, TablesOK, Snapped
  <2>6. items[k] = Nothing /\ features[k] = Nothing
    BY <1>1, <1>3 DEF IInv, DataInv, TablesOK
  <2>7. IndexMatches'
    BY <2>1, <2>3, <2>6, NothingIndex DEF IInv, DataInv, IndexMatches, Steady
  <2> QED
    BY <1>1, <2>1, <2>4, <2>5, <2>7, WritesInv DEF DataInv, Statuses
<1> QED
  BY <1>2, <1>3

\* What is known of a request that is about to write.
LEMMA WriterKnown ==
    ASSUME IInv, NEW c \in Calls, NEW kind, Writes(c, kind)
    PROVE  /\ At(c, "write") /\ call[c].kind = kind /\ call[c].pc = "write"
           /\ call[c].cat \in Catalogs /\ call[c].dim \in Dims
           /\ Steady => catalog[call[c].cat] \in {None, call[c].dim}
           /\ kind = "upsert" => call[c].arg \in scope.batches
           /\ kind \in {"snapshot", "drop_snapshot", "restore"} => call[c].arg \in Snapshots
<1>1. At(c, "write") /\ call[c].kind = kind /\ call[c].pc = "write"
  BY DEF Writes, At
<1> QED
  BY <1>1, DimKnown DEF Locking, IInv, CallInv, CallsOK, CallOK, Active

LEMMA DeleteCatalogInv ==
    ASSUME IInv, NEW c \in Calls, DeleteCatalog(c)
    PROVE  IInv'
<1> DEFINE k == call[c].cat
<1>1. At(c, "write") /\ k \in Catalogs
  BY WriterKnown DEF DeleteCatalog
<1>2. /\ catalog' = [catalog EXCEPT ![k] = None]
      /\ items' = [items EXCEPT ![k] = Nothing]
      /\ features' = [features EXCEPT ![k] = Nothing]
      /\ snapshots' = [s \in Snapshots |-> IF snapshots[s] # None /\ snapshots[s].cat = k
                                           THEN None ELSE snapshots[s]]
      /\ Answer(c, "200") /\ UNCHANGED <<scope, taken>>
  BY DEF DeleteCatalog
<1> HIDE DEF k
<1>3. \A l \in Catalogs : /\ catalog'[l] = (IF l = k THEN None ELSE catalog[l])
                          /\ items'[l] = (IF l = k THEN Nothing ELSE items[l])
                          /\ features'[l] = (IF l = k THEN Nothing ELSE features[l])
  BY <1>2 DEF IInv, DataInv, TypesOK
<1>4. TypesOK'
  BY <1>1, <1>2, NothingIndex DEF IInv, DataInv, TypesOK, Snapped
<1>5. TablesOK'
  <2>1. ASSUME NEW s \in Snapshots, snapshots'[s] # None PROVE catalog'[snapshots'[s].cat] # None
    <3>1. snapshots'[s] = snapshots[s] /\ snapshots[s].cat # k /\ snapshots[s] # None
      BY <1>2, <2>1
    <3>2. snapshots[s].cat \in Catalogs
      BY <3>1 DEF IInv, DataInv, TypesOK, Snapped
    <3> QED
      BY <1>3, <3>1, <3>2 DEF IInv, DataInv, TablesOK
  <2> QED
    BY <1>2, <1>3, <2>1 DEF IInv, DataInv, TablesOK
<1>6. IndexMatches'
  BY <1>2, <1>3 DEF IInv, DataInv, IndexMatches, Steady
<1> QED
  BY <1>1, <1>2, <1>4, <1>5, <1>6, WritesInv DEF DataInv, Statuses

LEMMA UpsertItemsInv ==
    ASSUME IInv, NEW c \in Calls, UpsertItems(c)
    PROVE  IInv'
<1> DEFINE k == call[c].cat
           batch == call[c].arg
           dim == call[c].dim
<1>1. /\ At(c, "write") /\ k \in Catalogs /\ dim \in Dims /\ batch \in scope.batches
      /\ Steady => catalog[k] \in {None, dim}
  BY WriterKnown DEF UpsertItems
<1>2. CASE catalog[k] = None
  BY <1>2, RefusedInv DEF UpsertItems, tables, Statuses
<1>3. CASE catalog[k] # None
  <2> DEFINE content == [i \in Items |-> IF i \in DOMAIN batch THEN batch[i] ELSE items[k][i]]
             index == [i \in Items |-> IF i \in DOMAIN batch THEN Signature(batch[i], dim)
                                                            ELSE features[k][i]]
  <2>1. /\ items' = [items EXCEPT ![k] = content] /\ features' = [features EXCEPT ![k] = index]
        /\ Answer(c, "200") /\ UNCHANGED <<scope, catalog, snapshots, taken>>
    BY <1>3 DEF UpsertItems
  <2>2. \A i \in Items \cap DOMAIN batch : batch[i] \in Texts
    BY <1>1, CatalogAssumption DEF IInv, DataInv, TypesOK
  <2>3. items[k] \in Contents /\ features[k] \in [Items -> Signatures]
    BY <1>1 DEF IInv, DataInv, TypesOK
  <2>4. content \in Contents
    BY <2>2, <2>3 DEF Contents
  <2>5. \A i \in Items \cap DOMAIN batch : Signature(batch[i], dim) \in Signatures
    BY <1>1, <2>2, SignatureType
  <2>6. index \in [Items -> Signatures]
    BY <2>3, <2>5
  <2>7. Steady => index = Index(content, catalog[k])
    <3> SUFFICES ASSUME Steady PROVE index = Index(content, catalog[k])
      OBVIOUS
    <3>1. catalog[k] = dim /\ features[k] = Index(items[k], dim)
      BY <1>1, <1>3 DEF IInv, DataInv, IndexMatches
    <3>2. \A i \in Items : index[i] = Signature(content[i], dim)
      BY <3>1 DEF Index
    <3> QED
      BY <3>1, <3>2 DEF Index
  <2> HIDE DEF content, index
  <2>8. DataInv'
    BY <1>1, <1>3, <2>1, <2>4, <2>6, <2>7, ContentInv
  <2> QED
    BY <1>1, <2>1, <2>8, WritesInv DEF Statuses
<1> QED
  BY <1>2, <1>3

LEMMA DeleteItemsInv ==
    ASSUME IInv, NEW c \in Calls, DeleteItems(c)
    PROVE  IInv'
<1> DEFINE k == call[c].cat
           Without(table) == [i \in Items |-> IF i \in call[c].arg THEN None ELSE table[i]]
<1>1. At(c, "write") /\ k \in Catalogs
  BY WriterKnown DEF DeleteItems
<1>2. CASE catalog[k] = None
  BY <1>2, RefusedInv DEF DeleteItems, tables, Statuses
<1>3. CASE catalog[k] # None
  <2> DEFINE content == Without(items[k])
             index == Without(features[k])
  <2>1. items[k] \in Contents /\ features[k] \in [Items -> Signatures]
    BY <1>1 DEF IInv, DataInv, TypesOK
  <2>2. /\ items' = [items EXCEPT ![k] = content] /\ features' = [features EXCEPT ![k] = index]
        /\ Answer(c, "200") /\ UNCHANGED <<scope, catalog, snapshots, taken>>
    BY <1>3 DEF DeleteItems
  <2>3. content \in Contents /\ index \in [Items -> Signatures]
    BY <2>1 DEF Contents, Signatures
  <2>4. Steady => index = Index(content, catalog[k])
    <3> SUFFICES ASSUME Steady PROVE index = Index(content, catalog[k])
      OBVIOUS
    <3>1. features[k] = Index(items[k], catalog[k])
      BY <1>1, <1>3 DEF IInv, DataInv, IndexMatches
    <3>2. \A i \in Items : index[i] = Signature(content[i], catalog[k])
      BY <3>1 DEF Index, Signature
    <3> QED
      BY <3>2 DEF Index
  <2> HIDE DEF content, index
  <2>5. DataInv'
    BY <1>1, <1>3, <2>2, <2>3, <2>4, ContentInv
  <2> QED
    BY <1>1, <2>2, <2>5, WritesInv DEF Statuses
<1> QED
  BY <1>2, <1>3

LEMMA SnapshotInv ==
    ASSUME IInv, NEW c \in Calls, CreateSnapshot(c) \/ DeleteSnapshot(c)
    PROVE  IInv'
<1> DEFINE k == call[c].cat
           s == call[c].arg
           snap == [cat |-> k, items |-> items[k]]
<1>1. At(c, "write") /\ k \in Catalogs /\ s \in Snapshots
  BY WriterKnown DEF CreateSnapshot, DeleteSnapshot
<1>2. snap \in Snapped /\ None \in Snapped
  BY <1>1 DEF Snapped, IInv, DataInv, TypesOK
<1>3. CASE Answer(c, "500") /\ UNCHANGED tables
  BY <1>3, RefusedInv DEF Statuses
<1>4. CASE Answer(c, "404") /\ UNCHANGED tables
  BY <1>4, RefusedInv DEF Statuses
<1>5. CASE /\ Answer(c, "200") /\ UNCHANGED <<scope, catalog, items, features>>
           /\ snapshots' = [snapshots EXCEPT ![s] = snap] /\ catalog[k] # None
           /\ taken' = [taken EXCEPT ![s] = snap]
  <2>1. DataInv'
    BY <1>1, <1>2, <1>5 DEF IInv, DataInv, TypesOK, TablesOK, IndexMatches, Steady
  <2> QED
    BY <1>1, <1>5, <2>1, WritesInv DEF Statuses
<1>6. CASE /\ Answer(c, "200") /\ UNCHANGED <<scope, catalog, items, features, taken>>
           /\ snapshots' = [snapshots EXCEPT ![s] = None]
  <2>1. DataInv'
    BY <1>1, <1>2, <1>6 DEF IInv, DataInv, TypesOK, TablesOK, IndexMatches, Steady
  <2> QED
    BY <1>1, <1>6, <2>1, WritesInv DEF Statuses
<1>7. CASE CreateSnapshot(c)
  BY <1>3, <1>5, <1>7 DEF CreateSnapshot, tables
<1>8. CASE DeleteSnapshot(c)
  BY <1>4, <1>6, <1>8 DEF DeleteSnapshot, tables
<1> QED
  BY <1>7, <1>8

LEMMA RestoreSnapshotInv ==
    ASSUME IInv, NEW c \in Calls, RestoreSnapshot(c)
    PROVE  IInv'
<1> DEFINE k == call[c].cat
           s == call[c].arg
           dim == call[c].dim
           content == IF Has(k, s) THEN snapshots[s].items ELSE Nothing
<1>1. /\ At(c, "write") /\ k \in Catalogs /\ s \in Snapshots /\ dim \in Dims
      /\ Steady => catalog[k] \in {None, dim}
  BY WriterKnown DEF RestoreSnapshot
<1>2. /\ items' = [items EXCEPT ![k] = content]
      /\ features' = [features EXCEPT ![k] = Index(content, dim)]
      /\ Answer(c, "200") /\ UNCHANGED <<scope, catalog, snapshots, taken>>
  BY DEF RestoreSnapshot
<1>3. content \in Contents
  BY <1>1, NothingIndex DEF Has, IInv, DataInv, TypesOK, Snapped
<1>4. catalog[k] = None => content = Nothing
  BY <1>1 DEF Has, IInv, DataInv, TablesOK
<1> HIDE DEF content
<1>5. DataInv'
  BY <1>1, <1>2, <1>3, <1>4, IndexType, NothingIndex, ContentInv
<1> QED
  BY <1>1, <1>2, <1>5, WritesInv DEF Statuses

LEMMA RebuildIndexInv ==
    ASSUME IInv, NEW c \in Calls, RebuildIndex(c)
    PROVE  IInv'
<1> DEFINE k == call[c].cat
           dim == call[c].dim
<1>1. /\ At(c, "write") /\ k \in Catalogs /\ dim \in Dims
      /\ Steady => catalog[k] \in {None, dim}
  BY WriterKnown DEF RebuildIndex
<1>2. /\ features' = [features EXCEPT ![k] = Index(items[k], dim)] /\ items' = items
      /\ Answer(c, "200") /\ UNCHANGED <<scope, catalog, snapshots, taken>>
  BY DEF RebuildIndex
<1>3. items[k] \in Contents /\ items' = [items EXCEPT ![k] = items[k]]
  BY <1>1, <1>2 DEF IInv, DataInv, TypesOK
<1>4. catalog[k] = None => items[k] = Nothing
  BY <1>1 DEF IInv, DataInv, TablesOK
<1>5. DataInv'
  BY <1>1, <1>2, <1>3, <1>4, IndexType, NothingIndex, ContentInv
<1> QED
  BY <1>1, <1>2, <1>5, WritesInv DEF Statuses

LEMMA SearchInv ==
    ASSUME IInv, NEW c \in Calls, ReadFeatures(c) \/ ReadItems(c) \/ Rank(c)
    PROVE  IInv'
<1> DEFINE k == call[c].cat
           dim == call[c].dim
<1>1. UNCHANGED tables /\ call[c].pc \in {"features", "items", "rank"}
  BY DEF ReadFeatures, ReadItems, Rank, tables, At
<1>2. call[c] \in CallRecord /\ CallOK(call[c]) /\ k \in Catalogs
  BY <1>1 DEF IInv, CallInv, CallsOK, CallOK, Active
<1>3. items[k] \in Contents /\ features[k] \in [Items -> Signatures]
  BY <1>2 DEF IInv, DataInv, TypesOK
<1>4. CASE ReadFeatures(c)
  <2> DEFINE rows == {[item |-> i, scored |-> features[k][i]] :
                        i \in {i \in Items : features[k][i] # None}}
  <2>1. rows \subseteq Rows /\ \A x \in rows : x.scored = features[k][x.item]
    BY <1>3 DEF Rows
  <2>2. CASE features[k] = Nothing
    BY <1>1, <1>4, <2>2, RefusedInv DEF ReadFeatures, Statuses
  <2>3. CASE features[k] # Nothing
    <3>1. call' = [call EXCEPT ![c].pc = "items", ![c].rows = rows] /\ call[c].pc = "features"
      BY <1>4, <2>3 DEF ReadFeatures, At
    <3> HIDE DEF rows
    <3>2. Moves(c)
      BY <1>2, <2>1, <3>1 DEF IInv, CallInv, CallsOK, Moves, CallRecord, Pcs
    <3>3. /\ call'[c].pc = "items" /\ call'[c].rows = rows /\ call'[c].kind = call[c].kind
          /\ call'[c].proc = call[c].proc /\ call'[c].cat = k
          /\ call'[c].arg = call[c].arg /\ call'[c].dim = dim
      BY <1>2, <3>1 DEF IInv, CallInv, CallsOK, CallRecord
    <3>4. CallOK(call[c])'
      BY <1>1, <1>2, <3>1, <3>3 DEF CallOK, Active, Locking, tables
    <3>5. Steady => catalog[k] \in {None, dim}
      BY <3>1, DimKnown DEF Locking
    <3> QED
      BY <1>1, <2>1, <3>2, <3>3, <3>4, <3>5, ReadsInv
  <2> QED
    BY <2>2, <2>3
<1>5. CASE ReadItems(c)
  <2> DEFINE text == items[k]
             rows == {[item |-> x.item, scored |-> x.scored, text |-> text[x.item]] :
                        x \in {x \in call[c].rows : text[x.item] # None}}
  <2>1. At(c, "items") /\ Locking(call[c]) /\ call[c].pc = "items"
    BY <1>5 DEF ReadItems, At, Locking
  <2>2. \A x \in call[c].rows : x.item \in Items /\ x.scored \in Signatures
    BY <1>2 DEF CallRecord, Rows
  <2>3. rows \subseteq Rows
    <3>1. ASSUME NEW x \in call[c].rows, text[x.item] # None
          PROVE  [item |-> x.item, scored |-> x.scored, text |-> text[x.item]] \in Rows
      BY <1>3, <2>2, <3>1 DEF Rows, Contents
    <3> QED
      BY <3>1
  <2>4. ASSUME Alone, NEW x \in call[c].rows, text[x.item] # None
        PROVE  x.scored = Signature(text[x.item], dim)
    <3>1. x.item \in Items /\ x.scored = features[k][x.item]
      BY <2>1, <2>2, <2>4 DEF IInv, CallInv, RowsRead
    <3>2. Steady
      BY <2>4 DEF Alone, Steady
    <3>3. catalog[k] # None
      BY <1>2, <2>4, <3>1 DEF IInv, DataInv, TablesOK, Nothing
    <3>4. catalog[k] = dim
      BY <2>1, <3>2, <3>3, DimKnown
    <3>5. features[k] = Index(text, dim)
      BY <1>2, <3>2, <3>3, <3>4 DEF IInv, DataInv, IndexMatches
    <3> QED
      BY <3>1, <3>5 DEF Index
  <2>5. Alone => \A x \in rows : x.scored = Signature(x.text, dim)
    BY <2>4
  <2> HIDE DEF rows
  <2>6. CASE Answered(c, "200", rows)
    <3>1. /\ Moves(c) /\ call'[c].pc = "done" /\ call'[c].rows = rows
          /\ rows # {} => call'[c].dim = dim
      BY <2>3, <2>6, AnsweredMoves DEF IInv, CallInv, Statuses
    <3>2. CallOK(call[c])' /\ ~ Locking(call'[c])
      BY <3>1 DEF CallOK, Active, Locking
    <3> QED
      BY <1>1, <2>5, <3>1, <3>2, ReadsInv
  <2>7. CASE call' = [call EXCEPT ![c].pc = "rank", ![c].rows = rows]
    <3>1. Moves(c)
      BY <1>2, <2>3, <2>7 DEF IInv, CallInv, CallsOK, Moves, CallRecord, Pcs
    <3>2. /\ call'[c].pc = "rank" /\ call'[c].rows = rows /\ call'[c].kind = call[c].kind
          /\ call'[c].proc = call[c].proc /\ call'[c].cat = k
          /\ call'[c].arg = call[c].arg /\ call'[c].dim = dim
      BY <1>2, <2>7 DEF IInv, CallInv, CallsOK, CallRecord
    <3>3. CallOK(call[c])' /\ ~ Locking(call'[c])
      BY <1>1, <1>2, <2>1, <3>2 DEF CallOK, Active, Locking, tables
    <3> QED
      BY <1>1, <2>5, <3>1, <3>2, <3>3, ReadsInv
  <2> QED
    BY <1>5, <2>6, <2>7 DEF ReadItems, rows
<1>6. CASE Rank(c)
  <2>1. call[c].pc = "rank"
    BY <1>6 DEF Rank
  <2>2. CASE Answered(c, "200", call[c].rows)
    <3>1. /\ Moves(c) /\ call'[c].pc = "done" /\ call'[c].rows = call[c].rows
          /\ call[c].rows # {} => call'[c].dim = dim
      BY <1>2, <2>2, AnsweredMoves DEF IInv, CallInv, Statuses, CallRecord
    <3>2. CallOK(call[c])' /\ ~ Locking(call'[c])
      BY <3>1 DEF CallOK, Active, Locking
    <3>3. Alone => \A x \in call[c].rows : x.scored = Signature(x.text, dim)
      BY <2>1 DEF IInv, CallInv, SearchCoherent, Alone
    <3> QED
      BY <1>1, <3>1, <3>2, <3>3, ReadsInv
  <2>3. CASE \E status \in {"500", "503"} : Answer(c, status)
    BY <1>1, <2>3, RefusedInv DEF Statuses
  <2> QED
    BY <1>6, <2>2, <2>3 DEF Rank
<1> QED
  BY <1>4, <1>5, <1>6

LEMMA SelectSnapshotInv ==
    ASSUME IInv, NEW c \in Calls, SelectSnapshot(c)
    PROVE  IInv'
<1>1. UNCHANGED tables /\ call[c].pc = "check" /\ Locking(call[c])
  BY DEF SelectSnapshot, tables, At, Locking
<1>2. call[c] \in CallRecord /\ CallOK(call[c])
  BY DEF IInv, CallInv, CallsOK
<1>3. CASE Answer(c, "404")
  BY <1>1, <1>3, RefusedInv DEF Statuses
<1>4. CASE call' = [call EXCEPT ![c].pc = "write"]
  <2>1. Moves(c)
    BY <1>2, <1>4 DEF IInv, CallInv, CallsOK, Moves, CallRecord, Pcs
  <2>2. /\ call'[c].pc = "write" /\ call'[c].kind = call[c].kind
        /\ call'[c].proc = call[c].proc /\ call'[c].cat = call[c].cat
        /\ call'[c].arg = call[c].arg /\ call'[c].dim = call[c].dim
    BY <1>2, <1>4 DEF IInv, CallInv, CallsOK, CallRecord
  <2>3. CallOK(call[c])'
    BY <1>1, <1>2, <2>2 DEF CallOK, Active, Locking, tables
  <2> QED
    BY <1>1, <2>1, <2>2, <2>3, DimKnown, ReadsInv
<1> QED
  BY <1>3, <1>4 DEF SelectSnapshot

-----------------------------------------------------------------------------
(* The theorems *)

LEMMA InitInv == Init => IInv
<1> SUFFICES ASSUME Init PROVE IInv
  OBVIOUS
<1>1. scope \in Scopes /\ scope.dims \subseteq Dims /\ scope.contents \subseteq Contents
  BY CatalogAssumption DEF Init, Contents
<1>2. \A k \in Catalogs : /\ catalog[k] \in scope.dims \cup {None} /\ items[k] \in Contents
                          /\ catalog[k] = None => items[k] = Nothing
                          /\ features[k] = (IF catalog[k] = None THEN Nothing
                                            ELSE Index(items[k], catalog[k]))
  BY <1>1 DEF Init
<1>3. \A k \in Catalogs : features[k] \in [Items -> Signatures]
  BY <1>1, <1>2, IndexType, NothingIndex
<1>4. TypesOK
  <2>1. features \in [Catalogs -> [Items -> Signatures]]
    BY <1>3 DEF Init
  <2>2. items \in [Catalogs -> Contents] /\ catalog \in [Catalogs -> Dims \cup {None}]
    BY <1>1 DEF Init
  <2> QED
    BY <1>1, <2>1, <2>2 DEF Init, TypesOK, Snapped
<1>5. TablesOK /\ IndexMatches
  BY <1>2 DEF Init, TablesOK, IndexMatches
<1>6. \A c \in Calls : call[c] = NoCall
  BY DEF Init
<1>7. CallsOK
  BY <1>6, NoCallType DEF Init, CallsOK, CallOK, Active, Locking
<1>8. DimRead /\ RowsRead /\ SearchCoherent
  BY <1>6, NoCallType DEF DimRead, RowsRead, SearchCoherent, Locking
<1> QED
  BY <1>4, <1>5, <1>7, <1>8 DEF IInv, DataInv, CallInv

LEMMA StepInv == IInv /\ [Next]_vars => IInv'
<1> SUFFICES ASSUME IInv, [Next]_vars PROVE IInv'
  OBVIOUS
<1>1. CASE UNCHANGED vars
  BY <1>1 DEF vars, IInv, DataInv, TypesOK, TablesOK, IndexMatches, Steady, CallInv, CallsOK,
              CallOK, Active, Locking, DimRead, RowsRead, Alone, SearchCoherent
<1>2. ASSUME NEW c \in Calls, Step(c) PROVE IInv'
  BY <1>2, CatalogRowInv, CreateCatalogInv, DeleteCatalogInv, UpsertItemsInv, DeleteItemsInv,
     SearchInv, SnapshotInv, SelectSnapshotInv, RestoreSnapshotInv, RebuildIndexInv DEF Step
<1>3. ASSUME NEW c \in Calls, NEW p \in Procs, NEW k \in Catalogs, NewRequest(c, p, k)
      PROVE  IInv'
  BY <1>3, NewRequestInv
<1> QED
  BY <1>1, <1>2, <1>3 DEF Next

\* The inductive invariant holds in every reachable state.
THEOREM Invariant == Spec => []IInv
BY InitInv, StepInv, PTL DEF Spec

\* Catalogs, index, snapshots and requests have their types.
THEOREM TypeCorrect == Spec => []TypeOK
<1>1. IInv => TypeOK
  BY DEF IInv, DataInv, TypesOK, CallInv, CallsOK, CallRecord, TypeOK
<1> QED
  BY <1>1, Invariant, PTL

\* The index of a catalog is that of its texts and its settings, if one process
\* serves it or its settings never change.
THEOREM IndexOfTexts == Spec => []IndexMatches
<1>1. IInv => IndexMatches
  BY DEF IInv, DataInv
<1> QED
  BY <1>1, Invariant, PTL

\* A search of the only process shows each text with the features it was scored
\* by, although they are read in two statements.
THEOREM CoherentSearch == Spec => []SearchCoherent
<1>1. IInv => SearchCoherent
  BY DEF IInv, CallInv
<1> QED
  BY <1>1, Invariant, PTL

-----------------------------------------------------------------------------
(* What a restore leaves *)

\* A snapshot is what it held when it was made, and a request that is about to
\* restore one of the only process has found it under the same lock.
RestoreInv ==
    /\ \A s \in Snapshots : snapshots[s] # None => taken[s] = snapshots[s]
    /\ \A c \in Calls : call[c].kind = "restore" =>
         /\ call[c].pc \notin {"features", "items", "rank"}
         /\ Alone /\ call[c].pc = "write" => Has(call[c].cat, call[c].arg)

\* A request moves alone.
LEMMA StepMoves ==
    ASSUME IInv, NEW c \in Calls, Step(c), NEW d \in Calls \ {c}
    PROVE  call'[d] = call[d]
<1>1. \A x : call' = [call EXCEPT ![c] = x] => call'[d] = call[d]
  BY DEF IInv, CallInv, CallsOK
<1>2. CASE CatalogRow(c) \/ CreateCatalog(c) \/ DeleteCatalog(c) \/ UpsertItems(c) \/ DeleteItems(c)
  BY <1>2 DEF IInv, CallInv, CallsOK, CatalogRow, CreateCatalog, DeleteCatalog, UpsertItems,
              DeleteItems, Answer, Answered
<1>3. CASE ReadFeatures(c) \/ ReadItems(c) \/ Rank(c)
  BY <1>3 DEF IInv, CallInv, CallsOK, ReadFeatures, ReadItems, Rank, Answer, Answered
<1>4. CASE \/ CreateSnapshot(c) \/ DeleteSnapshot(c) \/ SelectSnapshot(c) \/ RestoreSnapshot(c)
           \/ RebuildIndex(c)
  BY <1>4 DEF IInv, CallInv, CallsOK, CreateSnapshot, DeleteSnapshot, SelectSnapshot,
              RestoreSnapshot, RebuildIndex, Answer, Answered
<1> QED
  BY <1>2, <1>3, <1>4 DEF Step

LEMMA RequestMoves ==
    ASSUME IInv, NEW c \in Calls, NEW p \in Procs, NEW k \in Catalogs, NewRequest(c, p, k)
    PROVE  /\ UNCHANGED tables
           /\ call'[c].pc = "row" /\ call'[c].answer = None
           /\ \A d \in Calls \ {c} : call'[d] = call[d]
<1>1. ASSUME NEW kind, NEW arg, Request(c, p, kind, k, arg)
      PROVE  /\ UNCHANGED tables
             /\ call'[c].pc = "row" /\ call'[c].answer = None
             /\ \A d \in Calls \ {c} : call'[d] = call[d]
  <2> DEFINE x == [NoCall EXCEPT !.kind = kind, !.proc = p, !.cat = k, !.pc = "row", !.arg = arg]
  <2>1. x.pc = "row" /\ x.answer = None
    BY NoCallType DEF CallRecord
  <2>2. call' = [call EXCEPT ![c] = x] /\ UNCHANGED tables
    BY <1>1 DEF Request, tables
  <2> HIDE DEF x
  <2> QED
    BY <2>1, <2>2 DEF IInv, CallInv, CallsOK
<1> QED
  BY <1>1 DEF NewRequest, CatalogRequest, ItemRequest, SnapshotRequest

LEMMA AnsweredKind ==
    ASSUME IInv, NEW c \in Calls, NEW status, NEW rows, Answered(c, status, rows)
    PROVE  call'[c].kind = None /\ call'[c].pc = "done" /\ call'[c].answer = status
<1> DEFINE d == IF rows = {} THEN None ELSE call[c].dim
           x == [NoCall EXCEPT !.pc = "done", !.answer = status, !.rows = rows, !.dim = d]
<1>1. call' = [call EXCEPT ![c] = x]
  BY DEF Answered
<1> HIDE DEF d
<1>2. x.kind = None /\ x.pc = "done" /\ x.answer = status
  BY NoCallType DEF CallRecord
<1> HIDE DEF x
<1> QED
  BY <1>1, <1>2 DEF IInv, CallInv, CallsOK

LEMMA StepKind ==
    ASSUME IInv, NEW c \in Calls, Step(c)
    PROVE  call'[c].kind \in {None, call[c].kind}
<1>1. CASE \E status, rows : Answered(c, status, rows)
  BY <1>1, AnsweredKind
<1>3. CASE CreateCatalog(c) \/ DeleteCatalog(c) \/ UpsertItems(c) \/ DeleteItems(c) \/ Rank(c)
  BY <1>1, <1>3 DEF CreateCatalog, DeleteCatalog, UpsertItems, DeleteItems, Rank, Answer
<1>4. CASE CreateSnapshot(c) \/ DeleteSnapshot(c) \/ RestoreSnapshot(c) \/ RebuildIndex(c)
  BY <1>1, <1>4 DEF CreateSnapshot, DeleteSnapshot, RestoreSnapshot, RebuildIndex, Answer
<1>5. ASSUME NEW q, NEW dim, call' = [call EXCEPT ![c].pc = q, ![c].dim = dim]
      PROVE  call'[c].kind = call[c].kind
  BY <1>5 DEF IInv, CallInv, CallsOK, CallRecord
<1>6. ASSUME NEW q, NEW rows, call' = [call EXCEPT ![c].pc = q, ![c].rows = rows]
      PROVE  call'[c].kind = call[c].kind
  BY <1>6 DEF IInv, CallInv, CallsOK, CallRecord
<1>7. CASE CatalogRow(c)
  BY <1>1, <1>5, <1>7 DEF CatalogRow, Answer
<1>8. CASE SelectSnapshot(c)
  <2>1. CASE call' = [call EXCEPT ![c].pc = "write"]
    BY <2>1 DEF IInv, CallInv, CallsOK, CallRecord
  <2> QED
    BY <1>1, <1>8, <2>1 DEF SelectSnapshot, Answer
<1>9. CASE ReadFeatures(c)
  BY <1>1, <1>6, <1>9 DEF ReadFeatures, Answer
<1>10. CASE ReadItems(c)
  BY <1>1, <1>6, <1>10 DEF ReadItems
<1> QED
  BY <1>3, <1>4, <1>7, <1>8, <1>9, <1>10 DEF Step

LEMMA SnapshotsKept ==
    ASSUME IInv, RestoreInv, NEW c \in Calls, Step(c), NEW s \in Snapshots, snapshots'[s] # None
    PROVE  taken'[s] = snapshots'[s]
<1>1. CASE UNCHANGED <<snapshots, taken>>
  BY <1>1 DEF RestoreInv
<1>2. CASE CreateSnapshot(c)
  BY <1>2 DEF CreateSnapshot, RestoreInv, IInv, DataInv, TypesOK
<1>3. CASE DeleteSnapshot(c)
  BY <1>3 DEF DeleteSnapshot, RestoreInv, IInv, DataInv, TypesOK
<1>4. CASE DeleteCatalog(c)
  BY <1>4 DEF DeleteCatalog, RestoreInv
<1>5. CASE \/ CatalogRow(c) \/ CreateCatalog(c) \/ UpsertItems(c) \/ DeleteItems(c)
           \/ ReadFeatures(c) \/ ReadItems(c) \/ Rank(c)
           \/ SelectSnapshot(c) \/ RestoreSnapshot(c) \/ RebuildIndex(c)
  BY <1>1, <1>5 DEF CatalogRow, CreateCatalog, UpsertItems, DeleteItems, ReadFeatures, ReadItems,
                    Rank, SelectSnapshot, RestoreSnapshot, RebuildIndex
<1> QED
  BY <1>2, <1>3, <1>4, <1>5 DEF Step

\* The steps of a restore.
LEMMA RestoreStep ==
    ASSUME IInv, RestoreInv, NEW c \in Calls, Step(c), call[c].kind = "restore"
    PROVE  \/ RestoreSnapshot(c)
           \/ Answer(c, "404") /\ UNCHANGED tables
           \/ call[c].pc = "row" /\ call' = [call EXCEPT ![c].pc = "check", ![c].dim = catalog[call[c].cat]]
           \/ /\ Has(call[c].cat, call[c].arg) /\ UNCHANGED tables
              /\ call' = [call EXCEPT ![c].pc = "write"]
<1>1. ~ (ReadFeatures(c) \/ ReadItems(c) \/ Rank(c))
  BY DEF ReadFeatures, ReadItems, Rank, At, RestoreInv
<1>2. ~ (CreateCatalog(c) \/ DeleteCatalog(c) \/ UpsertItems(c) \/ DeleteItems(c)
          \/ CreateSnapshot(c) \/ DeleteSnapshot(c) \/ RebuildIndex(c))
  BY DEF CreateCatalog, DeleteCatalog, UpsertItems, DeleteItems, CreateSnapshot, DeleteSnapshot,
         RebuildIndex, Writes
<1>3. CASE CatalogRow(c)
  BY <1>3 DEF CatalogRow, At, tables
<1>4. CASE SelectSnapshot(c)
  BY <1>4 DEF SelectSnapshot, tables
<1> QED
  BY <1>1, <1>2, <1>3, <1>4 DEF Step

LEMMA RestoreStepInv ==
    ASSUME IInv, RestoreInv, NEW c \in Calls, Step(c)
    PROVE  RestoreInv'
<1>1. \A s \in Snapshots : snapshots'[s] # None => taken'[s] = snapshots'[s]
  BY SnapshotsKept
<1>2. scope' = scope
  BY DEF Step, CatalogRow, CreateCatalog, DeleteCatalog, UpsertItems, DeleteItems, ReadFeatures,
         ReadItems, Rank, CreateSnapshot, DeleteSnapshot, SelectSnapshot, RestoreSnapshot,
         RebuildIndex
<1>3. ASSUME call'[c].kind = "restore"
      PROVE  /\ call'[c].pc \notin {"features", "items", "rank"}
             /\ call'[c].pc = "write" => Has(call[c].cat, call[c].arg)'
  <2>1. call[c].kind = "restore" /\ call[c] \in CallRecord
    BY <1>3, StepKind, CatalogAssumption DEF Kinds, IInv, CallInv, CallsOK
  <2>2. CASE RestoreSnapshot(c) \/ Answer(c, "404")
    BY <1>3, <2>2, AnsweredKind, CatalogAssumption DEF RestoreSnapshot, Answer, Kinds
  <2>3. CASE call' = [call EXCEPT ![c].pc = "check", ![c].dim = catalog[call[c].cat]]
    BY <2>1, <2>3 DEF IInv, CallInv, CallsOK, CallRecord
  <2>4. CASE /\ Has(call[c].cat, call[c].arg) /\ UNCHANGED tables
             /\ call' = [call EXCEPT ![c].pc = "write"]
    <3>1. call'[c].pc = "write" /\ call'[c].cat = call[c].cat /\ call'[c].arg = call[c].arg
      BY <2>1, <2>4 DEF IInv, CallInv, CallsOK, CallRecord
    <3> QED
      BY <2>4, <3>1 DEF Has, tables
  <2> QED
    BY <2>1, <2>2, <2>3, <2>4, RestoreStep
<1>4. ASSUME NEW d \in Calls \ {c}, call[d].kind = "restore", Alone, call[d].pc = "write"
      PROVE  Has(call[d].cat, call[d].arg) /\ UNCHANGED snapshots
  <2>1. ~ \E pc \in Pcs \ {"idle", "done"} : At(c, pc)
    BY <1>4, OneHolder DEF Locking
  <2>2. Rank(c)
    BY <2>1 DEF Step, CatalogRow, CreateCatalog, DeleteCatalog, UpsertItems, DeleteItems,
                ReadFeatures, ReadItems, CreateSnapshot, DeleteSnapshot, SelectSnapshot,
                RestoreSnapshot, RebuildIndex, Writes, Pcs
  <2> QED
    BY <1>4, <2>2 DEF Rank, RestoreInv
<1>5. \A d \in Calls \ {c} : call'[d] = call[d]
  BY StepMoves
<1> QED
  <2>1. ASSUME NEW d \in Calls, call'[d].kind = "restore"
        PROVE  /\ call'[d].pc \notin {"features", "items", "rank"}
               /\ Alone' /\ call'[d].pc = "write" => Has(call[d].cat, call[d].arg)'
    <3>1. CASE d = c
      BY <1>3, <2>1, <3>1
    <3>2. CASE d # c
      BY <1>2, <1>4, <1>5, <2>1, <3>2 DEF RestoreInv, Alone, Has
    <3> QED
      BY <3>1, <3>2
  <2> QED
    BY <1>1, <2>1 DEF RestoreInv

LEMMA RestoreInvStep == IInv /\ RestoreInv /\ [Next]_vars => RestoreInv'
<1> SUFFICES ASSUME IInv, RestoreInv, [Next]_vars PROVE RestoreInv'
  OBVIOUS
<1>1. CASE UNCHANGED vars
  BY <1>1 DEF vars, RestoreInv, Alone, Has
<1>2. ASSUME NEW c \in Calls, NEW p \in Procs, NEW k \in Catalogs, NewRequest(c, p, k)
      PROVE  RestoreInv'
  BY <1>2, RequestMoves DEF RestoreInv, Alone, Has, tables
<1> QED
  BY <1>1, <1>2, RestoreStepInv DEF Next

\* A restore that is answered leaves what the snapshot held when it was made;
\* nothing, if another process has deleted it since it was looked for.
THEOREM ExactRestore == Spec => RestoreExact
<1> DEFINE Exact(c) ==
      call[c].kind = "restore" /\ call[c].answer = None /\ call'[c].answer = "200" =>
          \/ items'[call[c].cat] = taken[call[c].arg].items
          \/ Cardinality(scope.procs) > 1 /\ items'[call[c].cat] = Nothing
<1>1. ASSUME IInv, RestoreInv, [Next]_vars, NEW c \in Calls PROVE Exact(c)
  <2> SUFFICES ASSUME call[c].kind = "restore", call[c].answer = None, call'[c].answer = "200"
               PROVE  \/ items'[call[c].cat] = taken[call[c].arg].items
                      \/ Cardinality(scope.procs) > 1 /\ items'[call[c].cat] = Nothing
    OBVIOUS
  <2>1. call'[c].answer # None /\ call'[c] # call[c]
    BY CatalogAssumption DEF Statuses
  <2>2. Step(c)
    BY <1>1, <2>1, StepMoves, RequestMoves DEF Next, vars
  <2>3. call[c] \in CallRecord /\ CallOK(call[c])
    BY <1>1 DEF IInv, CallInv, CallsOK
  <2>4. ~ Answer(c, "404")
    BY <1>1, AnsweredKind DEF Answer
  <2>5. call' # [call EXCEPT ![c].pc = "check", ![c].dim = catalog[call[c].cat]]
    BY <1>1, <2>1, <2>3 DEF IInv, CallInv, CallsOK, CallRecord
  <2>6. call' # [call EXCEPT ![c].pc = "write"]
    BY <1>1, <2>1, <2>3 DEF IInv, CallInv, CallsOK, CallRecord
  <2>7. RestoreSnapshot(c)
    BY <1>1, <2>2, <2>4, <2>5, <2>6, RestoreStep
  <2>8. /\ call[c].cat \in Catalogs /\ call[c].arg \in Snapshots /\ call[c].pc = "write"
        /\ call[c].proc \in scope.procs
    BY <1>1, <2>3, <2>7, WriterKnown DEF RestoreSnapshot, CallOK, Active
  <2>9. items'[call[c].cat] = IF Has(call[c].cat, call[c].arg) THEN snapshots[call[c].arg].items
                                                               ELSE Nothing
    BY <1>1, <2>7, <2>8 DEF RestoreSnapshot, IInv, DataInv, TypesOK
  <2>10. CASE Has(call[c].cat, call[c].arg)
    BY <1>1, <2>8, <2>9, <2>10 DEF Has, RestoreInv
  <2>11. CASE ~ Has(call[c].cat, call[c].arg)
    <3>1. ~ Alone
      BY <1>1, <2>8, <2>11 DEF RestoreInv
    <3>2. IsFiniteSet(scope.procs)
      BY <1>1, CatalogAssumption DEF IInv, DataInv, TypesOK
    <3>3. Cardinality(scope.procs) \in Nat /\ Cardinality(scope.procs) # 0
      BY <2>8, <3>2, FS_CardinalityType, FS_EmptySet
    <3> QED
      BY <2>9, <2>11, <3>1, <3>3 DEF Alone
  <2> QED
    BY <2>10, <2>11
<1>2. Init => RestoreInv
  BY NoCallType, CatalogAssumption DEF Init, RestoreInv, Kinds
<1>3. IInv /\ RestoreInv /\ [Next]_vars => [\A c \in Calls : Exact(c)]_vars
  BY <1>1
<1>4. Spec => [][\A c \in Calls : Exact(c)]_vars
  BY <1>2, <1>3, Invariant, RestoreInvStep, PTL DEF Spec
<1> QED
  BY <1>4 DEF RestoreExact
=============================================================================
