--------------------------- MODULE CandidateCatalog ---------------------------
(***************************************************************************)
(* Persistent candidate catalogs: app/candidate_catalog.py,                *)
(* app/candidate_catalog_ops.py and the routes of                          *)
(* app/candidate_catalog_api.py.                                           *)
(*                                                                         *)
(* A catalog's items, its inverted index and its snapshots are tables of   *)
(* one SQLite file.  Every server process has a connection to it, and a    *)
(* lock that an operation holds from its first statement to its last.  The *)
(* SELECTs before the first write are statements of their own: another     *)
(* process may write between them and the transaction that follows.        *)
(*                                                                         *)
(* The catalogs of a project are those of Catalogs; a search is one of a   *)
(* catalog that has no active generation, whose query shares an n-gram     *)
(* with every text that has one.                                           *)
(***************************************************************************)
EXTENDS Naturals, FiniteSets

CONSTANTS
    Procs,      \* server processes
    Catalogs,   \* catalog ids
    Items,      \* item ids
    Texts,
    Blank,      \* the texts too short or too empty to have an n-gram
    Dims,       \* index settings: feature_dim, ngram_min and ngram_max
    Snapshots,  \* snapshot ids
    Calls,      \* requests
    Scopes,     \* the deployments explored
    None

\* The routes that are modelled.
Kinds == {"create", "delete", "upsert", "delete_items", "search", "snapshot", "drop_snapshot",
          "restore", "rebuild"}

\* HTTP statuses.
Statuses == {"200", "404", "409", "500", "503"}

ASSUME CatalogAssumption ==
    /\ Blank \subseteq Texts
    /\ None \notin Texts \cup Dims \cup Kinds \cup Statuses
    /\ \A s \in Scopes :
         /\ s.procs \subseteq Procs /\ IsFiniteSet(s.procs)
         /\ s.dims \subseteq Dims /\ IsFiniteSet(s.dims)
         /\ s.contents \subseteq [Items -> Texts \cup {None}]
         /\ \A batch \in s.batches : \E S \in SUBSET Items : batch \in [S -> Texts]

VARIABLES
    scope,      \* chosen at the start
    catalog,    \* candidate_catalogs: the settings of each catalog
    items,      \* candidate_catalog_items: the text of each
    features,   \* candidate_catalog_features: the signature of each
    snapshots,  \* the catalog and the items of each snapshot
    taken,      \* what each snapshot held when it was made
    call        \* the requests

vars == <<scope, catalog, items, features, snapshots, taken, call>>

Contents == [Items -> Texts \cup {None}]

Nothing == [i \in Items |-> None]

\* sparse_signature: the features depend on the settings of the catalog.
Signature(text, dim) == IF text \in Blank \cup {None} THEN None ELSE <<text, dim>>

\* The rows _rebuild_locked inserts.
Index(content, dim) == [i \in Items |-> Signature(content[i], dim)]

-----------------------------------------------------------------------------
(* Requests *)

NoCall == [kind |-> None, proc |-> None, pc |-> "idle", cat |-> None, arg |-> None,
           dim |-> None, rows |-> {}, answer |-> None]

\* Mutant: a search takes the lock for each of its statements.
HoldsLockToWrite(c) == call[c].pc \in {"check", "write"}

\* The statements that run under the lock of the store.
HoldsLock(c) == call[c].pc \in {"check", "write", "features", "items"}

At(c, pc) ==
    /\ call[c].pc = pc
    /\ \A d \in Calls \ {c} : call[d].proc = call[c].proc => ~ HoldsLock(d)

Request(c, p, kind, k, arg) ==
    /\ call[c].pc = "idle"
    /\ Cardinality({d \in Calls : call[d].pc # "idle"}) < scope.calls
    /\ kind \in scope.kinds
    /\ p \in scope.procs
    /\ call' = [call EXCEPT ![c] = [NoCall EXCEPT !.kind = kind, !.proc = p, !.cat = k,
                                        !.pc = "row", !.arg = arg]]
    /\ UNCHANGED <<scope, catalog, items, features, snapshots, taken>>

CatalogRequest(c, p, k) ==
    \/ \E dim \in scope.dims : Request(c, p, "create", k, dim)
    \/ Request(c, p, "delete", k, None)

ItemRequest(c, p, k) ==
    \/ \E batch \in scope.batches : Request(c, p, "upsert", k, batch)
    \/ \E S \in (SUBSET Items) \ {{}} : Request(c, p, "delete_items", k, S)
    \/ \E method \in {"local_sparse", "openai_compatible"} : Request(c, p, "search", k, method)

\* Snapshot ids are never given out twice.
SnapshotRequest(c, p, k) ==
    \/ \E s \in Snapshots :
         \/ /\ taken[s] = None
            /\ \A d \in Calls : call[d].kind = "snapshot" => call[d].arg # s
            /\ Request(c, p, "snapshot", k, s)
         \/ taken[s] # None /\ \E kind \in {"drop_snapshot", "restore"} : Request(c, p, kind, k, s)
    \/ Request(c, p, "rebuild", k, None)

\* Of a request that is over its answer is left.
Answered(c, status, rows) ==
    call' = [call EXCEPT ![c] = [NoCall EXCEPT !.pc = "done", !.answer = status, !.rows = rows,
                                               !.dim = IF rows = {} THEN None ELSE call[c].dim]]

Answer(c, status) == Answered(c, status, {})

\* _catalog_row
CatalogRow(c) ==
    LET a == call[c]
        next == CASE a.kind = "restore" -> "check"
                  [] a.kind = "search" -> "features"
                  [] OTHER -> "write"
    IN  /\ At(c, "row") /\ a.kind # "create"
        /\ IF catalog[a.cat] = None THEN Answer(c, "404")
           ELSE call' = [call EXCEPT ![c].pc = next, ![c].dim = catalog[a.cat]]
        /\ UNCHANGED <<scope, catalog, items, features, snapshots, taken>>

Writes(c, kind) == At(c, "write") /\ call[c].kind = kind

-----------------------------------------------------------------------------
(* CandidateCatalogStore *)

CreateCatalog(c) ==
    LET k == call[c].cat
    IN  /\ At(c, "row") /\ call[c].kind = "create"
        /\ IF catalog[k] = None
           THEN /\ catalog' = [catalog EXCEPT ![k] = call[c].arg]
                /\ Answer(c, "200")
           ELSE /\ Answer(c, "409")
                /\ UNCHANGED catalog
        /\ UNCHANGED <<scope, items, features, snapshots, taken>>

\* The items, features and snapshots of the catalog go with it.
DeleteCatalog(c) ==
    LET k == call[c].cat
    IN  /\ Writes(c, "delete")
        /\ catalog' = [catalog EXCEPT ![k] = None]
        /\ items' = [items EXCEPT ![k] = Nothing]
        /\ features' = [features EXCEPT ![k] = Nothing]
        /\ snapshots' = [s \in Snapshots |-> IF snapshots[s] # None /\ snapshots[s].cat = k
                                             THEN None ELSE snapshots[s]]
        /\ Answer(c, "200")
        /\ UNCHANGED <<scope, taken>>

\* The foreign key refuses items of a catalog that is gone.
UpsertItems(c) ==
    LET k == call[c].cat
        batch == call[c].arg
    IN  /\ Writes(c, "upsert")
        /\ IF catalog[k] = None
           THEN /\ Answer(c, "500")
                /\ UNCHANGED <<items, features>>
           ELSE /\ items' = [items EXCEPT ![k] =
                       [i \in Items |-> IF i \in DOMAIN batch THEN batch[i] ELSE items[k][i]]]
                /\ features' = [features EXCEPT ![k] =
                       [i \in Items |-> IF i \in DOMAIN batch THEN Signature(batch[i], call[c].dim)
                                                              ELSE features[k][i]]]
                /\ Answer(c, "200")
        /\ UNCHANGED <<scope, catalog, snapshots, taken>>

\* Features go with their item; the last SELECT looks for the catalog again.
DeleteItems(c) ==
    LET k == call[c].cat
        Without(table) == [i \in Items |-> IF i \in call[c].arg THEN None ELSE table[i]]
    IN  /\ Writes(c, "delete_items")
        /\ IF catalog[k] = None
           THEN /\ Answer(c, "404")
                /\ UNCHANGED <<items, features>>
           ELSE /\ items' = [items EXCEPT ![k] = Without(@)]
                /\ features' = [features EXCEPT ![k] = Without(@)]
                /\ Answer(c, "200")
        /\ UNCHANGED <<scope, catalog, snapshots, taken>>

-----------------------------------------------------------------------------
(* local_candidates and CandidateCatalogEngine.search *)

\* The feature rows that overlap with the query.
ReadFeatures(c) ==
    LET found == features[call[c].cat]
    IN  /\ At(c, "features")
        /\ IF found = Nothing THEN Answer(c, "200")
           ELSE call' = [call EXCEPT ![c].pc = "items",
                            ![c].rows = {[item |-> i, scored |-> found[i]] :
                                           i \in {i \in Items : found[i] # None}}]
        /\ UNCHANGED <<scope, catalog, items, features, snapshots, taken>>

\* Their texts; an item that is no longer stored is left out.
ReadItems(c) ==
    LET text == items[call[c].cat]
        rows == {[item |-> x.item, scored |-> x.scored, text |-> text[x.item]] :
                   x \in {x \in call[c].rows : text[x.item] # None}}
        external == call[c].arg = "openai_compatible" /\ rows # {}
    IN  /\ At(c, "items")
        /\ IF external THEN call' = [call EXCEPT ![c].pc = "rank", ![c].rows = rows]
                       ELSE Answered(c, "200", rows)
        /\ UNCHANGED <<scope, catalog, items, features, snapshots, taken>>

\* The model provider ranks the shortlist, or fails.
Rank(c) ==
    /\ call[c].pc = "rank"
    /\ \/ Answered(c, "200", call[c].rows)
       \/ \E status \in {"500", "503"} : Answer(c, status)
    /\ UNCHANGED <<scope, catalog, items, features, snapshots, taken>>

-----------------------------------------------------------------------------
(* CandidateCatalogSnapshotManager *)

CreateSnapshot(c) ==
    LET k == call[c].cat
        snap == [cat |-> k, items |-> items[k]]
    IN  /\ Writes(c, "snapshot")
        /\ IF catalog[k] = None
           THEN /\ Answer(c, "500")
                /\ UNCHANGED <<snapshots, taken>>
           ELSE /\ snapshots' = [snapshots EXCEPT ![call[c].arg] = snap]
                /\ taken' = [taken EXCEPT ![call[c].arg] = snap]
                /\ Answer(c, "200")
        /\ UNCHANGED <<scope, catalog, items, features>>

\* The snapshot s is one of catalog k.
Has(k, s) == snapshots[s] # None /\ snapshots[s].cat = k

DeleteSnapshot(c) ==
    LET a == call[c]
    IN  /\ Writes(c, "drop_snapshot")
        /\ IF Has(a.cat, a.arg)
           THEN /\ snapshots' = [snapshots EXCEPT ![a.arg] = None]
                /\ Answer(c, "200")
           ELSE /\ Answer(c, "404")
                /\ UNCHANGED snapshots
        /\ UNCHANGED <<scope, catalog, items, features, taken>>

SelectSnapshot(c) ==
    LET a == call[c]
    IN  /\ At(c, "check")
        /\ IF Has(a.cat, a.arg) THEN call' = [call EXCEPT ![c].pc = "write"]
                                ELSE Answer(c, "404")
        /\ UNCHANGED <<scope, catalog, items, features, snapshots, taken>>

\* Mutant: the index is not rebuilt.
RestoreItems(c) ==
    LET a == call[c]
        content == IF Has(a.cat, a.arg) THEN snapshots[a.arg].items ELSE Nothing
    IN  /\ Writes(c, "restore")
        /\ items' = [items EXCEPT ![a.cat] = content]
        /\ Answer(c, "200")
        /\ UNCHANGED <<scope, catalog, features, snapshots, taken>>

\* The items become those of the snapshot, and the index is rebuilt with the
\* settings that were read; what is gone by now has no items.
RestoreSnapshot(c) ==
    LET a == call[c]
        content == IF Has(a.cat, a.arg) THEN snapshots[a.arg].items ELSE Nothing
    IN  /\ Writes(c, "restore")
        /\ items' = [items EXCEPT ![a.cat] = content]
        /\ features' = [features EXCEPT ![a.cat] = Index(content, a.dim)]
        /\ Answer(c, "200")
        /\ UNCHANGED <<scope, catalog, snapshots, taken>>

RebuildIndex(c) ==
    LET a == call[c]
    IN  /\ Writes(c, "rebuild")
        /\ features' = [features EXCEPT ![a.cat] = Index(items[a.cat], a.dim)]
        /\ Answer(c, "200")
        /\ UNCHANGED <<scope, catalog, items, snapshots, taken>>

-----------------------------------------------------------------------------
Init ==
    /\ scope \in Scopes
    /\ catalog \in [Catalogs -> scope.dims \cup {None}]
    /\ items \in [Catalogs -> scope.contents]
    /\ \A k \in Catalogs : catalog[k] = None => items[k] = Nothing
    /\ features = [k \in Catalogs |-> IF catalog[k] = None THEN Nothing
                                      ELSE Index(items[k], catalog[k])]
    /\ snapshots = [s \in Snapshots |-> None]
    /\ taken = [s \in Snapshots |-> None]
    /\ call = [c \in Calls |-> NoCall]

Step(c) ==
    \/ CatalogRow(c)
    \/ CreateCatalog(c) \/ DeleteCatalog(c) \/ UpsertItems(c) \/ DeleteItems(c)
    \/ ReadFeatures(c) \/ ReadItems(c) \/ Rank(c)
    \/ CreateSnapshot(c) \/ DeleteSnapshot(c) \/ SelectSnapshot(c) \/ RestoreSnapshot(c)
    \/ RebuildIndex(c)

NewRequest(c, p, k) == CatalogRequest(c, p, k) \/ ItemRequest(c, p, k) \/ SnapshotRequest(c, p, k)

Next ==
    \/ \E c \in Calls : Step(c)
    \/ \E c \in Calls, p \in Procs, k \in Catalogs : NewRequest(c, p, k)

Spec == Init /\ [][Next]_vars

-----------------------------------------------------------------------------
(* Properties *)

Snapped == [cat : Catalogs, items : Contents] \cup {None}

Signatures == (Texts \X Dims) \cup {None}

Rows == [item : Items, scored : Signatures] \cup [item : Items, scored : Signatures, text : Texts]

Pcs == {"idle", "row", "check", "write", "features", "items", "rank", "done"}

\* Every variable has its type.
TypeOK ==
    /\ scope \in Scopes
    /\ catalog \in [Catalogs -> Dims \cup {None}]
    /\ items \in [Catalogs -> Contents]
    /\ features \in [Catalogs -> [Items -> Signatures]]
    /\ snapshots \in [Snapshots -> Snapped]
    /\ taken \in [Snapshots -> Snapped]
    /\ \A c \in Calls :
         /\ call[c].kind \in Kinds \cup {None} /\ call[c].pc \in Pcs
         /\ call[c].proc \in Procs \cup {None} /\ call[c].cat \in Catalogs \cup {None}
         /\ call[c].dim \in Dims \cup {None} /\ call[c].rows \subseteq Rows
         /\ call[c].answer \in Statuses \cup {None}

\* One process serves the store, or no catalog is made again with other settings.
Steady == Cardinality(scope.procs) = 1 \/ Cardinality(scope.dims) = 1

\* The index of a catalog is that of its texts and its settings, whatever has
\* been upserted, deleted, restored and rebuilt, so that an integrity report is
\* ok but for blank texts, and a rebuild changes nothing.  Settings read before
\* the transaction may be those of a catalog another process deleted.
IndexMatches == Steady => \A k \in Catalogs : catalog[k] # None =>
                              features[k] = Index(items[k], catalog[k])

\* docs/CANDIDATE_CATALOGS.md: restoring a snapshot replaces the live item set
\* in one transaction.  A restore leaves what the snapshot held when it was
\* made, or nothing at all when another process deletes it meanwhile.
RestoreExact ==
    [][\A c \in Calls :
        call[c].kind = "restore" /\ call[c].answer = None /\ call'[c].answer = "200" =>
            \/ items'[call[c].cat] = taken[call[c].arg].items
            \/ Cardinality(scope.procs) > 1 /\ items'[call[c].cat] = Nothing]_vars

\* docs/CANDIDATE_CATALOGS.md: searches in the same process do not observe a
\* partially rebuilt index.  Each result was scored by the text it is shown with.
SearchCoherent ==
    Cardinality(scope.procs) = 1 =>
        \A c \in Calls : call[c].pc \in {"rank", "done"} =>
            \A x \in call[c].rows : x.scored = Signature(x.text, call[c].dim)

\* The same of every deployment.  Violated: see CatalogIndexStale.cfg.
IndexAlwaysMatches ==
    \A k \in Catalogs : catalog[k] # None => features[k] = Index(items[k], catalog[k])

=============================================================================
