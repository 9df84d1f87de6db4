-------------------------- MODULE DecisionGraphProofs --------------------------
(***************************************************************************)
(* Proofs about DecisionGraph, for every value of its constants that       *)
(* satisfies its three assumptions.                                        *)
(*                                                                         *)
(* First the algorithms: Kahn's order lists every node of an accepted      *)
(* definition once and behind its parents, so a wave is never empty, and   *)
(* the recursive definition of Level has a solution.  Then the steps: each *)
(* action is shown to be one of a few relations between the record of a    *)
(* run before and after it.  TypeInv is the inductive invariant of types   *)
(* and of the shape of a run; the layers StoreInv, VerdictInv, ReviewInv,  *)
(* HookInv and WavesInv rest on it and give one theorem each.              *)
(***************************************************************************)
EXTENDS DecisionGraph, FiniteSetTheorems, NaturalsInduction, WellFoundedInduction,
        FunctionTheorems, TLAPS

-----------------------------------------------------------------------------
(* Counting, and the elements of a sequence that are in a set. *)

\* A set of numbers with 0 and with the successor of each of its numbers
\* below n holds every number up to n.
LEMMA UpTo ==
    ASSUME NEW n \in Nat, NEW S, 0 \in S, \A k \in 0 .. n - 1 : k \in S => k + 1 \in S
    PROVE  \A k \in 0 .. n : k \in S
<1> SUFFICES ASSUME NEW k \in 0 .. n, k \notin S PROVE FALSE
  OBVIOUS
<1> DEFINE T == {j \in 0 .. n : j \notin S}
<1>1. T \subseteq Nat /\ T # {}
  OBVIOUS
<1>2. PICK m \in T : \A j \in T : ~ (<<j, m>> \in OpToRel(<, Nat))
  BY <1>1, NatLessThanWellFounded, WFMin
<1>3. \A j \in T : ~ (j < m)
  BY <1>1, <1>2, Zenon DEF OpToRel
<1>4. m \in 0 .. n /\ m # 0 /\ m \notin S
  OBVIOUS
<1>5. m - 1 \in 0 .. n - 1 /\ m - 1 \in 0 .. n
  BY <1>4
<1>6. m - 1 \in S
  BY <1>3, <1>5
<1>7. (m - 1) + 1 = m
  BY <1>4
<1> QED
  BY <1>4, <1>5, <1>6, <1>7

\* The numbers from 1 to n are n.
LEMMA CountUpTo ==
    ASSUME NEW n \in Nat
    PROVE  IsFiniteSet(1 .. n) /\ Cardinality(1 .. n) = n
BY FS_Interval

\* A sequence over T has its elements, by position, in T.
LEMMA SeqFacts ==
    ASSUME NEW T, NEW seq \in Seq(T)
    PROVE  /\ Len(seq) \in Nat /\ DOMAIN seq = 1 .. Len(seq)
           /\ \A i \in DOMAIN seq : seq[i] \in T
           /\ Range(seq) \subseteq T
BY DEF Range

\* Picked finds the element of each rank: what it returns is a sequence of
\* the elements of seq that are in S, each as often as in seq.
LEMMA PickedFacts ==
    ASSUME NEW T, NEW seq \in Seq(T), NEW S
    PROVE  /\ Picked(seq, S) \in Seq(T \cap S)
           /\ Range(Picked(seq, S)) = Range(seq) \cap S
           /\ IsInjective(seq) => IsInjective(Picked(seq, S))
<1> DEFINE P == {i \in DOMAIN seq : seq[i] \in S}
           c == Cardinality(P)
           Upto(i) == {j \in P : j <= i}
           rank == [i \in P |-> Cardinality(Upto(i))]
<1>1. DOMAIN seq = 1 .. Len(seq) /\ P \subseteq 1 .. Len(seq) /\ P \subseteq Nat
      /\ IsFiniteSet(P) /\ c \in Nat
  <2>1. Len(seq) \in Nat /\ DOMAIN seq = 1 .. Len(seq) /\ P \in SUBSET (1 .. Len(seq))
    OBVIOUS
  <2>2. IsFiniteSet(1 .. Len(seq))
    BY <2>1, FS_Interval
  <2>3. IsFiniteSet(P)
    BY <2>1, <2>2, FS_Subset
  <2> QED
    BY <2>1, <2>3, FS_CardinalityType
<1>2. \A i \in P : IsFiniteSet(Upto(i)) /\ Cardinality(Upto(i)) \in 1 .. c
  <2> TAKE i \in P
  <2>1. Upto(i) \subseteq P /\ i \in Upto(i)
    BY <1>1
  <2>2. IsFiniteSet(Upto(i)) /\ Cardinality(Upto(i)) \in Nat /\ Cardinality(Upto(i)) <= c
    BY <1>1, <2>1, FS_Subset, FS_CardinalityType
  <2>3. Cardinality(Upto(i)) # 0
    BY <2>1, <2>2, FS_EmptySet
  <2> QED
    BY <1>1, <2>2, <2>3
<1>3. \A i, j \in P : rank[i] = rank[j] => i = j
  <2>1. ASSUME NEW i \in P, NEW j \in P, i < j PROVE rank[i] # rank[j]
    <3>1. Upto(i) \subseteq Upto(j) /\ j \in Upto(j) /\ j \notin Upto(i)
      BY <1>1, <2>1
    <3>2. Cardinality(Upto(i)) # Cardinality(Upto(j))
      BY <1>2, <3>1, FS_Subset
    <3> QED
      BY <3>2
  <2> HIDE DEF rank
  <2> TAKE i, j \in P
  <2>2. i \in Nat /\ j \in Nat
    BY <1>1
  <2>3. i < j \/ j < i \/ i = j
    BY <2>2
  <2> QED
    BY <2>1, <2>3
<1>4. rank \in Surjection(P, 1 .. c)
  <2>1. rank \in Injection(P, 1 .. c)
    <3>1. rank \in [P -> 1 .. c]
      BY <1>2
    <3> HIDE DEF rank
    <3> QED
      BY <1>3, <3>1 DEF Injection, IsInjective
  <2>2. IsFiniteSet(1 .. c) /\ Cardinality(1 .. c) = c
    BY <1>1, FS_Interval
  <2> QED
    BY <2>1, <2>2, FS_Injection
<1>5. \A k \in 1 .. c : \E i \in P : rank[i] = k
  BY <1>4 DEF Surjection
<1> DEFINE at(k) == CHOOSE i \in P : Cardinality({j \in P : j <= i}) = k
<1>6. \A k \in 1 .. c : at(k) \in P /\ rank[at(k)] = k
  BY <1>5
<1>7. Picked(seq, S) = [k \in 1 .. c |-> seq[at(k)]]
  BY DEF Picked
<1> HIDE DEF at, rank, c
<1>8. \A k \in 1 .. c : seq[at(k)] \in T \cap S
  BY <1>1, <1>6
<1>9. Picked(seq, S) \in Seq(T \cap S)
  BY <1>1, <1>7, <1>8
<1>10. DOMAIN Picked(seq, S) = 1 .. c /\ \A k \in 1 .. c : Picked(seq, S)[k] = seq[at(k)]
  BY <1>7
<1>11. \A i \in P : \E k \in 1 .. c : at(k) = i
  <2> TAKE i \in P
  <2>1. rank[i] \in 1 .. c
    BY <1>2 DEF rank
  <2> QED
    BY <1>3, <1>6, <2>1
<1>12. Range(Picked(seq, S)) = Range(seq) \cap S
  <2>1. ASSUME NEW x \in Range(seq) \cap S PROVE x \in Range(Picked(seq, S))
    <3>1. PICK i \in P : x = seq[i]
      BY <2>1 DEF Range
    <3> QED
      BY <1>10, <1>11, <3>1 DEF Range
  <2>2. ASSUME NEW x \in Range(Picked(seq, S)) PROVE x \in Range(seq) \cap S
    BY <1>6, <1>8, <1>10, <2>2 DEF Range
  <2> QED
    BY <2>1, <2>2
<1>13. ASSUME IsInjective(seq) PROVE IsInjective(Picked(seq, S))
  BY <1>6, <1>10, <1>13 DEF IsInjective
<1> QED
  BY <1>9, <1>12, <1>13
-----------------------------------------------------------------------------
(* Kahn's algorithm *)

KahnStart(d) ==
    [ready |-> Picked(d.nodes, {n \in Ids(d) : Incoming(d, n) = {}}), order |-> << >>]

KahnTurn(d, s) ==
    LET order == Append(s.order, Head(s.ready))
    IN  IF s.ready = << >> THEN s
        ELSE [ready |-> Tail(s.ready) \o Freed(d, Head(s.ready), order),
              order |-> order]

\* The steps of the algorithm are those of a function.
LEMMA KahnSteps ==
    ASSUME NEW d, Len(d.nodes) \in Nat
    PROVE  \E f : /\ f[0] = KahnStart(d)
                  /\ \A k \in 1 .. Len(d.nodes) : f[k] = KahnTurn(d, f[k - 1])
                  /\ Kahn(d) = f[Len(d.nodes)].order
<1> DEFINE N == Len(d.nodes)
           Steps(f, n) == f = [k \in 0 .. n |->
                IF k = 0 THEN KahnStart(d) ELSE KahnTurn(d, f[k - 1])]
           S == {n \in 0 .. N : \E f : Steps(f, n)}
<1>1. 0 \in S
  <2> DEFINE f == [k \in 0 .. 0 |-> KahnStart(d)]
  <2>1. f = [k \in 0 .. 0 |-> IF k = 0 THEN KahnStart(d) ELSE KahnTurn(d, f[k - 1])]
    OBVIOUS
  <2> HIDE DEF f
  <2>2. Steps(f, 0)
    BY <2>1
  <2>3. 0 \in 0 .. N
    OBVIOUS
  <2> QED
    BY <2>2, <2>3
<1>2. ASSUME NEW n \in 0 .. N - 1, n \in S PROVE n + 1 \in S
  <2>1. PICK g : Steps(g, n)
    BY <1>2
  <2> DEFINE f == [k \in 0 .. n + 1 |-> IF k = n + 1 THEN KahnTurn(d, g[n]) ELSE g[k]]
  <2>2. \A k \in 0 .. n : f[k] = g[k]
    BY <1>2
  <2>3. \A k \in 0 .. n + 1 :
            f[k] = IF k = 0 THEN KahnStart(d) ELSE KahnTurn(d, f[k - 1])
    <3> TAKE k \in 0 .. n + 1
    <3>1. CASE k = n + 1
      BY <1>2, <2>2, <3>1
    <3>2. CASE k \in 1 .. n
      <4>1. g[k] = KahnTurn(d, g[k - 1])
        BY <2>1, <3>2
      <4>2. f[k] = g[k] /\ f[k - 1] = g[k - 1]
        BY <1>2, <2>2, <3>2
      <4> HIDE DEF f
      <4> QED
        BY <3>2, <4>1, <4>2
    <3>3. CASE k = 0
      <4>1. g[k] = KahnStart(d)
        BY <1>2, <2>1, <3>3
      <4>2. f[k] = g[k]
        BY <1>2, <2>2, <3>3
      <4> QED
        BY <3>3, <4>1, <4>2
    <3> QED
      BY <1>2, <3>1, <3>2, <3>3
  <2>4. Steps(f, n + 1)
    <3>1. f = [k \in 0 .. n + 1 |-> f[k]]
      OBVIOUS
    <3> HIDE DEF f
    <3> QED
      BY <2>3, <3>1
  <2> HIDE DEF f
  <2> QED
    BY <1>2, <2>4
<1>3. N \in S
  <2> HIDE DEF S
  <2>1. \A k \in 0 .. N : k \in S
    BY <1>1, <1>2, UpTo
  <2> QED
    BY <2>1
<1>4. PICK f : Steps(f, N) /\ Kahn(d) = f[N].order
  BY <1>3 DEF Kahn, KahnStart, KahnTurn
<1> HIDE DEF Steps
<1>5. /\ f[0] = KahnStart(d)
      /\ \A k \in 1 .. N : f[k] = KahnTurn(d, f[k - 1])
  <2>1. \A k \in 0 .. N : f[k] = IF k = 0 THEN KahnStart(d) ELSE KahnTurn(d, f[k - 1])
    BY <1>4, Zenon DEF Steps
  <2> QED
    BY <2>1
<1> QED
  BY <1>4, <1>5

\* What the loop keeps: the nodes taken and those ready are told apart, every
\* parent of a node was taken before it.
KahnInv(d, s) ==
    /\ s.order \in Seq(Ids(d)) /\ IsInjective(s.order)
    /\ s.ready \in Seq(Ids(d)) /\ IsInjective(s.ready)
    /\ Range(s.order) \cap Range(s.ready) = {}
    /\ \A i \in DOMAIN s.order :
         Parents(d, s.order[i]) \subseteq {s.order[j] : j \in 1 .. i - 1}
    /\ \A n \in Range(s.ready) : Parents(d, n) \subseteq Range(s.order)

\* A list of definitions' nodes and edges, as GraphDefinition stores it.
Lists(d) == d.nodes \in Seq(Nodes) /\ d.edges \in Seq(Edges(d))

\* The ids of a well-formed definition are those of its list, each once.
LEMMA NodesOnce ==
    ASSUME NEW d, Lists(d), WellFormed(d)
    PROVE  /\ d.nodes \in Seq(Ids(d)) /\ IsInjective(d.nodes)
           /\ IsFiniteSet(Ids(d)) /\ Len(d.nodes) \in Nat
           /\ Cardinality(Ids(d)) = Len(d.nodes)
<1> DEFINE N == Len(d.nodes)
<1>1. N \in Nat /\ d.nodes \in [1 .. N -> Ids(d)]
  BY DEF Lists, Ids
<1>2. d.nodes \in Surjection(1 .. N, Ids(d))
  BY <1>1 DEF Surjection, Ids, Range
<1>3. IsFiniteSet(1 .. N) /\ Cardinality(1 .. N) = N
  BY <1>1, CountUpTo
<1>4. Cardinality(Ids(d)) = N
  BY DEF WellFormed
<1>5. d.nodes \in Injection(1 .. N, Ids(d)) /\ IsFiniteSet(Ids(d))
  BY <1>2, <1>3, <1>4, FS_Surjection
<1> QED
  BY <1>1, <1>4, <1>5 DEF Injection, Lists

\* An edge is in the list once, and leads to its target from one of the
\* target's parents.
LEMMA EdgesOnce ==
    ASSUME NEW d, Lists(d), WellFormed(d)
    PROVE  /\ IsInjective(d.edges)
           /\ \A e, g \in Edges(d) : e.source = g.source /\ e.target = g.target => e = g
           /\ \A e \in Edges(d) : /\ e.target \in Ids(d) /\ e.source # e.target
                                  /\ e.source \in Parents(d, e.target)
           /\ \A n : Parents(d, n) \subseteq Ids(d)
BY DEF WellFormed, IsInjective, Edges, Parents, Incoming

\* What a node frees is a list without repetition of its children whose
\* parents have all been taken.
LEMMA FreedFacts ==
    ASSUME NEW d, Lists(d), WellFormed(d), NEW cur, NEW order
    PROVE  /\ Freed(d, cur, order) \in Seq(Ids(d))
           /\ IsInjective(Freed(d, cur, order))
           /\ \A n \in Range(Freed(d, cur, order)) :
                /\ n # cur /\ cur \in Parents(d, n)
                /\ Parents(d, n) \subseteq Range(order)
<1> DEFINE S == {e \in Edges(d) : /\ e.source = cur
                                  /\ Parents(d, e.target) \subseteq
                                       {order[i] : i \in DOMAIN order}}
           out == Picked(d.edges, S)
<1>1. out \in Seq(Edges(d) \cap S) /\ IsInjective(out)
  BY PickedFacts, EdgesOnce DEF Lists
<1>2. Freed(d, cur, order) = [i \in DOMAIN out |-> out[i].target]
  BY DEF Freed
<1>3. DOMAIN out = 1 .. Len(out) /\ Len(out) \in Nat
      /\ \A i \in DOMAIN out : out[i] \in Edges(d) /\ out[i] \in S
  <2> HIDE DEF out, S
  <2> QED
    BY <1>1, SeqFacts
<1> HIDE DEF out
<1>4. Freed(d, cur, order) \in Seq(Ids(d))
  BY <1>2, <1>3, EdgesOnce
<1>5. \A i, j \in DOMAIN out : out[i].target = out[j].target => i = j
  <2> TAKE i, j \in DOMAIN out
  <2>1. out[i].source = cur /\ out[j].source = cur
    BY <1>3
  <2> QED
    BY <1>1, <1>3, <2>1, EdgesOnce DEF IsInjective
<1>6. IsInjective(Freed(d, cur, order))
  BY <1>2, <1>5 DEF IsInjective
<1>7. ASSUME NEW n \in Range(Freed(d, cur, order))
      PROVE  /\ n # cur /\ cur \in Parents(d, n)
             /\ Parents(d, n) \subseteq Range(order)
  <2>1. PICK i \in DOMAIN out : n = out[i].target
    BY <1>2, <1>7 DEF Range
  <2> QED
    BY <1>3, <2>1, EdgesOnce DEF Range
<1> QED
  BY <1>4, <1>6, <1>7

\* The loop starts with the nodes that have no parent.
LEMMA KahnStartInv ==
    ASSUME NEW d, Lists(d), WellFormed(d)
    PROVE  KahnInv(d, KahnStart(d))
<1> DEFINE S == {n \in Ids(d) : Incoming(d, n) = {}}
           ready == Picked(d.nodes, S)
<1>1. ready \in Seq(Ids(d) \cap S) /\ IsInjective(ready) /\ Range(ready) \subseteq S
  <2> HIDE DEF S
  <2> PICK q : q = d.nodes
    OBVIOUS
  <2>1. q \in Seq(Ids(d)) /\ IsInjective(q)
    BY NodesOnce
  <2>2. /\ Picked(q, S) \in Seq(Ids(d) \cap S) /\ IsInjective(Picked(q, S))
        /\ Range(Picked(q, S)) = Range(q) \cap S
    BY <2>1, PickedFacts
  <2> QED
    BY <2>2
<1>2. \A n \in Range(ready) : Parents(d, n) = {}
  BY <1>1 DEF Parents
<1> HIDE DEF ready
<1>3. ready \in Seq(Ids(d))
  BY <1>1
<1> DEFINE s == KahnStart(d)
<1>4. s.ready = ready /\ s.order = << >>
  BY DEF KahnStart, ready
<1> HIDE DEF s
<1> QED
  <2>1. << >> \in Seq(Ids(d)) /\ IsInjective(<< >>) /\ Range(<< >>) = {} /\ DOMAIN << >> = {}
    BY DEF IsInjective, Range
  <2>2. KahnInv(d, s)
    BY <1>1, <1>2, <1>3, <1>4, <2>1 DEF KahnInv
  <2> QED
    BY <2>2 DEF s

\* Two sequences of different elements make one.
LEMMA ConcatOnce ==
    ASSUME NEW T, NEW a \in Seq(T), NEW b \in Seq(T), IsInjective(a), IsInjective(b),
           Range(a) \cap Range(b) = {}
    PROVE  /\ a \o b \in Seq(T) /\ IsInjective(a \o b)
           /\ Range(a \o b) = Range(a) \cup Range(b)
<1> DEFINE c == a \o b
<1>1. /\ c \in Seq(T) /\ DOMAIN c = 1 .. Len(a) + Len(b)
      /\ DOMAIN a = 1 .. Len(a) /\ DOMAIN b = 1 .. Len(b)
      /\ Len(a) \in Nat /\ Len(b) \in Nat
      /\ \A i \in DOMAIN c : c[i] = IF i <= Len(a) THEN a[i] ELSE b[i - Len(a)]
  OBVIOUS
<1> HIDE DEF c
<1>2. \A i \in DOMAIN b : i + Len(a) \in DOMAIN c /\ c[i + Len(a)] = b[i]
  BY <1>1
<1>3. \A i \in DOMAIN a : i \in DOMAIN c /\ c[i] = a[i]
  BY <1>1
<1>4. \A i \in DOMAIN c : i \in DOMAIN a \/ i - Len(a) \in DOMAIN b
  BY <1>1
<1>5. Range(c) = Range(a) \cup Range(b)
  <2>1. ASSUME NEW i \in DOMAIN c PROVE c[i] \in Range(a) \cup Range(b)
    <3>1. CASE i <= Len(a)
      BY <1>1, <3>1 DEF Range
    <3>2. CASE ~(i <= Len(a))
      <4>1. i - Len(a) \in DOMAIN b /\ c[i] = b[i - Len(a)]
        BY <1>1, <3>2
      <4> QED
        BY <4>1 DEF Range
    <3> QED
      BY <3>1, <3>2
  <2> QED
    BY <1>2, <1>3, <2>1 DEF Range
<1>6. IsInjective(c)
  <2> SUFFICES ASSUME NEW i \in DOMAIN c, NEW j \in DOMAIN c, c[i] = c[j] PROVE i = j
    BY DEF IsInjective
  <2>1. CASE i <= Len(a) /\ j <= Len(a)
    BY <1>1, <2>1 DEF IsInjective
  <2>2. CASE ~(i <= Len(a)) /\ ~(j <= Len(a))
    <3>1. b[i - Len(a)] = b[j - Len(a)] /\ i - Len(a) \in DOMAIN b /\ j - Len(a) \in DOMAIN b
      BY <1>1, <2>2
    <3>2. i - Len(a) = j - Len(a)
      BY <3>1 DEF IsInjective
    <3> QED
      BY <1>1, <3>2
  <2>3. CASE i <= Len(a) /\ ~(j <= Len(a))
    <3>1. c[i] = a[i] /\ i \in DOMAIN a /\ c[j] = b[j - Len(a)] /\ j - Len(a) \in DOMAIN b
      BY <1>1, <2>3
    <3>2. c[i] \in Range(a) /\ c[j] \in Range(b)
      BY <3>1 DEF Range
    <3> QED
      BY <3>2
  <2>4. CASE ~(i <= Len(a)) /\ j <= Len(a)
    <3>1. c[j] = a[j] /\ j \in DOMAIN a /\ c[i] = b[i - Len(a)] /\ i - Len(a) \in DOMAIN b
      BY <1>1, <2>4
    <3>2. c[j] \in Range(a) /\ c[i] \in Range(b)
      BY <3>1 DEF Range
    <3> QED
      BY <3>2
  <2> QED
    BY <2>1, <2>2, <2>3, <2>4
<1> QED
  BY <1>1, <1>5, <1>6 DEF c

\* A turn takes the first node that is ready and adds those it frees.
LEMMA KahnTurnInv ==
    ASSUME NEW d, Lists(d), WellFormed(d), NEW s, KahnInv(d, s)
    PROVE  KahnInv(d, KahnTurn(d, s))
<1>1. CASE s.ready = << >>
  BY <1>1 DEF KahnTurn
<1>2. CASE s.ready # << >>
  <2> DEFINE cur == Head(s.ready)
             rest == Tail(s.ready)
             order == Append(s.order, cur)
             freed == Freed(d, cur, order)
             u == KahnTurn(d, s)
  <2>0. s.order \in Seq(Ids(d)) /\ s.ready \in Seq(Ids(d))
    BY DEF KahnInv
  <2>1. u.order = order /\ u.ready = rest \o freed
    BY <1>2 DEF KahnTurn
  <2>2. /\ cur \in Ids(d) /\ cur \in Range(s.ready)
        /\ rest \in Seq(Ids(d)) /\ DOMAIN rest = 1 .. Len(s.ready) - 1
        /\ \A i \in DOMAIN rest : rest[i] = s.ready[i + 1]
        /\ 1 \in DOMAIN s.ready /\ cur = s.ready[1]
        /\ DOMAIN s.ready = 1 .. Len(s.ready) /\ Len(s.ready) \in Nat
    BY <1>2, <2>0 DEF Range
  <2>3. Range(rest) \subseteq Range(s.ready) /\ cur \notin Range(rest) /\ IsInjective(rest)
    <3> HIDE DEF cur, rest
    <3>1. IsInjective(s.ready) /\ \A i \in DOMAIN rest : i + 1 \in DOMAIN s.ready /\ i + 1 # 1
      BY <2>2 DEF KahnInv
    <3>2. \A i \in DOMAIN rest : rest[i] \in Range(s.ready) /\ rest[i] # cur
      BY <2>2, <3>1 DEF IsInjective, Range
    <3>3. IsInjective(rest)
      <4> SUFFICES ASSUME NEW i \in DOMAIN rest, NEW j \in DOMAIN rest, rest[i] = rest[j]
                   PROVE  i = j
        BY DEF IsInjective
      <4>1. i + 1 = j + 1
        BY <2>2, <3>1 DEF IsInjective
      <4> QED
        BY <2>2, <4>1
    <3> QED
      BY <3>2, <3>3 DEF Range
  <2>4. /\ order \in Seq(Ids(d)) /\ DOMAIN order = 1 .. Len(s.order) + 1
        /\ \A i \in DOMAIN s.order : order[i] = s.order[i]
        /\ order[Len(s.order) + 1] = cur
        /\ DOMAIN s.order = 1 .. Len(s.order) /\ Len(s.order) \in Nat
    BY <2>0, <2>2
  <2>5. Range(order) = Range(s.order) \cup {cur} /\ cur \notin Range(s.order)
    <3> HIDE DEF cur, order
    <3>1. cur \notin Range(s.order)
      BY <2>2 DEF KahnInv
    <3>2. \A i \in DOMAIN order : i \in DOMAIN s.order \/ i = Len(s.order) + 1
      BY <2>4
    <3>3. DOMAIN s.order \subseteq DOMAIN order /\ Len(s.order) + 1 \in DOMAIN order
      BY <2>4
    <3> QED
      BY <2>4, <3>1, <3>2, <3>3 DEF Range
  <2>6. IsInjective(order)
    <3> HIDE DEF cur, order
    <3>1. IsInjective(s.order) /\ \A i \in DOMAIN s.order : s.order[i] # cur
      BY <2>5 DEF KahnInv, Range
    <3>2. \A i \in DOMAIN order : i \in DOMAIN s.order \/ i = Len(s.order) + 1
      BY <2>4
    <3> QED
      BY <2>4, <3>1, <3>2 DEF IsInjective
  <2>7. /\ freed \in Seq(Ids(d)) /\ IsInjective(freed)
        /\ \A n \in Range(freed) : /\ n # cur /\ cur \in Parents(d, n)
                                   /\ Parents(d, n) \subseteq Range(order)
    BY FreedFacts
  <2> HIDE DEF cur, rest, order, freed, u
  <2>8. \A n \in Range(s.order) \cup Range(s.ready) : cur \notin Parents(d, n)
    <3>1. \A n \in Range(s.ready) : Parents(d, n) \subseteq Range(s.order)
      BY DEF KahnInv
    <3>2. \A n \in Range(s.order) : Parents(d, n) \subseteq Range(s.order)
      <4> SUFFICES ASSUME NEW i \in DOMAIN s.order
                   PROVE  Parents(d, s.order[i]) \subseteq Range(s.order)
        BY DEF Range
      <4>1. 1 .. i - 1 \subseteq DOMAIN s.order
        BY <2>4
      <4> QED
        BY <4>1 DEF KahnInv, Range
    <3> QED
      BY <2>5, <3>1, <3>2
  <2>9. Range(freed) \cap (Range(order) \cup Range(rest)) = {}
    BY <2>3, <2>5, <2>7, <2>8
  <2>10. /\ u.ready \in Seq(Ids(d)) /\ IsInjective(u.ready)
         /\ Range(u.ready) = Range(rest) \cup Range(freed)
    BY <2>1, <2>2, <2>3, <2>7, <2>9, ConcatOnce
  <2>11. Range(order) \cap Range(u.ready) = {}
    BY <2>3, <2>5, <2>9, <2>10 DEF KahnInv
  <2>12. ASSUME NEW i \in DOMAIN order
         PROVE  Parents(d, order[i]) \subseteq {order[j] : j \in 1 .. i - 1}
    <3>1. CASE i \in DOMAIN s.order
      <4>1. Parents(d, s.order[i]) \subseteq {s.order[j] : j \in 1 .. i - 1}
        BY <3>1 DEF KahnInv
      <4>2. \A j \in 1 .. i - 1 : order[j] = s.order[j]
        BY <2>4, <3>1
      <4> QED
        BY <2>4, <3>1, <4>1, <4>2
    <3>2. CASE i = Len(s.order) + 1
      <4>1. Parents(d, cur) \subseteq Range(s.order)
        BY <2>2 DEF KahnInv
      <4>2. Range(s.order) \subseteq {order[j] : j \in 1 .. i - 1}
        BY <2>4, <3>2 DEF Range
      <4> QED
        BY <2>4, <3>2, <4>1, <4>2
    <3> QED
      BY <2>4, <3>1, <3>2
  <2>13. \A n \in Range(u.ready) : Parents(d, n) \subseteq Range(order)
    BY <2>3, <2>5, <2>7, <2>10 DEF KahnInv
  <2>14. KahnInv(d, u)
    <3>1. u.order \in Seq(Ids(d)) /\ IsInjective(u.order)
      BY <2>1, <2>4, <2>6
    <3>2. \A i \in DOMAIN u.order :
            Parents(d, u.order[i]) \subseteq {u.order[j] : j \in 1 .. i - 1}
      BY <2>1, <2>12
    <3> QED
      BY <2>1, <2>10, <2>11, <2>13, <3>1, <3>2 DEF KahnInv
  <2> QED
    BY <2>14 DEF u
<1> QED
  BY <1>1, <1>2

\* The topological order of a valid definition has every node once, each after
\* all its parents.
LEMMA TopologicalFacts ==
    ASSUME NEW d \in Initial \cup Updates, Valid(d)
    PROVE  /\ TopologicalOrder(d) \in Seq(Ids(d))
           /\ IsInjective(TopologicalOrder(d))
           /\ Range(TopologicalOrder(d)) = Ids(d)
           /\ \A i \in DOMAIN TopologicalOrder(d) :
                Parents(d, TopologicalOrder(d)[i])
                    \subseteq {TopologicalOrder(d)[j] : j \in 1 .. i - 1}
<1>1. Lists(d) /\ WellFormed(d)
  BY DefinitionAssumption DEF Lists, Edges, Valid
<1> DEFINE N == Len(d.nodes)
<1>2. /\ N \in Nat /\ IsFiniteSet(Ids(d)) /\ Cardinality(Ids(d)) = N
  BY <1>1, NodesOnce
<1>3. PICK f : /\ f[0] = KahnStart(d)
               /\ \A k \in 1 .. N : f[k] = KahnTurn(d, f[k - 1])
               /\ Kahn(d) = f[N].order
  BY <1>2, KahnSteps
<1> DEFINE S == {k \in 0 .. N : KahnInv(d, f[k])}
<1>4. 0 \in S
  BY <1>1, <1>2, <1>3, KahnStartInv
<1>5. \A k \in 0 .. N - 1 : k \in S => k + 1 \in S
  <2> TAKE k \in 0 .. N - 1
  <2> HAVE k \in S
  <2>1. k + 1 \in 1 .. N /\ (k + 1) - 1 = k
    BY <1>2
  <2>2. f[k + 1] = KahnTurn(d, f[k])
    BY <1>3, <2>1
  <2> QED
    BY <1>1, <2>1, <2>2, KahnTurnInv
<1>6. KahnInv(d, f[N])
  <2> HIDE DEF S
  <2>1. \A k \in 0 .. N : k \in S
    BY <1>2, <1>4, <1>5, UpTo
  <2> QED
    BY <1>2, <2>1 DEF S
<1> DEFINE o == TopologicalOrder(d)
<1>7. o = f[N].order /\ Len(o) = N
  BY <1>3 DEF TopologicalOrder, Orders, Valid
<1> HIDE DEF o
<1>8. /\ o \in Seq(Ids(d)) /\ IsInjective(o)
      /\ \A i \in DOMAIN o : Parents(d, o[i]) \subseteq {o[j] : j \in 1 .. i - 1}
  <2> PICK s : s = f[N]
    OBVIOUS
  <2>1. KahnInv(d, s) /\ s.order = o
    BY <1>6, <1>7
  <2>2. /\ s.order \in Seq(Ids(d)) /\ IsInjective(s.order)
        /\ \A i \in DOMAIN s.order :
             Parents(d, s.order[i]) \subseteq {s.order[j] : j \in 1 .. i - 1}
    BY <2>1 DEF KahnInv
  <2> QED
    BY <2>1, <2>2
<1>9. Range(o) = Ids(d)
  <2>1. o \in Injection(1 .. N, Ids(d))
    BY <1>7, <1>8 DEF Injection
  <2>2. IsFiniteSet(1 .. N) /\ Cardinality(1 .. N) = N
    BY <1>2, CountUpTo
  <2>3. o \in Surjection(1 .. N, Ids(d))
    BY <1>2, <2>1, <2>2, FS_Injection
  <2> QED
    BY <1>7, <1>8, <2>3 DEF Surjection, Range
<1> QED
  BY <1>8, <1>9 DEF o

\* While nodes are left, one of them has all its parents behind it.
LEMMA SomeReady ==
    ASSUME NEW d \in Initial \cup Updates, Valid(d), NEW T \in SUBSET Ids(d), T # Ids(d)
    PROVE  \E n \in Ids(d) \ T : Parents(d, n) \subseteq T
<1> SUFFICES ASSUME \A n \in Ids(d) \ T : ~ (Parents(d, n) \subseteq T) PROVE FALSE
  OBVIOUS
<1> DEFINE o == TopologicalOrder(d)
<1>1. /\ o \in Seq(Ids(d)) /\ Range(o) = Ids(d)
      /\ \A i \in DOMAIN o : Parents(d, o[i]) \subseteq {o[j] : j \in 1 .. i - 1}
  BY TopologicalFacts
<1>2. Len(o) \in Nat /\ DOMAIN o = 1 .. Len(o) /\ \A i \in DOMAIN o : o[i] \in Ids(d)
  BY <1>1, SeqFacts
<1> HIDE DEF o
<1> DEFINE S == {k \in 0 .. Len(o) : \A i \in 1 .. k : o[i] \in T}
<1>3. 0 \in S
  BY <1>2
<1>4. \A k \in 0 .. Len(o) - 1 : k \in S => k + 1 \in S
  <2> TAKE k \in 0 .. Len(o) - 1
  <2> HAVE k \in S
  <2>1. k + 1 \in DOMAIN o /\ (k + 1) - 1 = k /\ k + 1 \in 0 .. Len(o)
    BY <1>2
  <2>2. Parents(d, o[k + 1]) \subseteq T
    BY <1>1, <2>1
  <2>3. o[k + 1] \in T
    BY <1>2, <2>1, <2>2
  <2> QED
    BY <1>2, <2>1, <2>3
<1>5. Len(o) \in S
  <2> HIDE DEF S
  <2>1. \A k \in 0 .. Len(o) : k \in S
    BY <1>2, <1>3, <1>4, UpTo
  <2> QED
    BY <1>2, <2>1
<1>6. Range(o) \subseteq T
  BY <1>2, <1>5 DEF Range
<1> QED
  BY <1>1, <1>6

-----------------------------------------------------------------------------
(* Partial maps and the records of runs *)

Partial(S, T) == UNION {[D -> T] : D \in SUBSET S}

Keys == (UNION {{q.key : q \in Scope[d].requests} : d \in Initial}) \cup {None}

Fields == {"phase", "proc", "def", "version", "dry", "key", "retain", "trace", "out",
           "queue", "batch", "att", "got", "post", "failed", "review", "ids"}

IsRun(R) ==
    /\ DOMAIN R = Fields
    /\ R.phase \in Phases /\ R.proc \in Procs \cup {None}
    /\ R.def \in Initial \cup Updates \cup {None} /\ R.version \in Nat
    /\ R.dry \in BOOLEAN /\ R.key \in Keys /\ R.retain \in BOOLEAN
    /\ R.trace \in Partial(Nodes, Traces) /\ R.out \in Partial(Nodes, Outputs)
    /\ R.queue \in Seq(Nodes) /\ R.batch \in SUBSET Nodes
    /\ R.att \in Partial(Nodes, Nat)
    /\ R.got \in Partial(Nodes, Outputs \cup {"failed"})
    /\ R.post \in SUBSET Nodes
    /\ R.failed \in BOOLEAN /\ R.review \in BOOLEAN
    /\ R.ids \in SUBSET (Nodes \X Nat)

\* Partial is the set of the maps PartialMap describes.
LEMMA PartialFacts ==
    ASSUME NEW S, NEW T, NEW f
    PROVE  f \in Partial(S, T) <=> PartialMap(f, S, T)
BY DEF Partial, PartialMap

\* Extend keeps a partial map over Nodes partial.
LEMMA ExtendType ==
    ASSUME NEW T, NEW V, NEW f \in Partial(T, V), NEW S \in SUBSET T, NEW v \in V
    PROVE  Extend(f, S, v) \in Partial(T, V)
<1>1. DOMAIN f \subseteq T /\ \A n \in DOMAIN f : f[n] \in V
  BY DEF Partial
<1>2. Extend(f, S, v) \in [DOMAIN f \cup S -> V]
  BY <1>1 DEF Extend
<1>3. DOMAIN f \cup S \in SUBSET T
  BY <1>1
<1> QED
  BY <1>2, <1>3 DEF Partial

\* The empty map is partial.
LEMMA EmptyPartial ==
    ASSUME NEW S, NEW T
    PROVE  << >> \in Partial(S, T) /\ DOMAIN << >> = {}
<1>1. << >> \in [{} -> T]
  OBVIOUS
<1> QED
  BY <1>1 DEF Partial

\* The record of a run that was not started.
LEMMA NoRunType ==
    /\ IsRun(NoRun)
    /\ NoRun.phase = "idle" /\ NoRun.trace = << >> /\ NoRun.out = << >>
    /\ NoRun.queue = << >> /\ NoRun.batch = {} /\ NoRun.att = << >>
    /\ NoRun.got = << >> /\ NoRun.post = {} /\ ~ NoRun.failed /\ ~ NoRun.review
    /\ NoRun.ids = {}
<1>1. << >> \in Partial(Nodes, Traces) /\ << >> \in Partial(Nodes, Outputs)
      /\ << >> \in Partial(Nodes, Nat) /\ << >> \in Partial(Nodes, Outputs \cup {"failed"})
      /\ << >> \in Seq(Nodes)
  BY EmptyPartial
<1>2. DOMAIN NoRun = Fields
  BY DEF NoRun, Fields
<1> QED
  BY <1>1, <1>2 DEF NoRun, IsRun, Phases, Keys

-----------------------------------------------------------------------------
(* The invariants *)

\* The definitions put_graph accepts.
Accepted == {d \in Initial \cup Updates : Valid(d)}

\* What a run holds before and between batches.
NoBatch(R) == /\ R.batch = {} /\ R.queue = << >>
              /\ R.att = << >> /\ R.got = << >> /\ R.post = {}

BatchFits(R) == /\ R.batch \subseteq Ids(R.def) /\ Range(R.queue) \subseteq Ids(R.def)
                /\ R.batch \cap DOMAIN R.trace = {}
                /\ Range(R.queue) \cap DOMAIN R.trace = {}
                /\ R.batch \cap Range(R.queue) = {}
                /\ IsInjective(R.queue)
                /\ DOMAIN R.att = R.batch
                /\ DOMAIN R.got \subseteq R.batch
                /\ R.post \subseteq R.batch
                /\ \A n \in R.post : R.def.kind[n] = "webhook"

\* A run that was started, and where its nodes are.
RunShape(R) ==
    IF R.phase = "idle" THEN R = NoRun
    ELSE /\ R.proc \in Procs /\ R.def \in Accepted /\ R.version # 0
         /\ DOMAIN R.trace \subseteq Ids(R.def)
         /\ BatchFits(R)
         /\ R.phase \in Over \cup {"wave"} => NoBatch(R)
         /\ R.phase \in Over => DOMAIN R.trace = Ids(R.def)

Failures(R) == {n \in DOMAIN R.trace : R.trace[n] = "failed"}

FailedHard(R) == \/ \E n \in Failures(R) : R.def.onError[n] = "fail"
                 \/ \E n \in DOMAIN R.trace : R.trace[n] = "expired"

Verdict(R) ==
    R.phase # "idle" =>
      /\ R.phase \in {"wave", "batch"} \cup Over => (R.failed <=> FailedHard(R))
      /\ R.phase \in {"wave", "batch"} => ~ R.failed
      /\ ~ R.review => /\ \A n \in Failures(R) : R.def.onError[n] # "review"
                       /\ R.ids = {}

TypeInv ==
    /\ graphs \in Seq(Accepted) /\ graphs # << >> /\ graphs[1] \in Initial
    /\ saved \subseteq Runs
    /\ txn \in [Procs -> {"none", "begun", "shared", "reserved", "pending"}]
    /\ dirty \in [Procs -> Seq(Updates \cap Accepted)]
    /\ dirtyRuns \in [Procs -> SUBSET Runs]
    /\ putting \in [Procs -> [def : Updates \cap Accepted, max : Nat] \cup {None}]
    /\ acked \subseteq Nat \X (Initial \cup Updates)
    /\ DOMAIN run = Runs /\ \A r \in Runs : IsRun(run[r])
    /\ \A r \in Runs : RunShape(run[r])
    /\ \A e \in reviews : e.run \in Runs /\ e.node \in Nodes
    /\ performed \subseteq handled /\ handled \subseteq posts
    /\ enabled \in BOOLEAN
    /\ crashes \in 0 .. MaxCrashes

Writing(p) == txn[p] \in {"reserved", "pending"}

\* The version v that connection p reads is d.
Reads(p, v, d) == v \in DOMAIN Visible(p) /\ Visible(p)[v] = d

Live == {"wave", "batch", "ended"}

OneWriter == \A p, q \in Procs : Writing(p) /\ Writing(q) => p = q

DirtyPending ==
    \A p \in Procs : dirty[p] # << >> \/ dirtyRuns[p] # {} => txn[p] = "pending"

PutKnown == \A p \in Procs : putting[p] # None => putting[p].max <= Len(Visible(p))

AckedStays == \A a \in acked : a[1] \in DOMAIN graphs /\ graphs[a[1]] = a[2]

SavedStays ==
    \A r \in saved : /\ run[r].phase # "idle"
                     /\ run[r].version \in DOMAIN graphs
                     /\ graphs[run[r].version] = run[r].def

DirtyRunsRead ==
    \A p \in Procs : \A r \in dirtyRuns[p] :
      run[r].phase # "idle" /\ Reads(p, run[r].version, run[r].def)

LiveRunsRead ==
    \A r \in Runs : run[r].phase \in Live =>
      Reads(run[r].proc, run[r].version, run[r].def)

StoreInv ==
    /\ OneWriter /\ DirtyPending /\ PutKnown /\ AckedStays
    /\ SavedStays /\ DirtyRunsRead /\ LiveRunsRead

VerdictInv == \A r \in Runs : Verdict(run[r])

\* The items of r its project owns.
Owned(r) == {<<e.node, e.att>> : e \in {e \in reviews : e.run = r /\ e.owned}}

\* The items the batch has queued and not reported yet.
Queued(R) == {<<n, R.att[n]>> :
                n \in {n \in DOMAIN R.got : R.got[n] # "failed" /\ R.def.kind[n] = "review"}}

\* What a run reports or is about to report, one item a node.
Reported(R) == R.ids \cup Queued(R)

OncePerNode(R) == /\ \A x \in R.ids : x[1] \in DOMAIN R.trace
                  /\ \A x, y \in R.ids : x[1] = y[1] => x = y

ReviewInv == \A r \in Runs : Owned(r) = Reported(run[r]) /\ OncePerNode(run[r])

Sent(r, n) == \E m \in handled : m.run = r /\ m.node = n

HookInv ==
    /\ \A m \in posts : /\ m.run \in Runs /\ m.node \in Nodes
                        /\ run[m.run].phase # "idle" /\ ~ run[m.run].dry
                        /\ m.key = Key(m.run, m.node)
    /\ \A e, f \in performed : e.key = f.key => e = f
    /\ \A m \in handled : \E e \in performed : e.key = m.key
    /\ \A r \in Runs :
         /\ \A n \in DOMAIN run[r].out : run[r].out[n] = "sent" => Sent(r, n)
         /\ \A n \in DOMAIN run[r].got : run[r].got[n] = "sent" => Sent(r, n)

\* The nodes of the first w waves.
FirstWaves(d, w) == {n \in Ids(d) : Level(d)[n] <= w}

\* The outputs of the waves before that of n.
Earlier(R, n) == [m \in {m \in DOMAIN R.out : Level(R.def)[m] < Level(R.def)[n]} |-> R.out[m]]

\* No parent of n completed over an edge that holds on those.
Cut(R, n) == /\ Parents(R.def, n) # {}
             /\ ~ \E e \in Incoming(R.def, n) :
                    /\ R.trace[e.source] = "completed"
                    /\ EdgeHolds(e, Earlier(R, n))

Waves(R) ==
    R.phase \in {"wave", "batch"} \cup Over /\ ~ R.failed =>
      /\ DOMAIN R.out \subseteq DOMAIN R.trace
      /\ R.phase = "wave" => \E w \in Nat : DOMAIN R.trace = FirstWaves(R.def, w)
      /\ R.phase = "batch" => \E w \in Nat :
            /\ FirstWaves(R.def, w) \subseteq DOMAIN R.trace
            /\ DOMAIN R.trace \cup R.batch \cup Range(R.queue) = FirstWaves(R.def, w + 1)
      /\ \A n \in DOMAIN R.trace : R.trace[n] = "skipped" <=> Cut(R, n)
      /\ \A n \in R.batch \cup Range(R.queue) : ~ Cut(R, n)

WavesInv == \A r \in Runs : Waves(run[r])

-----------------------------------------------------------------------------
(* What each step of a run makes of its record *)

\* What a run is asked and where it runs do not change.
Kept(R, S) == /\ S.proc = R.proc /\ S.def = R.def /\ S.version = R.version
              /\ S.dry = R.dry /\ S.key = R.key /\ S.retain = R.retain

\* The nodes of q are divided between a batch and the queue behind it.
Divided(S, q) == /\ S.batch \cup Range(S.queue) = Range(q)
                 /\ S.batch \cap Range(S.queue) = {}
                 /\ IsInjective(S.queue)
                 /\ DOMAIN S.att = S.batch
                 /\ S.got = << >> /\ S.post = {}

\* The first k elements of a list without repetition and the rest of it.
LEMMA SplitFacts ==
    ASSUME NEW T, NEW q \in Seq(T), IsInjective(q), NEW k \in 0 .. Len(q)
    PROVE  LET batch == {q[i] : i \in 1 .. k}
               rest == SubSeq(q, k + 1, Len(q))
           IN  /\ batch \subseteq T /\ rest \in Seq(T) /\ IsInjective(rest)
               /\ batch \cup Range(rest) = Range(q)
               /\ batch \cap Range(rest) = {}
<1> DEFINE batch == {q[i] : i \in 1 .. k}
           rest == SubSeq(q, k + 1, Len(q))
<1>1. Len(q) \in Nat /\ DOMAIN q = 1 .. Len(q) /\ \A i \in DOMAIN q : q[i] \in T
  BY SeqFacts
<1>2. k \in Nat /\ k <= Len(q)
  BY <1>1
<1>3. /\ rest \in Seq(T) /\ DOMAIN rest = 1 .. Len(q) - k
      /\ \A i \in DOMAIN rest : rest[i] = q[i + k]
  <2>1. rest = [i \in 1 .. Len(q) - k |-> q[i + k]]
    BY <1>1, <1>2
  <2>2. \A i \in 1 .. Len(q) - k : i + k \in DOMAIN q
    BY <1>1, <1>2
  <2>3. Len(q) - k \in Nat
    BY <1>1, <1>2
  <2> HIDE DEF rest
  <2>4. DOMAIN rest = 1 .. Len(q) - k /\ \A i \in DOMAIN rest : rest[i] = q[i + k]
    BY <2>1
  <2>5. rest \in [1 .. Len(q) - k -> T]
    BY <1>1, <2>1, <2>2
  <2>6. rest \in Seq(T)
    BY <1>1, <2>1, <2>2, <2>3
  <2> QED
    BY <2>4, <2>6
<1> HIDE DEF rest
<1>4. \A i \in DOMAIN rest : i + k \in DOMAIN q /\ i + k > k
  BY <1>1, <1>2, <1>3
<1>5. IsInjective(rest)
  <2> SUFFICES ASSUME NEW i \in DOMAIN rest, NEW j \in DOMAIN rest, rest[i] = rest[j]
               PROVE  i = j
    BY DEF IsInjective
  <2>1. i + k = j + k
    BY <1>3, <1>4 DEF IsInjective
  <2> QED
    BY <1>2, <1>3, <2>1
<1>6. batch \cap Range(rest) = {}
  <2> SUFFICES ASSUME NEW i \in 1 .. k, NEW j \in DOMAIN rest, q[i] = rest[j] PROVE FALSE
    BY DEF Range
  <2>1. i \in DOMAIN q /\ i <= k
    BY <1>1, <1>2
  <2>2. i = j + k
    BY <1>3, <1>4, <2>1 DEF IsInjective
  <2> QED
    BY <1>4, <2>1, <2>2
<1>7. batch \cup Range(rest) = Range(q)
  <2>1. ASSUME NEW i \in DOMAIN q PROVE q[i] \in batch \cup Range(rest)
    <3>1. CASE i <= k
      BY <1>1, <1>2, <3>1
    <3>2. CASE ~ (i <= k)
      <4>1. i - k \in DOMAIN rest /\ (i - k) + k = i
        BY <1>1, <1>2, <1>3, <3>2
      <4>2. rest[i - k] = q[i]
        BY <1>3, <4>1
      <4> QED
        BY <4>1, <4>2 DEF Range
    <3> QED
      BY <3>1, <3>2
  <2>2. batch \subseteq Range(q)
    BY <1>1, <1>2 DEF Range
  <2>3. Range(rest) \subseteq Range(q)
    BY <1>3, <1>4 DEF Range
  <2> QED
    BY <2>1, <2>2, <2>3 DEF Range
<1> QED
  BY <1>1, <1>2, <1>3, <1>5, <1>6, <1>7 DEF rest

\* NextBatch divides the nodes of a queue between a batch and the queue.
LEMMA NextBatchFacts ==
    ASSUME NEW R, IsRun(R), NEW q \in Seq(Nodes), IsInjective(q),
           R.def.maxParallel \in Nat \ {0}, NEW S, S = NextBatch(R, q)
    PROVE  /\ IsRun(S) /\ S.phase = "batch" /\ Kept(R, S) /\ Divided(S, q)
           /\ S.trace = R.trace /\ S.out = R.out /\ S.failed = R.failed
           /\ S.review = R.review /\ S.ids = R.ids
<1> DEFINE k == IF R.def.maxParallel < Len(q) THEN R.def.maxParallel ELSE Len(q)
           batch == {q[i] : i \in 1 .. k}
           rest == SubSeq(q, k + 1, Len(q))
           att == [n \in batch |-> 1]
<1>1. k \in 0 .. Len(q)
  BY SeqFacts
<1>2. S = [R EXCEPT !.phase = "batch", !.batch = batch, !.queue = rest,
                    !.att = att, !.got = << >>, !.post = {}]
  BY DEF NextBatch
<1> HIDE DEF k
<1>3. /\ batch \subseteq Nodes /\ rest \in Seq(Nodes) /\ IsInjective(rest)
      /\ batch \cup Range(rest) = Range(q)
      /\ batch \cap Range(rest) = {}
  BY <1>1, SplitFacts
<1>4. att \in Partial(Nodes, Nat) /\ DOMAIN att = batch
  <2>1. att \in [batch -> Nat] /\ batch \in SUBSET Nodes
    BY <1>3
  <2> QED
    BY <2>1 DEF Partial
<1>5. << >> \in Partial(Nodes, Outputs \cup {"failed"})
  BY EmptyPartial
<1> HIDE DEF batch, rest, att
<1>6. /\ S.phase = "batch" /\ S.batch = batch /\ S.queue = rest
      /\ S.att = att /\ S.got = << >> /\ S.post = {}
      /\ Kept(R, S) /\ S.trace = R.trace /\ S.out = R.out /\ S.failed = R.failed
      /\ S.review = R.review /\ S.ids = R.ids
      /\ DOMAIN S = Fields
  BY <1>2 DEF IsRun, Kept, Fields
<1>7. IsRun(S)
  BY <1>3, <1>4, <1>5, <1>6 DEF IsRun, Kept, Phases
<1> QED
  BY <1>3, <1>4, <1>6, <1>7 DEF Divided

\* What the assumption on definitions says of an accepted one.
LEMMA AcceptedFacts ==
    ASSUME NEW d \in Accepted
    PROVE  /\ d \in Initial \cup Updates /\ Valid(d)
           /\ Ids(d) \subseteq Nodes
           /\ d.maxParallel \in Nat \ {0} /\ d.retries \in Nat
           /\ \A n \in Ids(d) :
                /\ d.kind[n] \in {"semantic", "gate", "review", "emit", "webhook"}
                /\ d.onError[n] \in {"fail", "skip", "review"}
<1>1. d \in Initial \cup Updates /\ Valid(d)
  BY DEF Accepted
<1>2. /\ d.nodes \in Seq(Nodes)
      /\ d.maxParallel \in Nat \ {0} /\ d.retries \in Nat
      /\ \A n \in Ids(d) :
           /\ d.kind[n] \in {"semantic", "gate", "review", "emit", "webhook"}
           /\ d.onError[n] \in {"fail", "skip", "review"}
  BY <1>1, DefinitionAssumption DEF Ids
<1>3. Ids(d) \subseteq Nodes
  BY <1>2, SeqFacts DEF Ids
<1> QED
  BY <1>1, <1>2, <1>3

\* The nodes all parents of which have a trace.
Open(R) == {n \in Ids(R.def) \ DOMAIN R.trace : Parents(R.def, n) \subseteq DOMAIN R.trace}

\* A wave skips the nodes no parent activates and starts the others.
WaveStep(R, S) ==
    LET started == {n \in Open(R) : Active(R, n)}
        skipped == Open(R) \ started
    IN  /\ IsRun(S) /\ Kept(R, S)
        /\ S.out = R.out /\ S.failed = R.failed /\ S.review = R.review /\ S.ids = R.ids
        /\ DOMAIN S.trace = DOMAIN R.trace \cup skipped
        /\ \A n \in DOMAIN R.trace : S.trace[n] = R.trace[n]
        /\ \A n \in skipped : S.trace[n] = "skipped"
        /\ S.phase \in {"wave", "batch"}
        /\ S.phase = "wave" => started = {} /\ NoBatch(S)
        /\ S.batch \cup Range(S.queue) = started
        /\ S.batch \cap Range(S.queue) = {}
        /\ IsInjective(S.queue)
        /\ DOMAIN S.att = S.batch
        /\ S.got = << >> /\ S.post = {}

\* NextWave takes such a step: some node is ready while any is left.
LEMMA WaveFacts ==
    ASSUME NEW r \in Runs, IsRun(run[r]), RunShape(run[r]), DOMAIN run = Runs, NextWave(r)
    PROVE  \E S : WaveStep(run[r], S) /\ run' = [run EXCEPT ![r] = S]
<1> DEFINE R == run[r]
           open == Open(R)
           ready == Picked(TopologicalOrder(R.def), open)
           active == {n \in open : Active(R, n)}
           runnable == Picked(ready, active)
           skipped == {ready[i] : i \in DOMAIN ready} \ {runnable[i] : i \in DOMAIN runnable}
           S0 == [R EXCEPT !.trace = Extend(@, skipped, "skipped")]
           S == IF runnable = << >> THEN S0 ELSE NextBatch(S0, runnable)
<1>1. /\ R.def \in Accepted /\ R.phase = "wave" /\ NoBatch(R)
      /\ DOMAIN R.trace \subseteq Ids(R.def) /\ DOMAIN R.trace # Ids(R.def)
  BY DEF NextWave, RunShape, Pending, Traced
<1>2. /\ TopologicalOrder(R.def) \in Seq(Ids(R.def))
      /\ IsInjective(TopologicalOrder(R.def))
      /\ Range(TopologicalOrder(R.def)) = Ids(R.def)
      /\ R.def \in Initial \cup Updates /\ Valid(R.def)
  BY <1>1, AcceptedFacts, TopologicalFacts
<1>3. open \subseteq Ids(R.def) /\ active \subseteq open
  BY DEF Open
<1>4. open # {}
  BY <1>1, <1>2, SomeReady DEF Open
<1> HIDE DEF active, open
<1>5. ready \in Seq(Ids(R.def)) /\ Range(ready) = open /\ IsInjective(ready)
  <2>1. ready \in Seq(Ids(R.def) \cap open)
        /\ Range(ready) = Range(TopologicalOrder(R.def)) \cap open /\ IsInjective(ready)
    BY <1>2, PickedFacts
  <2> QED
    BY <1>2, <1>3, <2>1
<1> HIDE DEF ready
<1>6. runnable \in Seq(Ids(R.def)) /\ Range(runnable) = active /\ IsInjective(runnable)
  <2>1. runnable \in Seq(Ids(R.def) \cap active)
        /\ Range(runnable) = Range(ready) \cap active /\ IsInjective(runnable)
    BY <1>5, PickedFacts
  <2> QED
    BY <1>3, <1>5, <2>1
<1> HIDE DEF runnable
<1>7. skipped = open \ active
  BY <1>5, <1>6 DEF Range
<1>8. ready # << >>
  BY <1>4, <1>5 DEF Range
<1>9. run' = [run EXCEPT ![r] = S]
  BY <1>8 DEF NextWave, OnlyRun, Open, open, active, ready, runnable, Pending, Traced
<1> HIDE DEF skipped
<1>10. /\ IsRun(S0) /\ Kept(R, S0) /\ S0.phase = "wave"
       /\ S0.out = R.out /\ S0.failed = R.failed /\ S0.review = R.review /\ S0.ids = R.ids
       /\ S0.trace = Extend(R.trace, skipped, "skipped") /\ NoBatch(S0)
  <2> DEFINE t == Extend(R.trace, skipped, "skipped")
  <2>1. t \in Partial(Nodes, Traces)
    BY <1>1, <1>3, <1>7, AcceptedFacts, ExtendType DEF IsRun, Traces
  <2> HIDE DEF t
  <2>2. S0 = [R EXCEPT !.trace = t]
    BY DEF t
  <2>3. /\ DOMAIN S0 = Fields /\ Kept(R, S0) /\ S0.phase = "wave"
        /\ S0.out = R.out /\ S0.failed = R.failed /\ S0.review = R.review /\ S0.ids = R.ids
        /\ S0.trace = t
        /\ S0.batch = R.batch /\ S0.queue = R.queue /\ S0.att = R.att
        /\ S0.got = R.got /\ S0.post = R.post
    BY <1>1, <2>2 DEF IsRun, Fields, Kept
  <2>4. IsRun(S0)
    BY <2>1, <2>3 DEF IsRun, Kept, Phases
  <2> QED
    BY <1>1, <2>3, <2>4 DEF NoBatch, t
<1> HIDE DEF S0
<1>11. /\ DOMAIN S0.trace = DOMAIN R.trace \cup skipped
       /\ \A n \in skipped : S0.trace[n] = "skipped"
       /\ \A n \in DOMAIN R.trace : S0.trace[n] = R.trace[n]
  <2>1. \A n \in DOMAIN R.trace : n \notin skipped
    BY <1>7 DEF Open, open
  <2>2. DOMAIN R.trace \ skipped = DOMAIN R.trace
    BY <2>1
  <2>3. /\ DOMAIN Extend(R.trace, skipped, "skipped") = DOMAIN R.trace \cup skipped
        /\ \A n \in skipped : Extend(R.trace, skipped, "skipped")[n] = "skipped"
        /\ \A n \in DOMAIN R.trace \ skipped :
             Extend(R.trace, skipped, "skipped")[n] = R.trace[n]
    BY Zenon DEF Extend
  <2> QED
    BY <1>10, <2>2, <2>3
<1>12. /\ IsRun(S) /\ Kept(R, S) /\ S.phase \in {"wave", "batch"}
       /\ S.out = R.out /\ S.failed = R.failed /\ S.review = R.review /\ S.ids = R.ids
       /\ S.trace = S0.trace
       /\ S.phase = "wave" => active = {} /\ NoBatch(S)
       /\ S.batch \cup Range(S.queue) = active
       /\ S.batch \cap Range(S.queue) = {}
       /\ IsInjective(S.queue)
       /\ DOMAIN S.att = S.batch
       /\ S.got = << >> /\ S.post = {}
  <2>1. CASE runnable = << >>
    <3>1. active = {} /\ S = S0
      BY <1>6, <2>1 DEF Range
    <3>2. Range(<< >>) = {} /\ IsInjective(<< >>) /\ DOMAIN << >> = {}
      BY DEF Range, IsInjective
    <3> QED
      BY <1>10, <3>1, <3>2 DEF NoBatch
  <2>2. CASE runnable # << >>
    <3>1. S = NextBatch(S0, runnable)
      BY <2>2
    <3>2. runnable \in Seq(Nodes) /\ S0.def.maxParallel \in Nat \ {0}
      <4>1. Ids(R.def) \subseteq Nodes /\ R.def.maxParallel \in Nat \ {0}
        BY <1>1, AcceptedFacts
      <4>2. runnable \in Seq(Nodes)
        BY <1>6, <4>1
      <4> QED
        BY <1>10, <4>1, <4>2 DEF Kept
    <3> HIDE DEF S
    <3>3. /\ IsRun(S) /\ S.phase = "batch" /\ Kept(S0, S) /\ Divided(S, runnable)
          /\ S.trace = S0.trace /\ S.out = S0.out /\ S.failed = S0.failed
          /\ S.review = S0.review /\ S.ids = S0.ids
      BY <1>6, <1>10, <3>1, <3>2, NextBatchFacts
    <3> QED
      BY <1>6, <1>10, <3>3 DEF Kept, Divided
  <2> QED
    BY <2>1, <2>2
<1> HIDE DEF S
<1>13. WaveStep(R, S)
  BY <1>3, <1>7, <1>11, <1>12 DEF WaveStep, active, open
<1> QED
  BY <1>9, <1>13

\* Nothing but the phase changes.
PhaseStep(R, S) ==
    /\ IsRun(S) /\ Kept(R, S)
    /\ S.trace = R.trace /\ S.out = R.out
    /\ S.queue = R.queue /\ S.batch = R.batch
    /\ S.att = R.att /\ S.got = R.got /\ S.post = R.post
    /\ S.failed = R.failed /\ S.review = R.review /\ S.ids = R.ids

\* A step that changes the phase of a record and nothing else.
LEMMA PhaseFacts ==
    ASSUME NEW R, IsRun(R), NEW v \in Phases, NEW S, S = [R EXCEPT !.phase = v]
    PROVE  PhaseStep(R, S) /\ S.phase = v
<1>1. /\ DOMAIN S = Fields /\ S.phase = v
      /\ S.proc = R.proc /\ S.def = R.def /\ S.version = R.version
      /\ S.dry = R.dry /\ S.key = R.key /\ S.retain = R.retain
      /\ S.trace = R.trace /\ S.out = R.out
      /\ S.queue = R.queue /\ S.batch = R.batch
      /\ S.att = R.att /\ S.got = R.got /\ S.post = R.post
      /\ S.failed = R.failed /\ S.review = R.review /\ S.ids = R.ids
  BY DEF IsRun, Fields
<1>2. IsRun(S)
  BY <1>1 DEF IsRun
<1> QED
  BY <1>1, <1>2 DEF PhaseStep, Kept

\* WavesDone ends a run in which every node has a trace.
LEMMA DoneFacts ==
    ASSUME NEW r \in Runs, IsRun(run[r]), WavesDone(r)
    PROVE  \E S : /\ PhaseStep(run[r], S) /\ S.phase = "ended"
                  /\ run' = [run EXCEPT ![r] = S]
<1> DEFINE S == [run[r] EXCEPT !.phase = "ended"]
<1>1. run' = [run EXCEPT ![r] = S]
  BY DEF WavesDone, OnlyRun
<1>2. PhaseStep(run[r], S) /\ S.phase = "ended"
  BY PhaseFacts DEF Phases
<1> HIDE DEF S
<1> QED
  BY <1>1, <1>2

\* The deadline ends the nodes left.
ExpireStep(R, S) ==
    /\ IsRun(S) /\ Kept(R, S) /\ S.phase = "ended" /\ S.failed /\ NoBatch(S)
    /\ DOMAIN R.trace # Ids(R.def)
    /\ S.out = R.out /\ S.review = R.review /\ S.ids = R.ids
    /\ DOMAIN S.trace = Ids(R.def)
    /\ \A n \in DOMAIN R.trace : S.trace[n] = R.trace[n]
    /\ \A n \in Ids(R.def) \ DOMAIN R.trace : S.trace[n] = "expired"

\* Expire ends a run and gives the nodes that are left a trace.
LEMMA ExpireFacts ==
    ASSUME NEW r \in Runs, IsRun(run[r]), RunShape(run[r]), Expire(r)
    PROVE  \E S : ExpireStep(run[r], S) /\ run' = [run EXCEPT ![r] = S]
<1> DEFINE R == run[r]
           left == Ids(R.def) \ DOMAIN R.trace
           t == Extend(R.trace, left, "expired")
           S == [R EXCEPT !.trace = t, !.failed = TRUE, !.phase = "ended"]
<1>1. /\ R.def \in Accepted /\ R.phase = "wave" /\ NoBatch(R)
      /\ DOMAIN R.trace \subseteq Ids(R.def) /\ DOMAIN R.trace # Ids(R.def)
  BY DEF Expire, RunShape, Pending, Traced
<1>2. run' = [run EXCEPT ![r] = S]
  BY DEF Expire, OnlyRun, Pending, Traced
<1>3. t \in Partial(Nodes, Traces)
  BY <1>1, AcceptedFacts, ExtendType DEF IsRun, Traces
<1>4. /\ DOMAIN t = Ids(R.def)
      /\ \A n \in DOMAIN R.trace : t[n] = R.trace[n]
      /\ \A n \in left : t[n] = "expired"
  <2>1. DOMAIN R.trace \cup left = Ids(R.def)
    BY <1>1
  <2>2. /\ DOMAIN t = DOMAIN R.trace \cup left
        /\ \A n \in DOMAIN R.trace \ left : t[n] = R.trace[n]
        /\ \A n \in left : t[n] = "expired"
    BY Zenon DEF Extend
  <2> HIDE DEF t
  <2> QED
    BY <2>1, <2>2
<1> HIDE DEF t
<1>5. /\ DOMAIN S = Fields /\ Kept(R, S) /\ S.phase = "ended" /\ S.failed = TRUE
      /\ S.out = R.out /\ S.review = R.review /\ S.ids = R.ids /\ S.trace = t
      /\ S.queue = R.queue /\ S.batch = R.batch
      /\ S.att = R.att /\ S.got = R.got /\ S.post = R.post
  BY DEF IsRun, Fields, Kept
<1>6. IsRun(S)
  BY <1>3, <1>5 DEF IsRun, Kept, Phases
<1> HIDE DEF S
<1>7. ExpireStep(R, S)
  BY <1>1, <1>4, <1>5, <1>6 DEF ExpireStep, NoBatch
<1> QED
  BY <1>2, <1>7

\* A batch that is done: its nodes completed or failed; a node that failed
\* with on_error = "fail" aborts those left, else the queue goes on.
EndStep(R, S) ==
    LET bad == {n \in R.batch : R.got[n] = "failed"}
        good == R.batch \ bad
        queued == {n \in good : R.def.kind[n] = "review"}
    IN  /\ IsRun(S) /\ Kept(R, S)
        /\ S.failed <=> \E n \in bad : R.def.onError[n] = "fail"
        /\ DOMAIN S.trace = IF S.failed THEN Ids(R.def) ELSE DOMAIN R.trace \cup R.batch
        /\ \A n \in DOMAIN R.trace : S.trace[n] = R.trace[n]
        /\ \A n \in good : S.trace[n] = "completed"
        /\ \A n \in bad : S.trace[n] = "failed"
        /\ \A n \in DOMAIN S.trace \ (DOMAIN R.trace \cup R.batch) : S.trace[n] = "aborted"
        /\ DOMAIN S.out = DOMAIN R.out \cup good
        /\ \A n \in good : S.out[n] = R.got[n]
        /\ \A n \in DOMAIN R.out \ good : S.out[n] = R.out[n]
        /\ S.ids = R.ids \cup {<<n, R.att[n]>> : n \in queued}
        /\ S.review <=> \/ R.review \/ queued # {}
                        \/ \E n \in good : R.got[n] = "unsure"
                        \/ \E n \in bad : R.def.onError[n] = "review"
        /\ S.failed => S.phase = "ended"
        /\ ~ S.failed => S.phase \in {"wave", "batch"}
        /\ S.phase # "batch" => NoBatch(S)
        /\ S.phase = "wave" => R.queue = << >>
        /\ S.phase = "batch" => Divided(S, R.queue)

\* BatchEnd takes such a step, in each of its three outcomes.
LEMMA EndFacts ==
    ASSUME NEW r \in Runs, IsRun(run[r]), RunShape(run[r]), BatchEnd(r)
    PROVE  \E S : EndStep(run[r], S) /\ run' = [run EXCEPT ![r] = S]
<1> DEFINE R == run[r]
           bad == {n \in R.batch : R.got[n] = "failed"}
           good == R.batch \ bad
           queued == {n \in good : R.def.kind[n] = "review"}
           failed == \E n \in bad : R.def.onError[n] = "fail"
           review == \/ R.review
                     \/ queued # {}
                     \/ \E n \in good : R.got[n] = "unsure"
                     \/ \E n \in bad : R.def.onError[n] = "review"
           t == Extend(Extend(R.trace, good, "completed"), bad, "failed")
           o == [n \in DOMAIN R.out \cup good |-> IF n \in good THEN R.got[n] ELSE R.out[n]]
           i == R.ids \cup {<<n, R.att[n]>> : n \in queued}
           S0 == [R EXCEPT !.trace = t, !.out = o, !.ids = i, !.review = review,
                           !.failed = failed,
                           !.batch = {}, !.att = << >>, !.got = << >>, !.post = {}]
           ta == Extend(S0.trace, Ids(R.def) \ DOMAIN S0.trace, "aborted")
           S == IF failed
                THEN [S0 EXCEPT !.trace = ta, !.queue = << >>, !.phase = "ended"]
                ELSE IF R.queue # << >> THEN NextBatch(S0, R.queue)
                     ELSE [S0 EXCEPT !.phase = "wave"]
<1>1. /\ R.def \in Accepted /\ R.phase = "batch" /\ BatchFits(R)
      /\ DOMAIN R.trace \subseteq Ids(R.def) /\ DOMAIN R.got = R.batch
  BY DEF BatchEnd, RunShape
<1>2. run' = [run EXCEPT ![r] = S]
  BY DEF BatchEnd, OnlyRun
<1>3. /\ good \subseteq R.batch /\ bad \subseteq R.batch /\ queued \subseteq good
      /\ R.batch = good \cup bad /\ good \cap bad = {}
      /\ \A n \in good : R.got[n] # "failed"
      /\ R.batch \subseteq Ids(R.def) /\ R.batch \subseteq Nodes
      /\ R.batch \cap DOMAIN R.trace = {} /\ Ids(R.def) \subseteq Nodes
  BY <1>1, AcceptedFacts DEF BatchFits, IsRun
<1>4. t \in Partial(Nodes, Traces)
  <2> DEFINE u == Extend(R.trace, good, "completed")
  <2>1. u \in Partial(Nodes, Traces)
    BY <1>3, ExtendType DEF IsRun, Traces
  <2>2. t = Extend(u, bad, "failed") /\ bad \subseteq Nodes
    BY <1>3
  <2> HIDE DEF u, bad, t
  <2> QED
    BY <2>1, <2>2, ExtendType DEF Traces
<1>5. /\ DOMAIN t = DOMAIN R.trace \cup R.batch
      /\ \A n \in DOMAIN R.trace : t[n] = R.trace[n]
      /\ \A n \in good : t[n] = "completed"
      /\ \A n \in bad : t[n] = "failed"
  <2> HIDE DEF good, bad
  <2> DEFINE u == Extend(R.trace, good, "completed")
  <2>1. /\ DOMAIN u = DOMAIN R.trace \cup good
        /\ \A n \in DOMAIN R.trace \ good : u[n] = R.trace[n]
        /\ \A n \in good : u[n] = "completed"
    BY Zenon DEF Extend
  <2> HIDE DEF u
  <2>2. /\ DOMAIN Extend(u, bad, "failed") = DOMAIN u \cup bad
        /\ \A n \in DOMAIN u \ bad : Extend(u, bad, "failed")[n] = u[n]
        /\ \A n \in bad : Extend(u, bad, "failed")[n] = "failed"
    BY Zenon DEF Extend
  <2>3. t = Extend(u, bad, "failed")
    BY DEF u
  <2> HIDE DEF t
  <2> QED
    BY <1>3, <2>1, <2>2, <2>3
<1>6. /\ o \in Partial(Nodes, Outputs)
      /\ DOMAIN o = DOMAIN R.out \cup good
      /\ \A n \in good : o[n] = R.got[n]
      /\ \A n \in DOMAIN R.out \ good : o[n] = R.out[n]
  <2>1. /\ DOMAIN R.out \subseteq Nodes /\ \A n \in DOMAIN R.out : R.out[n] \in Outputs
        /\ \A n \in DOMAIN R.got : R.got[n] \in Outputs \cup {"failed"}
    BY DEF IsRun, Partial
  <2>2. \A n \in good : R.got[n] \in Outputs
    BY <1>1, <1>3, <2>1
  <2> HIDE DEF good
  <2>3. o \in [DOMAIN R.out \cup good -> Outputs]
    BY <2>1, <2>2
  <2>4. DOMAIN R.out \cup good \in SUBSET Nodes
    BY <1>3, <2>1
  <2> QED
    BY <2>3, <2>4 DEF Partial
<1>7. i \in SUBSET (Nodes \X Nat)
  <2>1. \A n \in R.batch : R.att[n] \in Nat
    BY <1>1 DEF BatchFits, IsRun, Partial
  <2>2. R.ids \in SUBSET (Nodes \X Nat)
    BY DEF IsRun
  <2> QED
    BY <1>3, <2>1, <2>2
<1>8. failed \in BOOLEAN /\ review \in BOOLEAN
  BY DEF IsRun
<1>9. << >> \in Partial(Nodes, Nat) /\ << >> \in Partial(Nodes, Outputs \cup {"failed"})
  BY EmptyPartial
<1> PICK f : f = failed
  OBVIOUS
<1> PICK w : w = review
  OBVIOUS
<1> PICK ts : ts = t
  OBVIOUS
<1> PICK os : os = o
  OBVIOUS
<1> PICK is : is = i
  OBVIOUS
<1>10. /\ DOMAIN S0 = Fields /\ Kept(R, S0) /\ S0.phase = "batch"
       /\ S0.trace = ts /\ S0.out = os /\ S0.ids = is /\ S0.review = w /\ S0.failed = f
       /\ S0.queue = R.queue /\ S0.batch = {} /\ S0.att = << >> /\ S0.got = << >>
       /\ S0.post = {}
  <2>1. S0 = [R EXCEPT !.trace = ts, !.out = os, !.ids = is, !.review = w, !.failed = f,
                       !.batch = {}, !.att = << >>, !.got = << >>, !.post = {}]
    OBVIOUS
  <2> HIDE DEF S0
  <2> QED
    BY <1>1, <2>1 DEF IsRun, Fields, Kept
<1>11. f \in BOOLEAN /\ w \in BOOLEAN /\ ts \in Partial(Nodes, Traces)
       /\ os \in Partial(Nodes, Outputs) /\ is \in SUBSET (Nodes \X Nat)
  BY <1>4, <1>6, <1>7, <1>8
<1> HIDE DEF S0
<1>12. IsRun(S0)
  BY <1>9, <1>10, <1>11 DEF IsRun, Kept, Phases
<1>a. ta = Extend(t, Ids(R.def) \ DOMAIN t, "aborted")
  BY <1>10
<1> HIDE DEF t, ta, o
<1>13. /\ IsRun(S) /\ Kept(R, S) /\ S.failed = f
       /\ S.trace = IF f THEN ta ELSE t
       /\ S.out = os /\ S.ids = is /\ S.review = w
       /\ f => S.phase = "ended"
       /\ ~ f => S.phase \in {"wave", "batch"}
       /\ S.phase # "batch" => NoBatch(S)
       /\ S.phase = "wave" => R.queue = << >>
       /\ S.phase = "batch" => Divided(S, R.queue)
  <2>1. CASE failed
    <3> DEFINE U == [S0 EXCEPT !.trace = ta, !.queue = << >>, !.phase = "ended"]
    <3>1. S = U
      BY <2>1
    <3>2. ta \in Partial(Nodes, Traces)
      BY <1>3, <1>4, <1>a, ExtendType DEF Traces
    <3>3. /\ DOMAIN U = Fields /\ Kept(S0, U) /\ U.phase = "ended"
          /\ U.trace = ta /\ U.out = S0.out /\ U.ids = S0.ids /\ U.review = S0.review
          /\ U.failed = S0.failed /\ U.queue = << >> /\ U.batch = S0.batch
          /\ U.att = S0.att /\ U.got = S0.got /\ U.post = S0.post
      BY <1>10 DEF Fields, Kept
    <3> HIDE DEF U
    <3>4. IsRun(U)
      <4>1. U.phase \in Phases /\ U.queue \in Seq(Nodes)
        BY <3>3 DEF Phases
      <4> QED
        BY <1>12, <3>2, <3>3, <4>1 DEF IsRun, Kept
    <3>5. f = TRUE
      BY <1>8, <2>1
    <3> HIDE DEF S
    <3> QED
      BY <1>10, <3>1, <3>3, <3>4, <3>5 DEF Kept, NoBatch
  <2>2. CASE ~ failed /\ R.queue # << >>
    <3>1. S = NextBatch(S0, R.queue)
      BY <2>2
    <3>2. /\ R.queue \in Seq(Nodes) /\ IsInjective(R.queue)
          /\ S0.def.maxParallel \in Nat \ {0}
      BY <1>1, <1>10, AcceptedFacts DEF IsRun, BatchFits, Kept
    <3>3. f = FALSE
      BY <1>8, <2>2
    <3> HIDE DEF S
    <3>4. /\ IsRun(S) /\ S.phase = "batch" /\ Kept(S0, S) /\ Divided(S, R.queue)
          /\ S.trace = S0.trace /\ S.out = S0.out /\ S.failed = S0.failed
          /\ S.review = S0.review /\ S.ids = S0.ids
      BY <1>12, <3>1, <3>2, NextBatchFacts
    <3> QED
      BY <1>10, <3>3, <3>4 DEF Kept
  <2>3. CASE ~ failed /\ R.queue = << >>
    <3> DEFINE U == [S0 EXCEPT !.phase = "wave"]
    <3>1. S = U
      BY <2>3
    <3>2. PhaseStep(S0, U) /\ U.phase = "wave"
      BY <1>12, PhaseFacts DEF Phases
    <3>3. f = FALSE
      BY <1>8, <2>3
    <3> HIDE DEF S, U
    <3> QED
      BY <1>10, <2>3, <3>1, <3>2, <3>3 DEF Kept, NoBatch, PhaseStep
  <2> QED
    BY <2>1, <2>2, <2>3
<1>14. /\ DOMAIN ta = DOMAIN t \cup Ids(R.def)
       /\ \A n \in DOMAIN t : ta[n] = t[n]
       /\ \A n \in Ids(R.def) \ DOMAIN t : ta[n] = "aborted"
  <2> DEFINE left == Ids(R.def) \ DOMAIN t
  <2>1. /\ DOMAIN ta = DOMAIN t \cup left
        /\ \A n \in DOMAIN t \ left : ta[n] = t[n]
        /\ \A n \in left : ta[n] = "aborted"
    BY <1>a, Zenon DEF Extend
  <2> QED
    BY <2>1
<1> HIDE DEF S
<1>15. /\ DOMAIN S.trace = IF f THEN Ids(R.def) ELSE DOMAIN R.trace \cup R.batch
       /\ \A n \in DOMAIN R.trace \cup R.batch : S.trace[n] = t[n]
       /\ \A n \in DOMAIN S.trace \ (DOMAIN R.trace \cup R.batch) : S.trace[n] = "aborted"
  <2> HIDE DEF good, bad
  <2>1. DOMAIN t = DOMAIN R.trace \cup R.batch /\ DOMAIN t \subseteq Ids(R.def)
    BY <1>1, <1>3, <1>5
  <2>2. CASE f
    BY <1>13, <1>14, <2>1, <2>2
  <2>3. CASE ~ f
    BY <1>13, <2>1, <2>3
  <2> QED
    BY <2>2, <2>3
<1>16. f <=> failed
  BY <1>8
<1>17. w <=> review
  BY <1>8
<1>18. EndStep(R, S)
  <2>1. /\ \A n \in DOMAIN R.trace : S.trace[n] = R.trace[n]
        /\ \A n \in good : S.trace[n] = "completed"
        /\ \A n \in bad : S.trace[n] = "failed"
    BY <1>3, <1>5, <1>15
  <2>2. /\ DOMAIN S.out = DOMAIN R.out \cup good
        /\ \A n \in good : S.out[n] = R.got[n]
        /\ \A n \in DOMAIN R.out \ good : S.out[n] = R.out[n]
    <3>1. S.out = o
      BY <1>13
    <3> QED
      BY <1>6, <3>1
  <2>3. S.failed <=> failed
    BY <1>13, <1>16
  <2>4. S.review <=> review
    BY <1>13, <1>17
  <2>5. S.ids = R.ids \cup {<<n, R.att[n]>> : n \in queued}
    BY <1>13
  <2>6. DOMAIN S.trace = IF S.failed THEN Ids(R.def) ELSE DOMAIN R.trace \cup R.batch
    BY <1>13, <1>15
  <2>7. /\ S.failed => S.phase = "ended"
        /\ ~ S.failed => S.phase \in {"wave", "batch"}
    BY <1>13
  <2> QED
    BY <1>13, <1>15, <2>1, <2>2, <2>3, <2>4, <2>5, <2>6, <2>7 DEF EndStep
<1> QED
  BY <1>2, <1>18

\* An attempt of a node changes what is known of the node in its batch.
Trying(R, S) ==
    /\ IsRun(S) /\ Kept(R, S) /\ S.phase = R.phase
    /\ S.trace = R.trace /\ S.out = R.out
    /\ S.queue = R.queue /\ S.batch = R.batch
    /\ S.failed = R.failed /\ S.review = R.review /\ S.ids = R.ids

Unanswered(R, S, n) ==
    /\ Trying(R, S)
    /\ S.got = R.got /\ S.post \subseteq R.post \cup {n}
    /\ DOMAIN S.att = DOMAIN R.att
    /\ \A m \in DOMAIN R.att \ {n} : S.att[m] = R.att[m]

Answered(R, S, n, v) ==
    /\ Trying(R, S)
    /\ S.att = R.att /\ S.post \subseteq R.post
    /\ DOMAIN S.got = DOMAIN R.got \cup {n} /\ S.got[n] = v
    /\ \A m \in DOMAIN R.got \ {n} : S.got[m] = R.got[m]

\* Got records the result of one node.
LEMMA GotFacts ==
    ASSUME NEW R, IsRun(R), NEW n \in Nodes, NEW v \in Outputs \cup {"failed"},
           NEW S, S = Got(R, n, v)
    PROVE  Answered(R, S, n, v)
<1> DEFINE g == Extend(R.got, {n}, v)
<1>1. g \in Partial(Nodes, Outputs \cup {"failed"})
  BY ExtendType DEF IsRun
<1>2. /\ DOMAIN g = DOMAIN R.got \cup {n}
      /\ g[n] = v
      /\ \A m \in DOMAIN R.got \ {n} : g[m] = R.got[m]
  BY DEF Extend
<1>3. S = [R EXCEPT !.got = g]
  BY DEF Got
<1> HIDE DEF g
<1>4. /\ DOMAIN S = Fields /\ Kept(R, S) /\ S.phase = R.phase
      /\ S.trace = R.trace /\ S.out = R.out
      /\ S.queue = R.queue /\ S.batch = R.batch
      /\ S.failed = R.failed /\ S.review = R.review /\ S.ids = R.ids
      /\ S.att = R.att /\ S.post = R.post /\ S.got = g
  BY <1>3 DEF IsRun, Fields, Kept
<1>5. IsRun(S)
  BY <1>1, <1>4 DEF IsRun, Kept
<1> QED
  BY <1>2, <1>4, <1>5 DEF Answered, Trying

\* A step that changes the pending requests of one node.
LEMMA PostFacts ==
    ASSUME NEW R, IsRun(R), NEW n, NEW T \in SUBSET Nodes, T \subseteq R.post \cup {n},
           NEW S, S = [R EXCEPT !.post = T]
    PROVE  Unanswered(R, S, n)
<1>1. /\ DOMAIN S = Fields /\ Kept(R, S) /\ S.phase = R.phase
      /\ S.trace = R.trace /\ S.out = R.out
      /\ S.queue = R.queue /\ S.batch = R.batch
      /\ S.failed = R.failed /\ S.review = R.review /\ S.ids = R.ids
      /\ S.att = R.att /\ S.post = T /\ S.got = R.got
  BY DEF IsRun, Fields, Kept
<1>2. IsRun(S)
  BY <1>1 DEF IsRun, Kept
<1> QED
  BY <1>1, <1>2 DEF Unanswered, Trying

\* Retry starts another attempt of a node or records its failure.
LEMMA RetryFacts ==
    ASSUME NEW R, IsRun(R), NEW n \in Nodes, n \in DOMAIN R.att, NEW S, S = Retry(R, n)
    PROVE  /\ Unanswered(R, S, n) \/ Answered(R, S, n, "failed")
           /\ S.post \subseteq R.post
<1> DEFINE U == [R EXCEPT !.post = @ \ {n}]
<1>1. Unanswered(R, U, n) /\ U.att = R.att /\ U.post \subseteq R.post
  <2>1. R.post \ {n} \in SUBSET Nodes /\ R.post \ {n} \subseteq R.post \cup {n}
    BY DEF IsRun
  <2>2. Unanswered(R, U, n)
    BY <2>1, PostFacts
  <2>3. U.att = R.att /\ U.post = R.post \ {n}
    BY DEF IsRun, Fields
  <2> QED
    BY <2>2, <2>3
<1>2. CASE R.att[n] <= R.def.retries
  <2> DEFINE a == [R.att EXCEPT ![n] = @ + 1]
  <2>1. S = [U EXCEPT !.att = a]
    <3>1. S = [U EXCEPT !.att[n] = @ + 1]
      BY <1>2 DEF Retry
    <3> HIDE DEF U
    <3>2. S = [U EXCEPT !.att = [U.att EXCEPT ![n] = @ + 1]]
      BY <3>1
    <3> QED
      BY <1>1, <3>2
  <2>2. a \in Partial(Nodes, Nat)
    BY DEF IsRun, Partial
  <2>3. DOMAIN a = DOMAIN R.att /\ \A m \in DOMAIN R.att \ {n} : a[m] = R.att[m]
    OBVIOUS
  <2> HIDE DEF U, a
  <2>4. /\ DOMAIN S = Fields /\ Kept(U, S) /\ S.phase = U.phase
        /\ S.trace = U.trace /\ S.out = U.out
        /\ S.queue = U.queue /\ S.batch = U.batch
        /\ S.failed = U.failed /\ S.review = U.review /\ S.ids = U.ids
        /\ S.att = a /\ S.post = U.post /\ S.got = U.got
    BY <1>1, <2>1 DEF IsRun, Fields, Kept, Unanswered, Trying
  <2>5. IsRun(S)
    BY <1>1, <2>2, <2>4 DEF IsRun, Kept, Unanswered, Trying
  <2>6. Unanswered(R, S, n)
    BY <1>1, <2>3, <2>4, <2>5 DEF Unanswered, Trying, Kept
  <2> QED
    BY <1>1, <2>4, <2>6
<1>3. CASE ~ (R.att[n] <= R.def.retries)
  <2>1. S = Got(U, n, "failed")
    BY <1>3 DEF Retry
  <2> HIDE DEF U
  <2>2. PICK v : v = "failed"
    OBVIOUS
  <2>3. Answered(U, S, n, v)
    BY <1>1, <2>1, <2>2, GotFacts DEF Unanswered, Trying
  <2>4. Answered(R, S, n, v)
    BY <1>1, <2>3 DEF Unanswered, Answered, Trying, Kept
  <2>5. S.post \subseteq R.post
    BY <2>4 DEF Answered
  <2> QED
    BY <2>2, <2>4, <2>5
<1> QED
  BY <1>2, <1>3

-----------------------------------------------------------------------------
(* The steps of a node *)

\* What the layers use of an attempt: what it answers, what it queues and what
\* it sends.
AttemptStep(r, n, S) ==
    /\ n \in run[r].batch \ DOMAIN run[r].got
    /\ run[r].phase = "batch"
    /\ run' = [run EXCEPT ![r] = S]
    /\ UNCHANGED <<store, enabled, handled, performed, crashes>>
    /\ \A m \in S.post : m \in run[r].post \/ run[r].def.kind[m] = "webhook"
    /\ \/ UNCHANGED <<reviews, posts>> /\ Unanswered(run[r], S, n)
       \/ UNCHANGED <<reviews, posts>>
          /\ \E v \in Outputs \cup {"failed"} :
               /\ Answered(run[r], S, n, v)
               /\ run[r].def.kind[n] = "review" => v = "failed"
               /\ v = "sent" => Request(r, n) \in handled
       \/ /\ run[r].def.kind[n] = "review" /\ posts' = posts
          /\ reviews' = reviews \cup {[run |-> r, node |-> n, att |-> run[r].att[n],
                                       owned |-> enabled]}
          /\ \/ enabled /\ Answered(run[r], S, n, "queued")
             \/ ~ enabled /\ (Unanswered(run[r], S, n) \/ Answered(run[r], S, n, "failed"))
       \/ /\ reviews' = reviews /\ ~ run[r].dry
          /\ posts' = posts \cup {Request(r, n)}
          /\ Unanswered(run[r], S, n)

\* Each of the node steps is an attempt.
LEMMA AttemptFacts ==
    ASSUME NEW r \in Runs, NEW n \in Nodes, IsRun(run[r]), RunShape(run[r]), NodeStep(r, n)
    PROVE  \E S : AttemptStep(r, n, S)
<1> DEFINE R == run[r]
<1>1. /\ Running(r, n) /\ R.phase = "batch" /\ n \in R.batch \ DOMAIN R.got
      /\ n \in DOMAIN R.att
      /\ \A m \in R.post : R.def.kind[m] = "webhook"
  <2>1. Running(r, n)
    BY DEF NodeStep, AttemptFails, SemanticNode, GateNode, ReviewNode, Simulate, PostWebhook,
           WebhookAnswers
  <2>2. R.phase = "batch" /\ n \in R.batch \ DOMAIN R.got
    BY <2>1 DEF Running
  <2> QED
    BY <2>1, <2>2 DEF RunShape, BatchFits
<1>2. ASSUME NEW S, OnlyRun(r, S)
      PROVE  run' = [run EXCEPT ![r] = S] /\ UNCHANGED <<store, crashes>>
  BY <1>2 DEF OnlyRun
<1>3. ASSUME NEW v \in Outputs \cup {"failed"}, OnlyRun(r, Got(R, n, v)),
             UNCHANGED <<reviews, enabled, posts, handled, performed>>,
             R.def.kind[n] = "review" => v = "failed",
             v = "sent" => Request(r, n) \in handled
      PROVE  \E S : AttemptStep(r, n, S)
  <2> PICK S : S = Got(R, n, v)
    OBVIOUS
  <2>1. Answered(R, S, n, v)
    BY GotFacts
  <2>2. S.post \subseteq R.post
    BY <2>1 DEF Answered
  <2>3. AttemptStep(r, n, S)
    BY <1>1, <1>2, <1>3, <2>1, <2>2 DEF AttemptStep
  <2> QED
    BY <2>3
<1>4. ASSUME NEW S, OnlyRun(r, S), S = Retry(R, n),
             UNCHANGED <<reviews, enabled, posts, handled, performed>>
      PROVE  AttemptStep(r, n, S)
  <2>1. /\ Unanswered(R, S, n) \/ Answered(R, S, n, "failed")
        /\ S.post \subseteq R.post
    BY <1>1, <1>4, RetryFacts
  <2>2. "failed" \in Outputs \cup {"failed"} /\ "failed" # "sent"
    OBVIOUS
  <2> QED
    BY <1>1, <1>2, <1>4, <2>1, <2>2 DEF AttemptStep
<1>5. CASE AttemptFails(r, n)
  <2> PICK S : S = Retry(R, n)
    OBVIOUS
  <2> QED
    BY <1>4, <1>5 DEF AttemptFails, world
<1>6. CASE SemanticNode(r, n)
  <2>1. PICK v \in Answers : OnlyRun(r, Got(R, n, v))
    BY <1>6 DEF SemanticNode
  <2>2. v \in Outputs \cup {"failed"} /\ v # "sent"
    BY DEF Answers, Outputs
  <2>3. R.def.kind[n] = "semantic" /\ UNCHANGED <<reviews, enabled, posts, handled, performed>>
    BY <1>6 DEF SemanticNode, world
  <2> QED
    BY <1>3, <2>1, <2>2, <2>3
<1>7. CASE GateNode(r, n)
  <2> PICK v : v = IF GatePasses(R.def.gate, R.out) THEN "yes" ELSE "no"
    OBVIOUS
  <2>1. v \in Outputs \cup {"failed"} /\ v # "sent"
    BY DEF Answers, Outputs
  <2>2. R.def.kind[n] = "gate" /\ UNCHANGED <<reviews, enabled, posts, handled, performed>>
        /\ OnlyRun(r, Got(R, n, v))
    BY <1>7 DEF GateNode, world
  <2> QED
    BY <1>3, <2>1, <2>2
<1>8. CASE ReviewNode(r, n)
  <2>1. /\ R.def.kind[n] = "review" /\ UNCHANGED <<enabled, posts, handled, performed>>
        /\ reviews' = reviews \cup {[run |-> r, node |-> n, att |-> R.att[n],
                                     owned |-> enabled]}
    BY <1>8 DEF ReviewNode
  <2>2. CASE enabled
    <3> PICK v : v = "queued"
      OBVIOUS
    <3> PICK S : S = Got(R, n, v)
      OBVIOUS
    <3>1. OnlyRun(r, S)
      BY <1>8, <2>2 DEF ReviewNode
    <3>2. v \in Outputs \cup {"failed"}
      BY DEF Outputs
    <3>3. Answered(R, S, n, v)
      BY <3>2, GotFacts
    <3>4. S.post \subseteq R.post
      BY <3>3 DEF Answered
    <3>5. AttemptStep(r, n, S)
      BY <1>1, <1>2, <2>1, <2>2, <3>1, <3>3, <3>4 DEF AttemptStep
    <3> QED
      BY <3>5
  <2>3. CASE ~ enabled
    <3> PICK S : S = Retry(R, n)
      OBVIOUS
    <3>1. OnlyRun(r, S)
      BY <1>8, <2>3 DEF ReviewNode
    <3>2. /\ Unanswered(R, S, n) \/ Answered(R, S, n, "failed")
          /\ S.post \subseteq R.post
      BY <1>1, RetryFacts
    <3>3. AttemptStep(r, n, S)
      BY <1>1, <1>2, <2>1, <2>3, <3>1, <3>2 DEF AttemptStep
    <3> QED
      BY <3>3
  <2> QED
    BY <2>2, <2>3
<1>9. CASE Simulate(r, n)
  <2> PICK v : v = IF R.dry THEN "simulated" ELSE "emitted"
    OBVIOUS
  <2>1. v \in Outputs \cup {"failed"} /\ v # "sent"
    BY DEF Outputs
  <2>2. R.def.kind[n] # "review" /\ UNCHANGED <<reviews, enabled, posts, handled, performed>>
        /\ OnlyRun(r, Got(R, n, v))
    BY <1>9 DEF Simulate, world
  <2> QED
    BY <1>3, <2>1, <2>2
<1>10. CASE PostWebhook(r, n)
  <2> DEFINE T == R.post \cup {n}
             S == [R EXCEPT !.post = T]
  <2>1. /\ R.def.kind[n] = "webhook" /\ ~ R.dry
        /\ posts' = posts \cup {Request(r, n)}
        /\ UNCHANGED <<reviews, enabled, handled, performed>>
        /\ OnlyRun(r, S)
    BY <1>10 DEF PostWebhook
  <2>2. T \in SUBSET Nodes
    BY DEF IsRun
  <2>3. Unanswered(R, S, n)
    BY <2>2, PostFacts
  <2>4. \A m \in S.post : m \in R.post \/ R.def.kind[m] = "webhook"
    BY <2>1, <2>3 DEF Unanswered
  <2> HIDE DEF S
  <2>5. AttemptStep(r, n, S)
    BY <1>1, <1>2, <2>1, <2>3, <2>4 DEF AttemptStep
  <2> QED
    BY <2>5
<1>11. CASE WebhookAnswers(r, n)
  <2> PICK v : v = "sent"
    OBVIOUS
  <2>1. v \in Outputs \cup {"failed"}
    BY DEF Outputs
  <2>2. /\ n \in R.post /\ Request(r, n) \in handled
        /\ UNCHANGED <<reviews, enabled, posts, handled, performed>>
        /\ OnlyRun(r, Got(R, n, v))
    BY <1>11 DEF WebhookAnswers, world
  <2>3. R.def.kind[n] # "review"
    BY <1>1, <2>2
  <2> QED
    BY <1>3, <2>1, <2>2, <2>3
<1> QED
  BY <1>5, <1>6, <1>7, <1>8, <1>9, <1>10, <1>11 DEF NodeStep

-----------------------------------------------------------------------------
(* Steps of the system *)

\* What a connection reads is a list of accepted definitions.
LEMMA VisibleFacts ==
    ASSUME TypeInv, NEW p \in Procs
    PROVE  /\ Visible(p) \in Seq(Accepted)
           /\ Len(Visible(p)) = Len(graphs) + Len(dirty[p])
           /\ Len(graphs) \in Nat \ {0} /\ Len(dirty[p]) \in Nat
           /\ DOMAIN Visible(p) = 1 .. Len(Visible(p))
           /\ DOMAIN graphs = 1 .. Len(graphs)
           /\ \A v \in DOMAIN graphs : v \in DOMAIN Visible(p) /\ Visible(p)[v] = graphs[v]
           /\ dirty[p] = << >> => Visible(p) = graphs
<1>1. graphs \in Seq(Accepted) /\ dirty[p] \in Seq(Accepted) /\ graphs # << >>
  BY DEF TypeInv
<1> QED
  BY <1>1 DEF Visible

\* A run that starts: its definition is the version its process reads.
LaunchStep(r, p, S) ==
    /\ run[r].phase = "idle"
    /\ run' = [run EXCEPT ![r] = S]
    /\ IsRun(S) /\ S.phase = "wave" /\ S.proc = p
    /\ S.version # 0 /\ Reads(p, S.version, S.def)
    /\ S.trace = << >> /\ S.out = << >> /\ NoBatch(S)
    /\ ~ S.failed /\ ~ S.review /\ S.ids = {}
    /\ txn' = AfterRead(p)
    /\ UNCHANGED <<graphs, saved, dirty, dirtyRuns, putting, acked, world, crashes>>

\* Launch starts a run of a version its process reads.
LEMMA LaunchFacts ==
    ASSUME TypeInv, NEW r \in Runs, NEW p \in Procs, NEW v, NEW q,
           q.dry \in BOOLEAN, q.retain \in BOOLEAN, q.key \in Keys, Launch(r, p, v, q)
    PROVE  \E S : LaunchStep(r, p, S)
<1> DEFINE d == Visible(p)[v]
           S == [NoRun EXCEPT !.phase = "wave", !.proc = p, !.def = d, !.version = v,
                              !.dry = q.dry, !.key = q.key, !.retain = q.retain]
<1>1. v \in 1 .. Len(Visible(p)) /\ run' = [run EXCEPT ![r] = S] /\ run[r].phase = "idle"
      /\ txn' = AfterRead(p)
      /\ UNCHANGED <<graphs, saved, dirty, dirtyRuns, putting, acked, world, crashes>>
  BY DEF Launch
<1>2. v \in DOMAIN Visible(p) /\ v \in Nat /\ v # 0 /\ d \in Accepted
  BY <1>1, VisibleFacts
<1>3. /\ DOMAIN S = Fields /\ S.phase = "wave" /\ S.proc = p /\ S.def = d /\ S.version = v
      /\ S.dry = q.dry /\ S.key = q.key /\ S.retain = q.retain
      /\ S.trace = NoRun.trace /\ S.out = NoRun.out /\ S.queue = NoRun.queue
      /\ S.batch = NoRun.batch /\ S.att = NoRun.att /\ S.got = NoRun.got
      /\ S.post = NoRun.post /\ S.failed = NoRun.failed /\ S.review = NoRun.review
      /\ S.ids = NoRun.ids
  <2>1. DOMAIN NoRun = Fields
    BY NoRunType DEF IsRun
  <2> HIDE DEF d
  <2> QED
    BY <2>1 DEF Fields
<1> HIDE DEF S
<1>4. IsRun(S)
  BY <1>2, <1>3, NoRunType DEF IsRun, Phases, Accepted
<1>5. NoBatch(S) /\ Reads(p, S.version, S.def)
  BY <1>2, <1>3, NoRunType DEF NoBatch, Reads
<1>6. LaunchStep(r, p, S)
  BY <1>1, <1>2, <1>3, <1>4, <1>5, NoRunType DEF LaunchStep
<1> QED
  BY <1>6

\* A step of a run that its process takes alone.
LocalStep(r, S) ==
    /\ run' = [run EXCEPT ![r] = S]
    /\ UNCHANGED <<store, world, crashes>>
    /\ \/ run[r].phase = "wave" /\ WaveStep(run[r], S)
       \/ run[r].phase = "wave" /\ ExpireStep(run[r], S)
       \/ /\ run[r].phase = "wave" /\ DOMAIN run[r].trace = Ids(run[r].def)
          /\ PhaseStep(run[r], S) /\ S.phase = "ended"
       \/ /\ run[r].phase = "batch" /\ DOMAIN run[r].got = run[r].batch
          /\ EndStep(run[r], S)

\* NextWave, Expire, WavesDone and BatchEnd are steps of one run.
LEMMA LocalFacts ==
    ASSUME TypeInv, NEW r \in Runs, NextWave(r) \/ Expire(r) \/ WavesDone(r) \/ BatchEnd(r)
    PROVE  \E S : LocalStep(r, S)
<1>1. DOMAIN run = Runs /\ IsRun(run[r]) /\ RunShape(run[r])
  BY DEF TypeInv
<1>2. CASE NextWave(r)
  <2>1. PICK S : WaveStep(run[r], S) /\ run' = [run EXCEPT ![r] = S]
    BY <1>1, <1>2, WaveFacts
  <2>2. run[r].phase = "wave" /\ UNCHANGED <<store, world, crashes>>
    BY <1>2 DEF NextWave, OnlyRun
  <2> QED
    BY <2>1, <2>2 DEF LocalStep
<1>3. CASE Expire(r)
  <2>1. PICK S : ExpireStep(run[r], S) /\ run' = [run EXCEPT ![r] = S]
    BY <1>1, <1>3, ExpireFacts
  <2>2. run[r].phase = "wave" /\ UNCHANGED <<store, world, crashes>>
    BY <1>3 DEF Expire, OnlyRun
  <2> QED
    BY <2>1, <2>2 DEF LocalStep
<1>4. CASE WavesDone(r)
  <2>1. PICK S : /\ PhaseStep(run[r], S) /\ S.phase = "ended"
                 /\ run' = [run EXCEPT ![r] = S]
    BY <1>1, <1>4, DoneFacts
  <2>2. /\ run[r].phase = "wave" /\ UNCHANGED <<store, world, crashes>>
        /\ Ids(run[r].def) \ DOMAIN run[r].trace = {}
    BY <1>4 DEF WavesDone, OnlyRun, Pending, Traced
  <2>3. DOMAIN run[r].trace = Ids(run[r].def)
    BY <1>1, <2>2 DEF RunShape
  <2> QED
    BY <2>1, <2>2, <2>3 DEF LocalStep
<1>5. CASE BatchEnd(r)
  <2>1. PICK S : EndStep(run[r], S) /\ run' = [run EXCEPT ![r] = S]
    BY <1>1, <1>5, EndFacts
  <2>2. run[r].phase = "batch" /\ UNCHANGED <<store, world, crashes>>
        /\ DOMAIN run[r].got = run[r].batch
    BY <1>5 DEF BatchEnd, OnlyRun
  <2> QED
    BY <2>1, <2>2 DEF LocalStep
<1> QED
  BY <1>2, <1>3, <1>4, <1>5

\* The record of a run at its end.
SaveStep(r, S) ==
    /\ run[r].phase = "ended" /\ putting[run[r].proc] = None
    /\ run' = [run EXCEPT ![r] = S]
    /\ PhaseStep(run[r], S) /\ S.phase \in {"answered", "lost"}
    /\ \/ CanWrite(run[r].proc) /\ Commit(run[r].proc, << >>, {r})
       \/ /\ ~ CanWrite(run[r].proc) /\ txn' = AfterBusyWrite(run[r].proc)
          /\ UNCHANGED <<graphs, saved, dirty, dirtyRuns>>
    /\ UNCHANGED <<putting, acked, world, crashes>>

\* SaveRun answers the caller or loses the record.
LEMMA SaveFacts ==
    ASSUME TypeInv, NEW r \in Runs, SaveRun(r)
    PROVE  \E S : SaveStep(r, S)
<1>1. DOMAIN run = Runs /\ IsRun(run[r])
  BY DEF TypeInv
<1> PICK v : v = IF CanWrite(run[r].proc) /\ CanCommit(run[r].proc) THEN "answered" ELSE "lost"
  OBVIOUS
<1> DEFINE S == [run[r] EXCEPT !.phase = v]
<1>2. run' = [run EXCEPT ![r] = S]
  <2>1. run' = [run EXCEPT ![r].phase = v]
    BY DEF SaveRun
  <2> QED
    BY <1>1, <2>1
<1>3. v \in Phases /\ v \in {"answered", "lost"}
  BY DEF Phases
<1>4. PhaseStep(run[r], S) /\ S.phase = v
  BY <1>1, <1>3, PhaseFacts
<1> HIDE DEF S
<1>5. SaveStep(r, S)
  BY <1>2, <1>3, <1>4 DEF SaveStep, SaveRun
<1> QED
  BY <1>5

\* A crash ends the active runs of the process.
CrashStep(p) ==
    /\ DOMAIN run' = Runs
    /\ \A r \in Runs :
         IF run[r].proc = p /\ run[r].phase \in {"wave", "batch", "ended"}
         THEN PhaseStep(run[r], run'[r]) /\ run'[r].phase = "crashed"
         ELSE run'[r] = run[r]
    /\ txn' = [txn EXCEPT ![p] = "none"]
    /\ dirty' = [dirty EXCEPT ![p] = << >>]
    /\ dirtyRuns' = [dirtyRuns EXCEPT ![p] = {}]
    /\ putting' = [putting EXCEPT ![p] = None]
    /\ crashes < MaxCrashes /\ crashes' = crashes + 1
    /\ UNCHANGED <<graphs, saved, acked, world>>

\* Crash ends the active runs of a process and rolls its connection back.
LEMMA CrashFacts ==
    ASSUME TypeInv, NEW p \in Procs, Crash(p)
    PROVE  CrashStep(p)
<1>1. \A r \in Runs : IsRun(run[r])
  BY DEF TypeInv
<1>2. ASSUME NEW r \in Runs, run[r].proc = p, run[r].phase \in {"wave", "batch", "ended"}
      PROVE  PhaseStep(run[r], run'[r]) /\ run'[r].phase = "crashed"
  <2> PICK S : S = [run[r] EXCEPT !.phase = "crashed"]
    OBVIOUS
  <2>1. run'[r] = S
    BY <1>2 DEF Crash
  <2>2. PhaseStep(run[r], S) /\ S.phase = "crashed"
    BY <1>1, PhaseFacts DEF Phases
  <2> QED
    BY <2>1, <2>2
<1>3. ASSUME NEW r \in Runs, ~ (run[r].proc = p /\ run[r].phase \in {"wave", "batch", "ended"})
      PROVE  run'[r] = run[r]
  BY <1>3 DEF Crash
<1> QED
  BY <1>2, <1>3 DEF Crash, CrashStep

\* Every step is one of these.
LEMMA StepCases ==
    ASSUME TypeInv, Next
    PROVE  \/ \E p \in Procs, d \in Updates : PutRead(p, d)
           \/ \E p \in Procs : PutInsert(p)
           \/ \E p \in Procs : CrashStep(p)
           \/ \E r \in Runs, p \in Procs : \E S : LaunchStep(r, p, S)
           \/ \E r \in Runs : \E S : LocalStep(r, S)
           \/ \E r \in Runs : \E S : SaveStep(r, S)
           \/ \E r \in Runs, n \in Nodes : \E S : AttemptStep(r, n, S)
           \/ \E m : Receive(m)
           \/ ToggleProject
<1>1. /\ graphs[1] \in Initial /\ Scope[graphs[1]].procs \subseteq Procs
      /\ \A q \in Scope[graphs[1]].requests : {q.dry, q.retain} \subseteq BOOLEAN
      /\ \A q \in Scope[graphs[1]].requests : q.key \in Keys
  BY GraphAssumption DEF TypeInv, Keys
<1>2. ASSUME NEW p \in Procs, NEW r \in Runs, Start(r, p)
      PROVE  \E S : LaunchStep(r, p, S)
  <2>1. PICK v \in 1 .. Len(Visible(p)), q \in Scope[graphs[1]].requests : Launch(r, p, v, q)
    BY <1>2 DEF Start
  <2> QED
    BY <1>1, <2>1, LaunchFacts
<1>3. ASSUME NEW p \in Procs, NEW r \in Runs, NEW t \in Runs, Replay(r, p, t)
      PROVE  \E S : LaunchStep(r, p, S)
  <2>1. PICK dry \in BOOLEAN :
          Launch(r, p, run[t].version, [dry |-> dry, key |-> None, retain |-> FALSE])
    BY <1>3 DEF Replay
  <2> DEFINE asked == [dry |-> dry, key |-> None, retain |-> FALSE]
  <2>2. asked.dry \in BOOLEAN /\ asked.retain \in BOOLEAN /\ asked.key \in Keys
    BY DEF Keys
  <2>3. Launch(r, p, run[t].version, asked)
    BY <2>1
  <2> HIDE DEF asked
  <2> QED
    BY <2>2, <2>3, LaunchFacts
<1>4. ASSUME NEW r \in Runs, NEW n \in Nodes, NodeStep(r, n)
      PROVE  \E S : AttemptStep(r, n, S)
  BY <1>4, AttemptFacts DEF TypeInv
<1>5. ASSUME NEW r \in Runs, RunStep(r)
      PROVE  \/ \E S : LocalStep(r, S) \/ SaveStep(r, S)
             \/ \E n \in Nodes : \E S : AttemptStep(r, n, S)
  BY <1>4, <1>5, LocalFacts, SaveFacts DEF RunStep
<1>6. ASSUME NEW p \in Scope[graphs[1]].procs,
             \/ \E d \in Updates : PutRead(p, d)
             \/ PutInsert(p) \/ Crash(p)
             \/ \E r \in Runs : Start(r, p)
             \/ \E r, q \in Runs : Replay(r, p, q)
      PROVE  \/ \E d \in Updates : PutRead(p, d)
             \/ PutInsert(p) \/ CrashStep(p)
             \/ \E r \in Runs : \E S : LaunchStep(r, p, S)
  <2>1. p \in Procs
    BY <1>1
  <2> QED
    BY <1>2, <1>3, <1>6, <2>1, CrashFacts
<1> QED
  BY <1>1, <1>5, <1>6 DEF Next

-----------------------------------------------------------------------------
(* Types *)

\* A run has its shape when it starts.
LEMMA NoRunShape ==
    ASSUME NEW S, IsRun(S), S.proc \in Procs, S.def \in Accepted, S.version # 0,
           S.phase = "wave", S.trace = << >>, NoBatch(S)
    PROVE  RunShape(S)
<1>1. DOMAIN S.trace = {} /\ Range(S.queue) = {} /\ IsInjective(S.queue) /\ DOMAIN S.att = {}
      /\ DOMAIN S.got = {}
  BY DEF NoBatch, Range, IsInjective
<1> QED
  BY <1>1 DEF RunShape, BatchFits, NoBatch, Over

\* A wave keeps the shape of a run.
LEMMA WaveShape ==
    ASSUME NEW R, NEW S, IsRun(R), RunShape(R), R.phase = "wave", WaveStep(R, S)
    PROVE  RunShape(S)
<1> DEFINE started == {n \in Open(R) : Active(R, n)}
           skipped == Open(R) \ started
<1>1. started \subseteq Open(R) /\ skipped \subseteq Open(R) /\ started \cap skipped = {}
      /\ Open(R) \subseteq Ids(R.def) /\ Open(R) \cap DOMAIN R.trace = {}
  BY DEF Open
<1>2. /\ Kept(R, S) /\ DOMAIN S.trace = DOMAIN R.trace \cup skipped
      /\ S.phase \in {"wave", "batch"}
      /\ S.phase = "wave" => NoBatch(S)
      /\ S.batch \cup Range(S.queue) = started
      /\ S.batch \cap Range(S.queue) = {} /\ IsInjective(S.queue)
      /\ DOMAIN S.att = S.batch /\ S.got = << >> /\ S.post = {}
  BY DEF WaveStep
<1> HIDE DEF started, skipped
<1>3. R.proc \in Procs /\ R.def \in Accepted /\ R.version # 0 /\ DOMAIN R.trace \subseteq Ids(R.def)
  BY DEF RunShape
<1>4. BatchFits(S)
  BY <1>1, <1>2, <1>3 DEF BatchFits, Kept
<1>5. S.proc = R.proc /\ S.def = R.def /\ S.version = R.version
  BY <1>2 DEF Kept
<1>6. DOMAIN S.trace \subseteq Ids(S.def)
  BY <1>1, <1>2, <1>3, <1>5
<1>7. S.phase # "idle" /\ S.phase \notin Over
  BY <1>2 DEF Over
<1> QED
  BY <1>2, <1>3, <1>4, <1>5, <1>6, <1>7 DEF RunShape

\* The deadline keeps the shape of a run.
LEMMA ExpireShape ==
    ASSUME NEW R, NEW S, IsRun(R), RunShape(R), R.phase = "wave", ExpireStep(R, S)
    PROVE  RunShape(S)
<1>1. R.proc \in Procs /\ R.def \in Accepted /\ R.version # 0
  BY DEF RunShape
<1>2. BatchFits(S)
  BY DEF ExpireStep, BatchFits, NoBatch, Range, IsInjective
<1> QED
  BY <1>1, <1>2 DEF ExpireStep, RunShape, Kept, Over

\* The end of a batch keeps the shape of a run.
LEMMA EndShape ==
    ASSUME NEW R, NEW S, IsRun(R), RunShape(R), R.phase = "batch", EndStep(R, S)
    PROVE  RunShape(S)
<1>1. R.proc \in Procs /\ R.def \in Accepted /\ R.version # 0 /\ DOMAIN R.trace \subseteq Ids(R.def)
      /\ BatchFits(R)
  BY DEF RunShape
<1>2. /\ Kept(R, S)
      /\ DOMAIN S.trace = IF S.failed THEN Ids(R.def) ELSE DOMAIN R.trace \cup R.batch
      /\ S.failed => S.phase = "ended"
      /\ ~ S.failed => S.phase \in {"wave", "batch"}
      /\ S.phase # "batch" => NoBatch(S)
      /\ S.phase = "batch" => Divided(S, R.queue)
  BY DEF EndStep
<1>3. CASE S.phase = "batch"
  <2>1. BatchFits(S)
    BY <1>1, <1>2, <1>3 DEF BatchFits, Divided, Kept
  <2> QED
    BY <1>1, <1>2, <1>3, <2>1 DEF RunShape, BatchFits, Kept, Over
<1>4. CASE S.phase # "batch"
  <2>0. Range(<< >>) = {} /\ IsInjective(<< >>) /\ DOMAIN << >> = {}
    BY DEF Range, IsInjective
  <2>1. BatchFits(S)
    BY <1>2, <1>4, <2>0 DEF BatchFits, NoBatch
  <2> QED
    BY <1>1, <1>2, <1>4, <2>1 DEF RunShape, BatchFits, Kept, Over
<1> QED
  BY <1>3, <1>4

\* A change of phase keeps the shape of a run that may be in that phase.
LEMMA PhaseShape ==
    ASSUME NEW R, NEW S, IsRun(R), RunShape(R), R.phase # "idle", PhaseStep(R, S), S.phase # "idle",
           S.phase \in Over \cup {"wave"} => NoBatch(R),
           S.phase \in Over => DOMAIN R.trace = Ids(R.def)
    PROVE  RunShape(S)
BY DEF PhaseStep, RunShape, BatchFits, NoBatch, Kept

\* An attempt keeps the shape of a run.
LEMMA AttemptShape ==
    ASSUME NEW r \in Runs, NEW n \in Nodes, NEW S, IsRun(run[r]), RunShape(run[r]),
           AttemptStep(r, n, S)
    PROVE  IsRun(S) /\ RunShape(S) /\ Trying(run[r], S)
<1> DEFINE R == run[r]
<1>1. /\ Trying(R, S) /\ n \in R.batch /\ R.phase = "batch"
      /\ DOMAIN S.att = DOMAIN R.att
      /\ DOMAIN S.got \subseteq DOMAIN R.got \cup {n}
      /\ \A m \in S.post : m \in R.post \/ R.def.kind[m] = "webhook"
  BY DEF AttemptStep, Unanswered, Answered
<1>2. S.post \subseteq R.post \cup {n}
  BY DEF AttemptStep, Unanswered, Answered
<1>3. BatchFits(R) /\ R.proc \in Procs /\ R.def \in Accepted /\ R.version # 0
      /\ DOMAIN R.trace \subseteq Ids(R.def)
  BY <1>1 DEF RunShape
<1>4. BatchFits(S)
  BY <1>1, <1>2, <1>3 DEF BatchFits, Trying, Kept
<1> QED
  BY <1>1, <1>3, <1>4 DEF Trying, RunShape, Kept, Over

Locks == {"none", "begun", "shared", "reserved", "pending"}

\* The operators on locks return locks.
LEMMA LockTypes ==
    ASSUME TypeInv, NEW p \in Procs
    PROVE  /\ txn \in [Procs -> Locks]
           /\ AfterRead(p) \in [Procs -> Locks]
           /\ AfterBusyWrite(p) \in [Procs -> Locks]
           /\ AfterFailedInsert(p) \in [Procs -> Locks]
<1>1. txn \in [Procs -> Locks]
  BY DEF TypeInv, Locks
<1> QED
  BY <1>1 DEF Locks, AfterRead, AfterBusyWrite, AfterFailedInsert

\* What the store's variables are after a commit, or after one that failed.
StoreTypes ==
    /\ graphs \in Seq(Accepted) /\ graphs # << >>
    /\ saved \subseteq Runs
    /\ txn \in [Procs -> Locks]
    /\ dirty \in [Procs -> Seq(Updates \cap Accepted)]
    /\ dirtyRuns \in [Procs -> SUBSET Runs]

\* Commit keeps the types of the store.
LEMMA CommitTypes ==
    ASSUME TypeInv, NEW p \in Procs, NEW vs \in Seq(Updates \cap Accepted), NEW rs \in SUBSET Runs,
           Commit(p, vs, rs)
    PROVE  StoreTypes' /\ graphs'[1] = graphs[1]
<1>1. /\ graphs \in Seq(Accepted) /\ graphs # << >> /\ saved \subseteq Runs
      /\ txn \in [Procs -> Locks]
      /\ dirty \in [Procs -> Seq(Updates \cap Accepted)]
      /\ dirtyRuns \in [Procs -> SUBSET Runs]
  BY DEF TypeInv, Locks
<1>2. dirty[p] \in Seq(Updates \cap Accepted) /\ << >> \in Seq(Updates \cap Accepted)
  BY <1>1
<1>3. CASE CanCommit(p)
  <2>1. /\ graphs' = Visible(p) \o vs
        /\ saved' = saved \cup dirtyRuns[p] \cup rs
        /\ dirty' = [dirty EXCEPT ![p] = << >>]
        /\ dirtyRuns' = [dirtyRuns EXCEPT ![p] = {}]
        /\ txn' = [txn EXCEPT ![p] = "none"]
    BY <1>3 DEF Commit
  <2>2. Visible(p) \o vs \in Seq(Accepted) /\ Visible(p) \o vs # << >>
        /\ (Visible(p) \o vs)[1] = graphs[1]
    <3>1. Visible(p) \in Seq(Accepted) /\ Visible(p)[1] = graphs[1] /\ Len(Visible(p)) \in Nat \ {0}
      BY VisibleFacts
    <3>2. vs \in Seq(Accepted)
      OBVIOUS
    <3> QED
      BY <3>1, <3>2
  <2>3. saved' \subseteq Runs /\ txn' \in [Procs -> Locks]
    BY <1>1, <2>1 DEF Locks
  <2>4. dirty' \in [Procs -> Seq(Updates \cap Accepted)]
    BY <1>1, <1>2, <2>1
  <2>5. dirtyRuns' \in [Procs -> SUBSET Runs]
    BY <1>1, <2>1
  <2> QED
    BY <2>1, <2>2, <2>3, <2>4, <2>5 DEF StoreTypes
<1>4. CASE ~ CanCommit(p)
  <2>1. /\ dirty' = [dirty EXCEPT ![p] = dirty[p] \o vs]
        /\ dirtyRuns' = [dirtyRuns EXCEPT ![p] = dirtyRuns[p] \cup rs]
        /\ txn' = [txn EXCEPT ![p] = "pending"]
        /\ UNCHANGED <<graphs, saved>>
    BY <1>4 DEF Commit
  <2>2. dirty[p] \o vs \in Seq(Updates \cap Accepted)
    BY <1>2
  <2>3. txn' \in [Procs -> Locks]
    BY <1>1, <2>1 DEF Locks
  <2>4. dirty' \in [Procs -> Seq(Updates \cap Accepted)]
    BY <1>1, <2>1, <2>2
  <2>5. dirtyRuns' \in [Procs -> SUBSET Runs]
    BY <1>1, <2>1
  <2> QED
    BY <1>1, <2>1, <2>3, <2>4, <2>5 DEF StoreTypes
<1> QED
  BY <1>3, <1>4

\* The rest of the type invariant.
OtherTypes ==
    /\ putting \in [Procs -> [def : Updates \cap Accepted, max : Nat] \cup {None}]
    /\ acked \subseteq Nat \X (Initial \cup Updates)

RunTypes == DOMAIN run = Runs /\ \A r \in Runs : IsRun(run[r]) /\ RunShape(run[r])

WorldTypes ==
    /\ \A e \in reviews : e.run \in Runs /\ e.node \in Nodes
    /\ performed \subseteq handled /\ handled \subseteq posts
    /\ enabled \in BOOLEAN

\* TypeInv, one conjunct at a time.
LEMMA TypeParts ==
    TypeInv <=> /\ StoreTypes /\ graphs[1] \in Initial /\ OtherTypes /\ RunTypes /\ WorldTypes
                /\ crashes \in 0 .. MaxCrashes
BY DEF TypeInv, StoreTypes, OtherTypes, RunTypes, WorldTypes, Locks

\* The initial states are well typed.
LEMMA TypeInit == Init => TypeInv
<1> SUFFICES ASSUME Init PROVE TypeInv
  OBVIOUS
<1>1. PICK d \in Initial : Valid(d) /\ graphs = <<d>>
  BY DEF Init
<1>2. d \in Accepted /\ graphs \in Seq(Accepted) /\ graphs # << >> /\ graphs[1] = d
  BY <1>1 DEF Accepted
<1>3. StoreTypes
  <2>1. << >> \in Seq(Updates \cap Accepted)
    OBVIOUS
  <2> QED
    BY <1>2, <2>1 DEF Init, StoreTypes, Locks
<1>4. OtherTypes
  BY <1>1, <1>2 DEF Init, OtherTypes
<1>5. RunTypes
  BY NoRunType DEF Init, RunTypes, RunShape
<1>6. WorldTypes /\ crashes \in 0 .. MaxCrashes
  BY GraphAssumption DEF Init, WorldTypes
<1> QED
  BY <1>1, <1>2, <1>3, <1>4, <1>5, <1>6, TypeParts

\* One run's record changes.
LEMMA OneRunTypes ==
    ASSUME TypeInv, NEW r \in Runs, NEW S, IsRun(S), RunShape(S), run' = [run EXCEPT ![r] = S]
    PROVE  RunTypes'
<1>1. DOMAIN run = Runs /\ \A t \in Runs : IsRun(run[t]) /\ RunShape(run[t])
  BY DEF TypeInv
<1>2. DOMAIN run' = Runs
  BY <1>1
<1>3. ASSUME NEW t \in Runs PROVE IsRun(run'[t]) /\ RunShape(run'[t])
  <2>1. CASE t = r
    <3>1. run'[t] = S
      BY <1>1, <2>1
    <3> QED
      BY <3>1
  <2>2. CASE t # r
    <3>1. run'[t] = run[t]
      BY <2>2
    <3> QED
      BY <1>1, <3>1
  <2> QED
    BY <2>1, <2>2
<1> QED
  BY <1>2, <1>3 DEF RunTypes

\* The steps of one run keep its shape.
LEMMA LocalShape ==
    ASSUME NEW r \in Runs, NEW S, IsRun(run[r]), RunShape(run[r]), LocalStep(r, S)
    PROVE  IsRun(S) /\ RunShape(S) /\ Kept(run[r], S)
<1>1. CASE run[r].phase = "wave" /\ WaveStep(run[r], S)
  BY <1>1, WaveShape DEF WaveStep
<1>2. CASE run[r].phase = "wave" /\ ExpireStep(run[r], S)
  BY <1>2, ExpireShape DEF ExpireStep
<1>3. CASE /\ run[r].phase = "wave" /\ DOMAIN run[r].trace = Ids(run[r].def)
           /\ PhaseStep(run[r], S) /\ S.phase = "ended"
  <2>1. NoBatch(run[r])
    BY <1>3 DEF RunShape
  <2>2. RunShape(S)
    BY <1>3, <2>1, PhaseShape
  <2> QED
    BY <1>3, <2>2 DEF PhaseStep
<1>4. CASE run[r].phase = "batch" /\ EndStep(run[r], S)
  BY <1>4, EndShape DEF EndStep
<1> QED
  BY <1>1, <1>2, <1>3, <1>4 DEF LocalStep

\* The end of a request keeps the shape of its run.
LEMMA SaveShape ==
    ASSUME NEW r \in Runs, NEW S, IsRun(run[r]), RunShape(run[r]), SaveStep(r, S)
    PROVE  IsRun(S) /\ RunShape(S) /\ run[r].proc \in Procs
<1>1. NoBatch(run[r]) /\ DOMAIN run[r].trace = Ids(run[r].def) /\ run[r].proc \in Procs
      /\ run[r].phase = "ended" /\ PhaseStep(run[r], S) /\ S.phase \in {"answered", "lost"}
  BY DEF SaveStep, RunShape, Over
<1>2. RunShape(S)
  BY <1>1, PhaseShape
<1> QED
  BY <1>1, <1>2 DEF PhaseStep

\* A run that was started has its shape.
LEMMA LaunchShape ==
    ASSUME TypeInv, NEW r \in Runs, NEW p \in Procs, NEW S, LaunchStep(r, p, S)
    PROVE  RunShape(S)
<1>1. S.def \in Accepted
  BY VisibleFacts, SeqFacts DEF LaunchStep, Reads
<1> QED
  BY <1>1, NoRunShape DEF LaunchStep

\* Every step keeps the types.
LEMMA TypeNext == TypeInv /\ [Next]_vars => TypeInv'
<1> SUFFICES ASSUME TypeInv, [Next]_vars PROVE TypeInv'
  OBVIOUS
<1>1. /\ StoreTypes /\ graphs[1] \in Initial /\ OtherTypes /\ RunTypes /\ WorldTypes
      /\ crashes \in 0 .. MaxCrashes /\ MaxCrashes \in Nat
  BY TypeParts, GraphAssumption
<1>2. ASSUME StoreTypes', graphs'[1] = graphs[1], OtherTypes', RunTypes', WorldTypes',
             crashes' \in 0 .. MaxCrashes
      PROVE  TypeInv'
  BY <1>1, <1>2 DEF TypeInv, StoreTypes, OtherTypes, RunTypes, WorldTypes, Locks
<1>3. ASSUME UNCHANGED <<graphs, saved, dirty, dirtyRuns>>, txn' \in [Procs -> Locks]
      PROVE  StoreTypes' /\ graphs'[1] = graphs[1]
  BY <1>1, <1>3 DEF StoreTypes
<1>4. ASSUME UNCHANGED <<putting, acked>> PROVE OtherTypes'
  BY <1>1, <1>4 DEF OtherTypes
<1>5. ASSUME UNCHANGED world PROVE WorldTypes'
  BY <1>1, <1>5 DEF WorldTypes, world
<1>6. ASSUME UNCHANGED run PROVE RunTypes'
  BY <1>1, <1>6 DEF RunTypes
<1>7. ASSUME NEW p \in Procs, NEW d \in Updates, PutRead(p, d) PROVE TypeInv'
  <2>1. /\ Valid(d) /\ txn' = AfterRead(p)
        /\ putting' = [putting EXCEPT ![p] = [def |-> d, max |-> Len(Visible(p))]]
        /\ UNCHANGED <<graphs, saved, dirty, dirtyRuns, acked, run, world, crashes>>
    BY <1>7 DEF PutRead
  <2>2. txn' \in [Procs -> Locks]
    BY <2>1, LockTypes
  <2>3. [def |-> d, max |-> Len(Visible(p))] \in [def : Updates \cap Accepted, max : Nat]
    BY <2>1, VisibleFacts DEF Accepted
  <2>4. OtherTypes'
    <3> PICK new : new = [def |-> d, max |-> Len(Visible(p))]
      OBVIOUS
    <3>1. putting' = [putting EXCEPT ![p] = new]
      BY <2>1
    <3>2. new \in [def : Updates \cap Accepted, max : Nat]
      BY <2>3
    <3> QED
      BY <1>1, <2>1, <3>1, <3>2 DEF OtherTypes
  <2> QED
    BY <1>1, <1>2, <1>3, <1>5, <1>6, <2>1, <2>2, <2>4
<1>8. ASSUME NEW p \in Procs, PutInsert(p) PROVE TypeInv'
  <2> DEFINE put == putting[p]
  <2>1. /\ put # None /\ putting' = [putting EXCEPT ![p] = None]
        /\ UNCHANGED <<run, world, crashes>>
    BY <1>8 DEF PutInsert
  <2>2. put \in [def : Updates \cap Accepted, max : Nat]
    BY <1>1, <2>1 DEF OtherTypes
  <2>3. putting' \in [Procs -> [def : Updates \cap Accepted, max : Nat] \cup {None}]
    BY <1>1, <2>1 DEF OtherTypes
  <2>4. CASE /\ Commit(p, <<put.def>>, {})
             /\ acked' = IF CanCommit(p) THEN acked \cup {<<put.max + 1, put.def>>} ELSE acked
    <3>1. <<put.def>> \in Seq(Updates \cap Accepted) /\ put.max + 1 \in Nat
          /\ put.def \in Initial \cup Updates
      BY <2>2
    <3> PICK vs : vs = <<put.def>>
      OBVIOUS
    <3>a. vs \in Seq(Updates \cap Accepted) /\ Commit(p, vs, {})
      BY <2>4, <3>1
    <3>2. StoreTypes' /\ graphs'[1] = graphs[1]
      BY <3>a, CommitTypes
    <3>3. acked' \subseteq Nat \X (Initial \cup Updates)
      BY <1>1, <2>4, <3>1 DEF OtherTypes
    <3>4. OtherTypes'
      BY <2>3, <3>3 DEF OtherTypes
    <3> QED
      BY <1>1, <1>2, <1>5, <1>6, <2>1, <3>2, <3>4
  <2>5. CASE /\ txn' = AfterFailedInsert(p) \/ txn' = AfterBusyWrite(p)
             /\ UNCHANGED <<graphs, saved, dirty, dirtyRuns, acked>>
    <3>1. txn' \in [Procs -> Locks]
      BY <2>5, LockTypes
    <3>2. OtherTypes'
      BY <1>1, <2>3, <2>5 DEF OtherTypes
    <3> QED
      BY <1>1, <1>2, <1>3, <1>5, <1>6, <2>1, <2>5, <3>1, <3>2
  <2> QED
    BY <1>8, <2>4, <2>5 DEF PutInsert
<1>9. ASSUME NEW p \in Procs, CrashStep(p) PROVE TypeInv'
  <2>1. << >> \in Seq(Updates \cap Accepted)
    OBVIOUS
  <2>2. StoreTypes' /\ graphs'[1] = graphs[1]
    BY <1>1, <1>9, <2>1 DEF StoreTypes, CrashStep, Locks
  <2>3. OtherTypes' /\ WorldTypes'
    BY <1>1, <1>5, <1>9 DEF OtherTypes, CrashStep
  <2>4. crashes' \in 0 .. MaxCrashes
    BY <1>1, <1>9 DEF CrashStep
  <2>5. ASSUME NEW r \in Runs PROVE IsRun(run'[r]) /\ RunShape(run'[r])
    <3>1. IsRun(run[r]) /\ RunShape(run[r])
      BY <1>1 DEF RunTypes
    <3>2. CASE run[r].proc = p /\ run[r].phase \in {"wave", "batch", "ended"}
      <4>1. PhaseStep(run[r], run'[r]) /\ run'[r].phase = "crashed"
        BY <1>9, <3>2 DEF CrashStep
      <4> PICK S : S = run'[r]
        OBVIOUS
      <4>2. RunShape(S)
        BY <3>1, <3>2, <4>1, PhaseShape DEF Over
      <4> QED
        BY <4>1, <4>2 DEF PhaseStep
    <3>3. CASE ~ (run[r].proc = p /\ run[r].phase \in {"wave", "batch", "ended"})
      <4>1. run'[r] = run[r]
        BY <1>9, <3>3 DEF CrashStep
      <4> QED
        BY <3>1, <4>1
    <3> QED
      BY <3>2, <3>3
  <2>6. RunTypes'
    BY <1>9, <2>5 DEF RunTypes, CrashStep
  <2> QED
    BY <1>2, <2>2, <2>3, <2>4, <2>6
<1>10. ASSUME NEW r \in Runs, NEW p \in Procs, NEW S, LaunchStep(r, p, S) PROVE TypeInv'
  <2>1. IsRun(S) /\ run' = [run EXCEPT ![r] = S] /\ txn' = AfterRead(p)
        /\ UNCHANGED <<graphs, saved, dirty, dirtyRuns, putting, acked, world, crashes>>
    BY <1>10 DEF LaunchStep
  <2>2. RunTypes'
    BY <1>10, <2>1, LaunchShape, OneRunTypes
  <2>3. txn' \in [Procs -> Locks]
    BY <2>1, LockTypes
  <2> QED
    BY <1>1, <1>2, <1>3, <1>4, <1>5, <2>1, <2>2, <2>3
<1>11. ASSUME NEW r \in Runs, NEW S, LocalStep(r, S) PROVE TypeInv'
  <2>1. IsRun(S) /\ RunShape(S)
    BY <1>1, <1>11, LocalShape DEF RunTypes
  <2>2. run' = [run EXCEPT ![r] = S] /\ UNCHANGED <<store, world, crashes>>
    BY <1>11 DEF LocalStep
  <2>3. RunTypes'
    BY <2>1, <2>2, OneRunTypes
  <2>4. txn' \in [Procs -> Locks]
    BY <1>1, <2>2 DEF StoreTypes, store
  <2> QED
    BY <1>1, <1>2, <1>3, <1>4, <1>5, <2>2, <2>3, <2>4 DEF store
<1>12. ASSUME NEW r \in Runs, NEW S, SaveStep(r, S) PROVE TypeInv'
  <2>1. IsRun(S) /\ RunShape(S) /\ run[r].proc \in Procs
    BY <1>1, <1>12, SaveShape DEF RunTypes
  <2>2. run' = [run EXCEPT ![r] = S] /\ UNCHANGED <<putting, acked, world, crashes>>
    BY <1>12 DEF SaveStep
  <2>3. RunTypes'
    BY <2>1, <2>2, OneRunTypes
  <2>4. StoreTypes' /\ graphs'[1] = graphs[1]
    <3>1. CASE Commit(run[r].proc, << >>, {r})
      <4>1. << >> \in Seq(Updates \cap Accepted) /\ {r} \in SUBSET Runs
        OBVIOUS
      <4> QED
        BY <2>1, <3>1, <4>1, CommitTypes
    <3>2. CASE /\ txn' = AfterBusyWrite(run[r].proc)
               /\ UNCHANGED <<graphs, saved, dirty, dirtyRuns>>
      BY <1>3, <2>1, <3>2, LockTypes
    <3> QED
      BY <1>12, <3>1, <3>2 DEF SaveStep
  <2> QED
    BY <1>1, <1>2, <1>4, <1>5, <2>2, <2>3, <2>4
<1>13. ASSUME NEW r \in Runs, NEW n \in Nodes, NEW S, AttemptStep(r, n, S) PROVE TypeInv'
  <2>1. IsRun(S) /\ RunShape(S)
    BY <1>1, <1>13, AttemptShape DEF RunTypes
  <2>2. run' = [run EXCEPT ![r] = S]
        /\ UNCHANGED <<store, enabled, handled, performed, crashes>>
    BY <1>13 DEF AttemptStep
  <2>3. RunTypes'
    BY <2>1, <2>2, OneRunTypes
  <2>4. txn' \in [Procs -> Locks]
    BY <1>1, <2>2 DEF StoreTypes, store
  <2>5. WorldTypes'
    <3>1. \A e \in reviews' : e \in reviews \/ (e.run = r /\ e.node = n)
      BY <1>13 DEF AttemptStep
    <3>2. posts \subseteq posts'
      BY <1>13 DEF AttemptStep
    <3> QED
      BY <1>1, <2>2, <3>1, <3>2 DEF WorldTypes
  <2> QED
    BY <1>1, <1>2, <1>3, <1>4, <2>2, <2>3, <2>4, <2>5 DEF store
<1>14. ASSUME NEW m, Receive(m) PROVE TypeInv'
  <2>1. WorldTypes'
    BY <1>1, <1>14 DEF WorldTypes, Receive
  <2>2. UNCHANGED <<store, run, crashes>>
    BY <1>14 DEF Receive
  <2>3. txn' \in [Procs -> Locks]
    BY <1>1, <2>2 DEF StoreTypes, store
  <2> QED
    BY <1>1, <1>2, <1>3, <1>4, <1>6, <2>1, <2>2, <2>3 DEF store
<1>15. CASE ToggleProject
  <2>1. WorldTypes'
    BY <1>1, <1>15 DEF WorldTypes, ToggleProject
  <2>2. UNCHANGED <<store, run, crashes>>
    BY <1>15 DEF ToggleProject
  <2>3. txn' \in [Procs -> Locks]
    BY <1>1, <2>2 DEF StoreTypes, store
  <2> QED
    BY <1>1, <1>2, <1>3, <1>4, <1>6, <2>1, <2>2, <2>3 DEF store
<1>16. CASE UNCHANGED vars
  <2>1. UNCHANGED <<store, world, run, crashes>>
    BY <1>16 DEF vars
  <2>2. txn' \in [Procs -> Locks]
    BY <1>1, <2>1 DEF StoreTypes, store
  <2> QED
    BY <1>1, <1>2, <1>3, <1>4, <1>5, <1>6, <2>1, <2>2 DEF store
<1>17. CASE Next
  BY <1>7, <1>8, <1>9, <1>10, <1>11, <1>12, <1>13, <1>14, <1>15, <1>17, StepCases
<1> QED
  BY <1>16, <1>17

\* The inductive invariant of types holds always.
LEMMA TypeInvariant == Spec => []TypeInv
<1>1. Init => TypeInv
  BY TypeInit
<1>2. TypeInv /\ [Next]_vars => TypeInv'
  BY TypeNext
<1> QED
  BY <1>1, <1>2, PTL DEF Spec

\* Every variable has its type, for any processes, runs, definitions, faults
\* and crashes.
THEOREM TypeCorrect == Spec => []TypeOK
<1>1. TypeInv => TypeOK
  <2> SUFFICES ASSUME TypeInv PROVE TypeOK
    OBVIOUS
  <2>1. graphs \in Seq(Initial \cup Updates) /\ dirty \in [Procs -> Seq(Updates)]
        /\ putting \in [Procs -> [def : Updates, max : Nat] \cup {None}]
    <3>1. Accepted \subseteq Initial \cup Updates
      BY DEF Accepted
    <3>2. graphs \in Seq(Initial \cup Updates)
      BY <3>1 DEF TypeInv
    <3>3. \A p \in Procs : dirty[p] \in Seq(Updates)
      BY DEF TypeInv
    <3>4. dirty \in [Procs -> Seq(Updates)]
      BY <3>3 DEF TypeInv
    <3>5. [def : Updates \cap Accepted, max : Nat] \subseteq [def : Updates, max : Nat]
      OBVIOUS
    <3>6. putting \in [Procs -> [def : Updates, max : Nat] \cup {None}]
      BY <3>5 DEF TypeInv
    <3> QED
      BY <3>2, <3>4, <3>6
  <2>2. ASSUME NEW r \in Runs PROVE RunOK(run[r])
    <3> DEFINE R == run[r]
    <3>1. IsRun(R) /\ RunShape(R)
      BY DEF TypeInv
    <3> HIDE DEF R
    <3>2. /\ PartialMap(R.trace, Nodes, Traces) /\ PartialMap(R.out, Nodes, Outputs)
          /\ PartialMap(R.att, Nodes, Nat)
          /\ PartialMap(R.got, Nodes, Outputs \cup {"failed"})
      BY <3>1, PartialFacts DEF IsRun
    <3>3. DOMAIN R.got \subseteq R.batch /\ R.post \subseteq R.batch
      <4>1. CASE R.phase = "idle"
        BY <3>1, <4>1, NoRunType, EmptyPartial DEF RunShape
      <4>2. CASE R.phase # "idle"
        BY <3>1, <4>2 DEF RunShape, BatchFits
      <4> QED
        BY <4>1, <4>2
    <3>4. PartialMap(R.got, R.batch, Outputs \cup {"failed"})
      BY <3>2, <3>3 DEF PartialMap
    <3>5. {R.dry, R.retain, R.failed, R.review} \subseteq BOOLEAN
      BY <3>1 DEF IsRun
    <3>6. RunOK(R)
      BY <3>1, <3>2, <3>3, <3>4, <3>5 DEF RunOK, IsRun, Keys
    <3> QED
      BY <3>6 DEF R
  <2> QED
    BY <2>1, <2>2 DEF TypeInv, TypeOK
<1> QED
  BY <1>1, TypeInvariant, PTL

-----------------------------------------------------------------------------
(* The store *)

\* A run that was started stays what it is, and starts with a version its
\* process reads.
RunsKept ==
    \A r \in Runs :
      \/ run'[r] = run[r]
      \/ /\ run[r].phase # "idle" /\ run'[r].phase # "idle"
         /\ Kept(run[r], run'[r])
         /\ run'[r].phase \in Live => run[r].phase \in Live
      \/ /\ run[r].phase = "idle" /\ run'[r].phase # "idle"
         /\ Reads(run'[r].proc, run'[r].version, run'[r].def)

\* A step that changes the record of one run keeps the others.
LEMMA OneRunKept ==
    ASSUME TypeInv, NEW r \in Runs, NEW S, run' = [run EXCEPT ![r] = S],
           \/ /\ run[r].phase # "idle" /\ S.phase # "idle" /\ Kept(run[r], S)
              /\ S.phase \in Live => run[r].phase \in Live
           \/ /\ run[r].phase = "idle" /\ S.phase # "idle"
              /\ Reads(S.proc, S.version, S.def)
    PROVE  RunsKept
<1>1. DOMAIN run = Runs
  BY DEF TypeInv
<1>2. run'[r] = S /\ \A t \in Runs \ {r} : run'[t] = run[t]
  BY <1>1
<1> QED
  BY <1>2 DEF RunsKept

\* No step changes what a run is asked or where it runs.
LEMMA RunsAreKept ==
    ASSUME TypeInv, [Next]_vars
    PROVE  RunsKept
<1>1. \A r \in Runs : IsRun(run[r]) /\ RunShape(run[r])
  BY DEF TypeInv
<1>2. ASSUME UNCHANGED run PROVE RunsKept
  BY <1>2 DEF RunsKept
<1>3. ASSUME NEW p \in Procs, CrashStep(p) PROVE RunsKept
  <2> SUFFICES ASSUME NEW r \in Runs, run'[r] # run[r]
               PROVE  /\ run[r].phase # "idle" /\ run'[r].phase # "idle"
                      /\ Kept(run[r], run'[r])
                      /\ run'[r].phase \in Live => run[r].phase \in Live
    BY DEF RunsKept
  <2>1. run[r].phase \in Live /\ PhaseStep(run[r], run'[r]) /\ run'[r].phase = "crashed"
    BY <1>3 DEF CrashStep, Live
  <2> QED
    BY <2>1 DEF PhaseStep, Live
<1>4. ASSUME NEW r \in Runs, NEW p \in Procs, NEW S, LaunchStep(r, p, S) PROVE RunsKept
  <2>1. /\ run' = [run EXCEPT ![r] = S] /\ run[r].phase = "idle" /\ S.phase # "idle"
        /\ Reads(S.proc, S.version, S.def)
    BY <1>4 DEF LaunchStep
  <2> QED
    BY <2>1, OneRunKept
<1>5. ASSUME NEW r \in Runs, NEW S, LocalStep(r, S) PROVE RunsKept
  <2>1. Kept(run[r], S) /\ RunShape(S)
    BY <1>1, <1>5, LocalShape
  <2>2. run[r].phase \in {"wave", "batch"} /\ S.phase # "idle"
    BY <1>5 DEF LocalStep, WaveStep, ExpireStep, EndStep
  <2>3. run' = [run EXCEPT ![r] = S]
    BY <1>5 DEF LocalStep
  <2> QED
    BY <2>1, <2>2, <2>3, OneRunKept DEF Live
<1>6. ASSUME NEW r \in Runs, NEW S, SaveStep(r, S) PROVE RunsKept
  <2>1. /\ Kept(run[r], S) /\ run[r].phase = "ended" /\ S.phase # "idle"
        /\ run' = [run EXCEPT ![r] = S]
    BY <1>6 DEF SaveStep, PhaseStep
  <2> QED
    BY <2>1, OneRunKept DEF Live
<1>7. ASSUME NEW r \in Runs, NEW n \in Nodes, NEW S, AttemptStep(r, n, S) PROVE RunsKept
  <2>1. Trying(run[r], S) /\ run[r].phase = "batch" /\ run' = [run EXCEPT ![r] = S]
    BY <1>1, <1>7, AttemptShape DEF AttemptStep
  <2>2. Kept(run[r], S) /\ S.phase = "batch"
    BY <2>1 DEF Trying
  <2> QED
    BY <2>1, <2>2, OneRunKept DEF Live
<1>8. CASE UNCHANGED vars
  BY <1>2, <1>8 DEF vars
<1>9. CASE Next
  <2>1. \A p \in Procs, d \in Updates : PutRead(p, d) => UNCHANGED run
    BY DEF PutRead
  <2>2. \A p \in Procs : PutInsert(p) => UNCHANGED run
    BY DEF PutInsert
  <2>3. \A m : Receive(m) => UNCHANGED run
    BY DEF Receive
  <2>4. ToggleProject => UNCHANGED run
    BY DEF ToggleProject
  <2> QED
    BY <1>2, <1>3, <1>4, <1>5, <1>6, <1>7, <1>9, <2>1, <2>2, <2>3, <2>4, StepCases
<1> QED
  BY <1>8, <1>9

\* The locks of a step that does not commit: one writer stays one, and a
\* pending transaction stays pending.
LEMMA LockSteps ==
    ASSUME TypeInv, OneWriter, NEW p \in Procs,
           \/ txn' = AfterRead(p) \/ txn' = AfterBusyWrite(p)
           \/ CanWrite(p) /\ txn' = AfterFailedInsert(p)
    PROVE  OneWriter' /\ \A q \in Procs : txn[q] = "pending" => txn'[q] = "pending"
<1>1. txn \in [Procs -> Locks]
  BY DEF TypeInv, Locks
<1>2. CASE txn' = AfterRead(p)
  BY <1>1, <1>2 DEF AfterRead, OneWriter, Writing
<1>3. CASE txn' = AfterBusyWrite(p)
  BY <1>1, <1>3 DEF AfterBusyWrite, OneWriter, Writing
<1>4. CASE CanWrite(p) /\ txn' = AfterFailedInsert(p)
  BY <1>1, <1>4 DEF AfterFailedInsert, OneWriter, Writing, CanWrite, Others
<1> QED
  BY <1>2, <1>3, <1>4

\* A step that changes neither the versions nor the runs that are stored.
LEMMA StoreQuiet ==
    ASSUME TypeInv, StoreInv, RunsKept, UNCHANGED <<graphs, saved, dirty, dirtyRuns, acked>>,
           OneWriter', \A q \in Procs : txn[q] = "pending" => txn'[q] = "pending", PutKnown'
    PROVE  StoreInv'
<1>1. \A q \in Procs : Visible(q)' = Visible(q)
  BY DEF Visible
<1>2. DirtyPending' /\ AckedStays'
  BY DEF StoreInv, DirtyPending, AckedStays
<1>3. ASSUME NEW r \in Runs, run[r].phase # "idle"
      PROVE  run'[r].phase # "idle" /\ run'[r].version = run[r].version /\ run'[r].def = run[r].def
  BY <1>3 DEF RunsKept, Kept
<1>4. SavedStays'
  BY <1>3 DEF SavedStays, StoreInv, TypeInv
<1>5. DirtyRunsRead'
  <2> SUFFICES ASSUME NEW q \in Procs, NEW r \in dirtyRuns'[q]
               PROVE  /\ run'[r].phase # "idle" /\ run'[r].version \in DOMAIN Visible(q)'
                      /\ Visible(q)'[run'[r].version] = run'[r].def
    BY DEF DirtyRunsRead, Reads
  <2>1. r \in Runs /\ run[r].phase # "idle" /\ Reads(q, run[r].version, run[r].def)
    BY DEF StoreInv, DirtyRunsRead, TypeInv
  <2> QED
    BY <1>1, <1>3, <2>1 DEF Reads
<1>6. LiveRunsRead'
  <2> SUFFICES ASSUME NEW r \in Runs, run'[r].phase \in Live
               PROVE  Reads(run'[r].proc, run'[r].version, run'[r].def)
    BY DEF LiveRunsRead, Reads, Visible
  <2> QED
    BY DEF RunsKept, Kept, StoreInv, LiveRunsRead
<1> QED
  BY <1>2, <1>4, <1>5, <1>6 DEF StoreInv

\* The positions of two lists put behind a third.
LEMMA ConcatTwice ==
    ASSUME NEW T, NEW a \in Seq(T), NEW b \in Seq(T), NEW c \in Seq(T)
    PROVE  a \o (b \o c) = (a \o b) \o c
<1> DEFINE u == a \o (b \o c)
           w == (a \o b) \o c
<1>1. /\ u \in Seq(T) /\ w \in Seq(T) /\ Len(u) = Len(w) /\ Len(u) \in Nat
      /\ DOMAIN u = 1 .. Len(u) /\ DOMAIN w = 1 .. Len(u)
  OBVIOUS
<1>2. \A i \in 1 .. Len(u) : u[i] = w[i]
  <2> TAKE i \in 1 .. Len(u)
  <2>1. /\ Len(a) \in Nat /\ Len(b) \in Nat /\ Len(c) \in Nat
        /\ Len(u) = Len(a) + Len(b) + Len(c) /\ i \in Nat /\ i >= 1
    OBVIOUS
  <2>2. CASE i <= Len(a)
    BY <2>1, <2>2
  <2>3. CASE i > Len(a) /\ i <= Len(a) + Len(b)
    <3>1. u[i] = (b \o c)[i - Len(a)] /\ w[i] = (a \o b)[i]
      BY <2>1, <2>3
    <3>2. i - Len(a) \in 1 .. Len(b)
      BY <2>1, <2>3
    <3> QED
      BY <2>1, <2>3, <3>1, <3>2
  <2>4. CASE i > Len(a) + Len(b)
    <3>1. u[i] = (b \o c)[i - Len(a)] /\ w[i] = c[i - (Len(a) + Len(b))]
      BY <2>1, <2>4
    <3>2. (b \o c)[i - Len(a)] = c[(i - Len(a)) - Len(b)]
      BY <2>1, <2>4
    <3>3. (i - Len(a)) - Len(b) = i - (Len(a) + Len(b))
      BY <2>1
    <3> QED
      BY <3>1, <3>2, <3>3
  <2> QED
    BY <2>1, <2>2, <2>3, <2>4
<1> HIDE DEF u, w
<1>3. u = [i \in DOMAIN u |-> u[i]] /\ w = [i \in DOMAIN w |-> w[i]]
  <2>1. u \in [1 .. Len(u) -> T] /\ w \in [1 .. Len(w) -> T]
    BY <1>1
  <2> QED
    BY <2>1
<1> QED
  BY <1>1, <1>2, <1>3

\* What a commit leaves of what a connection reads: all of it.
LEMMA CommitReads ==
    ASSUME TypeInv, StoreInv, NEW p \in Procs, NEW vs \in Seq(Updates \cap Accepted),
           NEW rs \in SUBSET Runs, CanWrite(p), Commit(p, vs, rs)
    PROVE  /\ OneWriter' /\ DirtyPending'
           /\ \A v \in DOMAIN graphs : v \in DOMAIN graphs' /\ graphs'[v] = graphs[v]
           /\ \A q \in Procs : \A v \in DOMAIN Visible(q) :
                v \in DOMAIN Visible(q)' /\ Visible(q)'[v] = Visible(q)[v]
           /\ Visible(p)' = Visible(p) \o vs
           /\ \A q \in Procs : Len(Visible(q)) <= Len(Visible(q)')
           /\ CanCommit(p) => graphs' = Visible(p)' /\ saved' = saved \cup dirtyRuns[p] \cup rs
           /\ ~ CanCommit(p) => graphs' = graphs /\ saved' = saved
           /\ \A q \in Procs : dirtyRuns'[q] \subseteq
                IF q = p THEN dirtyRuns[p] \cup rs ELSE dirtyRuns[q]
<1>1. /\ txn \in [Procs -> Locks] /\ dirty \in [Procs -> Seq(Updates \cap Accepted)]
      /\ dirtyRuns \in [Procs -> SUBSET Runs] /\ graphs \in Seq(Accepted)
  BY DEF TypeInv, Locks
<1>2. \A q \in Procs \ {p} : ~ Writing(q) /\ dirty[q] = << >> /\ dirtyRuns[q] = {}
  BY DEF CanWrite, Others, Writing, StoreInv, DirtyPending
<1>3. /\ Visible(p) \in Seq(Accepted) /\ vs \in Seq(Accepted)
      /\ \A q \in Procs \ {p} : Visible(q) = graphs
      /\ \A v \in DOMAIN graphs : v \in DOMAIN Visible(p) /\ Visible(p)[v] = graphs[v]
      /\ Len(graphs) <= Len(Visible(p)) /\ Len(graphs) \in Nat /\ Len(Visible(p)) \in Nat
  BY <1>2, VisibleFacts
<1>4. /\ Visible(p) \o vs \in Seq(Accepted)
      /\ Len(Visible(p)) <= Len(Visible(p) \o vs) /\ Len(Visible(p) \o vs) \in Nat
      /\ \A v \in DOMAIN Visible(p) :
           v \in DOMAIN (Visible(p) \o vs) /\ (Visible(p) \o vs)[v] = Visible(p)[v]
  BY <1>3
<1>5. CASE CanCommit(p)
  <2>1. /\ graphs' = Visible(p) \o vs
        /\ saved' = saved \cup dirtyRuns[p] \cup rs
        /\ dirty' = [dirty EXCEPT ![p] = << >>]
        /\ dirtyRuns' = [dirtyRuns EXCEPT ![p] = {}]
        /\ txn' = [txn EXCEPT ![p] = "none"]
    BY <1>5 DEF Commit
  <2>2. /\ dirty'[p] = << >> /\ dirtyRuns'[p] = {} /\ txn'[p] = "none"
        /\ \A q \in Procs \ {p} : dirty'[q] = << >> /\ dirtyRuns'[q] = {} /\ txn'[q] = txn[q]
    BY <1>1, <1>2, <2>1
  <2>3. \A q \in Procs : Visible(q)' = graphs'
    <3>1. \A q \in Procs : Visible(q)' = graphs' \o << >>
      BY <2>2 DEF Visible
    <3>2. graphs' \o << >> = graphs'
      BY <1>4, <2>1
    <3> QED
      BY <3>1, <3>2
  <2>4. OneWriter' /\ DirtyPending'
    BY <1>2, <2>2 DEF OneWriter, DirtyPending, Writing
  <2>5. \A v \in DOMAIN graphs : v \in DOMAIN graphs' /\ graphs'[v] = graphs[v]
    BY <1>3, <1>4, <2>1
  <2>6. \A q \in Procs : Len(Visible(q)) <= Len(Visible(q)')
    <3> TAKE q \in Procs
    <3>1. CASE q = p
      BY <1>4, <2>1, <2>3, <3>1
    <3>2. CASE q # p
      BY <1>3, <1>4, <2>1, <2>3, <3>2
    <3> QED
      BY <3>1, <3>2
  <2>7. \A q \in Procs : \A v \in DOMAIN Visible(q) :
                v \in DOMAIN Visible(q)' /\ Visible(q)'[v] = Visible(q)[v]
    <3> TAKE q \in Procs
    <3>1. CASE q = p
      BY <1>4, <2>1, <2>3, <3>1
    <3>2. CASE q # p
      BY <1>3, <2>3, <2>5, <3>2
    <3> QED
      BY <3>1, <3>2
  <2> QED
    BY <1>5, <2>1, <2>2, <2>3, <2>4, <2>5, <2>6, <2>7
<1>6. CASE ~ CanCommit(p)
  <2>1. /\ dirty' = [dirty EXCEPT ![p] = dirty[p] \o vs]
        /\ dirtyRuns' = [dirtyRuns EXCEPT ![p] = dirtyRuns[p] \cup rs]
        /\ txn' = [txn EXCEPT ![p] = "pending"]
        /\ UNCHANGED <<graphs, saved>>
    BY <1>6 DEF Commit
  <2>2. /\ dirty'[p] = dirty[p] \o vs /\ dirtyRuns'[p] = dirtyRuns[p] \cup rs
        /\ txn'[p] = "pending"
        /\ \A q \in Procs \ {p} : /\ dirty'[q] = dirty[q] /\ dirtyRuns'[q] = dirtyRuns[q]
                                  /\ txn'[q] = txn[q]
    BY <1>1, <2>1
  <2>3. Visible(p)' = Visible(p) \o vs /\ \A q \in Procs \ {p} : Visible(q)' = Visible(q)
    <3>1. Visible(p)' = graphs \o (dirty[p] \o vs)
      BY <2>1, <2>2 DEF Visible
    <3>2. graphs \o (dirty[p] \o vs) = (graphs \o dirty[p]) \o vs
      <4>1. dirty[p] \in Seq(Accepted)
        BY <1>1
      <4> QED
        BY <1>1, <1>3, <4>1, ConcatTwice
    <3> QED
      BY <2>1, <2>2, <3>1, <3>2 DEF Visible
  <2>4. OneWriter' /\ DirtyPending'
    BY <1>2, <2>2 DEF OneWriter, DirtyPending, Writing
  <2>5. \A q \in Procs : Len(Visible(q)) <= Len(Visible(q)')
    <3> TAKE q \in Procs
    <3>1. CASE q = p
      BY <1>4, <2>3, <3>1
    <3>2. CASE q # p
      BY <1>3, <2>3, <3>2
    <3> QED
      BY <3>1, <3>2
  <2>6. \A q \in Procs : \A v \in DOMAIN Visible(q) :
                v \in DOMAIN Visible(q)' /\ Visible(q)'[v] = Visible(q)[v]
    BY <1>4, <2>3
  <2> QED
    BY <1>6, <2>1, <2>2, <2>3, <2>4, <2>5, <2>6
<1> QED
  BY <1>5, <1>6

\* The first version is stored, and no run.
LEMMA StoreInit == Init => StoreInv
<1> SUFFICES ASSUME Init PROVE StoreInv
  OBVIOUS
<1>1. /\ \A p \in Procs : txn[p] = "none" /\ dirty[p] = << >> /\ dirtyRuns[p] = {}
                           /\ putting[p] = None
      /\ saved = {} /\ acked = {<<1, graphs[1]>>} /\ \A r \in Runs : run[r].phase = "idle"
  BY NoRunType DEF Init
<1>2. 1 \in DOMAIN graphs
  BY DEF Init
<1>3. AckedStays
  BY <1>1, <1>2 DEF AckedStays
<1>4. OneWriter /\ DirtyPending /\ PutKnown /\ SavedStays /\ DirtyRunsRead /\ LiveRunsRead
  BY <1>1 DEF OneWriter, Writing, DirtyPending, PutKnown, SavedStays, DirtyRunsRead,
              LiveRunsRead, Live
<1> QED
  BY <1>3, <1>4 DEF StoreInv

\* A commit of versions vs and the records rs of runs of the process, which
\* read what they ran.
LEMMA StoreCommit ==
    ASSUME TypeInv, TypeInv', StoreInv, RunsKept, NEW p \in Procs,
           NEW vs \in Seq(Updates \cap Accepted), NEW rs \in SUBSET Runs,
           CanWrite(p), Commit(p, vs, rs),
           \A r \in rs : run[r].phase # "idle" /\ Reads(p, run[r].version, run[r].def),
           AckedStays', \A q \in Procs : putting'[q] \in {putting[q], None}
    PROVE  StoreInv'
<1>1. /\ OneWriter' /\ DirtyPending'
      /\ \A v \in DOMAIN graphs : v \in DOMAIN graphs' /\ graphs'[v] = graphs[v]
      /\ \A q \in Procs : \A v \in DOMAIN Visible(q) :
           v \in DOMAIN Visible(q)' /\ Visible(q)'[v] = Visible(q)[v]
      /\ \A q \in Procs : Len(Visible(q)) <= Len(Visible(q)')
      /\ CanCommit(p) => graphs' = Visible(p)' /\ saved' = saved \cup dirtyRuns[p] \cup rs
      /\ ~ CanCommit(p) => graphs' = graphs /\ saved' = saved
      /\ \A q \in Procs : dirtyRuns'[q] \subseteq
           IF q = p THEN dirtyRuns[p] \cup rs ELSE dirtyRuns[q]
  BY CommitReads
<1>2. saved \subseteq Runs /\ \A q \in Procs : dirtyRuns[q] \subseteq Runs
  BY DEF TypeInv
<1>3. ASSUME NEW r \in Runs, run[r].phase # "idle"
      PROVE  run'[r].phase # "idle" /\ run'[r].version = run[r].version /\ run'[r].def = run[r].def
  BY <1>3 DEF RunsKept, Kept
<1>4. ASSUME NEW r \in dirtyRuns[p] \cup rs
      PROVE  r \in Runs /\ run[r].phase # "idle" /\ Reads(p, run[r].version, run[r].def)
  BY <1>2, <1>4 DEF StoreInv, DirtyRunsRead
<1>5. PutKnown'
  <2> SUFFICES ASSUME NEW q \in Procs, putting'[q] # None
               PROVE  putting'[q].max <= Len(Visible(q)')
    BY DEF PutKnown
  <2>1. putting'[q] = putting[q] /\ putting[q] \in [def : Updates \cap Accepted, max : Nat]
        /\ putting[q].max <= Len(Visible(q))
    BY DEF StoreInv, PutKnown, TypeInv
  <2>2. Len(Visible(q)) \in Nat
    BY VisibleFacts
  <2>3. Len(Visible(q)') \in Nat /\ Len(Visible(q)) <= Len(Visible(q)')
    <3>1. graphs' \in Seq(Accepted) /\ dirty'[q] \in Seq(Accepted)
      BY DEF TypeInv
    <3> QED
      BY <1>1, <3>1 DEF Visible
  <2> QED
    BY <2>1, <2>2, <2>3
<1>6. SavedStays'
  <2> SUFFICES ASSUME NEW r \in saved'
               PROVE  /\ run'[r].phase # "idle" /\ run'[r].version \in DOMAIN graphs'
                      /\ graphs'[run'[r].version] = run'[r].def
    BY DEF SavedStays
  <2>1. CASE r \in saved
    BY <1>1, <1>2, <1>3, <2>1 DEF StoreInv, SavedStays
  <2>2. CASE r \notin saved
    <3>1. CanCommit(p) /\ r \in dirtyRuns[p] \cup rs /\ graphs' = Visible(p)'
      BY <1>1, <2>2
    <3>2. r \in Runs /\ run[r].phase # "idle" /\ Reads(p, run[r].version, run[r].def)
      BY <1>4, <3>1
    <3> QED
      BY <1>1, <1>3, <3>1, <3>2 DEF Reads
  <2> QED
    BY <2>1, <2>2
<1>7. DirtyRunsRead'
  <2> SUFFICES ASSUME NEW q \in Procs, NEW r \in dirtyRuns'[q]
               PROVE  /\ run'[r].phase # "idle" /\ run'[r].version \in DOMAIN Visible(q)'
                      /\ Visible(q)'[run'[r].version] = run'[r].def
    BY DEF DirtyRunsRead, Reads
  <2>1. r \in Runs /\ run[r].phase # "idle" /\ Reads(q, run[r].version, run[r].def)
    BY <1>1, <1>2, <1>4 DEF StoreInv, DirtyRunsRead
  <2> QED
    BY <1>1, <1>3, <2>1 DEF Reads
<1>8. LiveRunsRead'
  <2> SUFFICES ASSUME NEW r \in Runs, run'[r].phase \in Live,
                      NEW q, q = run'[r].proc
               PROVE  /\ run'[r].version \in DOMAIN (graphs' \o dirty'[q])
                      /\ (graphs' \o dirty'[q])[run'[r].version] = run'[r].def
    BY DEF LiveRunsRead, Reads, Visible
  <2>1. q \in Procs
    BY DEF TypeInv, RunShape, Live
  <2>2. Reads(q, run'[r].version, run'[r].def)
    BY DEF RunsKept, Kept, StoreInv, LiveRunsRead
  <2>3. Visible(q)' = graphs' \o dirty'[q]
    BY DEF Visible
  <2>4. \A v \in DOMAIN Visible(q) :
           v \in DOMAIN Visible(q)' /\ Visible(q)'[v] = Visible(q)[v]
    BY <1>1, <2>1
  <2> QED
    BY <2>2, <2>3, <2>4 DEF Reads
<1> QED
  BY <1>1, <1>5, <1>6, <1>7, <1>8 DEF StoreInv

\* The process forgets what it did not commit, and the runs it was in.
LEMMA StoreCrash ==
    ASSUME TypeInv, StoreInv, NEW p \in Procs, CrashStep(p)
    PROVE  StoreInv'
<1>1. /\ txn' = [txn EXCEPT ![p] = "none"]
      /\ dirty' = [dirty EXCEPT ![p] = << >>]
      /\ dirtyRuns' = [dirtyRuns EXCEPT ![p] = {}]
      /\ putting' = [putting EXCEPT ![p] = None]
      /\ UNCHANGED <<graphs, saved, acked>>
  BY DEF CrashStep
<1>2. /\ txn'[p] = "none" /\ dirty'[p] = << >> /\ dirtyRuns'[p] = {} /\ putting'[p] = None
      /\ \A q \in Procs \ {p} : /\ txn'[q] = txn[q] /\ dirty'[q] = dirty[q]
                                /\ dirtyRuns'[q] = dirtyRuns[q] /\ putting'[q] = putting[q]
      /\ \A q \in Procs : dirtyRuns[q] \subseteq Runs
      /\ saved \subseteq Runs
  BY <1>1 DEF TypeInv
<1>3. \A q \in Procs \ {p} : Visible(q)' = Visible(q)
  BY <1>1, <1>2 DEF Visible
<1>4. ASSUME NEW r \in Runs, run[r].phase # "idle"
      PROVE  /\ run'[r].phase # "idle" /\ run'[r].version = run[r].version
             /\ run'[r].def = run[r].def
  BY <1>4 DEF CrashStep, PhaseStep, Kept
<1>5. OneWriter' /\ DirtyPending' /\ AckedStays'
  BY <1>1, <1>2 DEF StoreInv, OneWriter, Writing, DirtyPending, AckedStays
<1>6. PutKnown'
  BY <1>2, <1>3 DEF StoreInv, PutKnown
<1>7. SavedStays'
  BY <1>1, <1>2, <1>4 DEF StoreInv, SavedStays
<1>8. DirtyRunsRead'
  <2> SUFFICES ASSUME NEW q \in Procs, NEW r \in dirtyRuns'[q]
               PROVE  /\ run'[r].phase # "idle" /\ run'[r].version \in DOMAIN Visible(q)'
                      /\ Visible(q)'[run'[r].version] = run'[r].def
    BY DEF DirtyRunsRead, Reads
  <2>1. q # p /\ r \in dirtyRuns[q] /\ r \in Runs
    BY <1>2
  <2>2. run[r].phase # "idle" /\ Reads(q, run[r].version, run[r].def)
    BY <2>1 DEF StoreInv, DirtyRunsRead
  <2> QED
    BY <1>3, <1>4, <2>1, <2>2 DEF Reads
<1>9. LiveRunsRead'
  <2> SUFFICES ASSUME NEW r \in Runs, run'[r].phase \in Live,
                      NEW q, q = run'[r].proc
               PROVE  /\ run'[r].version \in DOMAIN (graphs' \o dirty'[q])
                      /\ (graphs' \o dirty'[q])[run'[r].version] = run'[r].def
    BY DEF LiveRunsRead, Reads, Visible
  <2>1. run'[r] = run[r] /\ run[r].phase \in Live /\ q # p
    BY DEF CrashStep, Live
  <2>2. q \in Procs
    BY <2>1 DEF TypeInv, RunShape, Live
  <2>3. Reads(q, run[r].version, run[r].def)
    BY <2>1 DEF StoreInv, LiveRunsRead
  <2>4. Visible(q)' = graphs' \o dirty'[q]
    BY DEF Visible
  <2> QED
    BY <1>3, <2>1, <2>2, <2>3, <2>4 DEF Reads
<1> QED
  BY <1>5, <1>6, <1>7, <1>8, <1>9 DEF StoreInv

\* Every step keeps the stored versions and what depends on them.
LEMMA StoreNext == TypeInv /\ StoreInv /\ TypeInv' /\ [Next]_vars => StoreInv'
<1> SUFFICES ASSUME TypeInv, StoreInv, TypeInv', [Next]_vars PROVE StoreInv'
  OBVIOUS
<1>1. RunsKept
  BY RunsAreKept
<1>2. OneWriter /\ PutKnown /\ AckedStays
  BY DEF StoreInv
\* Steps that commit nothing.
<1>3. ASSUME UNCHANGED <<graphs, saved, dirty, dirtyRuns, acked>>,
             \/ UNCHANGED txn
             \/ \E p \in Procs : \/ txn' = AfterRead(p) \/ txn' = AfterBusyWrite(p)
                                 \/ CanWrite(p) /\ txn' = AfterFailedInsert(p),
             PutKnown'
      PROVE  StoreInv'
  <2>1. OneWriter' /\ \A q \in Procs : txn[q] = "pending" => txn'[q] = "pending"
    <3>1. CASE UNCHANGED txn
      BY <1>2, <3>1 DEF OneWriter, Writing
    <3>2. CASE ~ UNCHANGED txn
      BY <1>2, <1>3, <3>2, LockSteps
    <3> QED
      BY <3>1, <3>2
  <2> QED
    BY <1>1, <1>3, <2>1, StoreQuiet
<1>4. ASSUME UNCHANGED <<graphs, dirty>>, \A q \in Procs : putting'[q] \in {putting[q], None}
      PROVE  PutKnown'
  BY <1>2, <1>4 DEF PutKnown, Visible
<1>5. ASSUME UNCHANGED store PROVE StoreInv'
  BY <1>3, <1>4, <1>5 DEF store
<1>6. ASSUME NEW p \in Procs, NEW d \in Updates, PutRead(p, d) PROVE StoreInv'
  <2>1. /\ txn' = AfterRead(p)
        /\ putting' = [putting EXCEPT ![p] = [def |-> d, max |-> Len(Visible(p))]]
        /\ UNCHANGED <<graphs, saved, dirty, dirtyRuns, acked>>
    BY <1>6 DEF PutRead
  <2>2. \A q \in Procs : Visible(q)' = Visible(q) /\ Len(Visible(q)) \in Nat
    BY <2>1, VisibleFacts DEF Visible
  <2>3. PutKnown'
    <3> SUFFICES ASSUME NEW q \in Procs, putting'[q] # None
                 PROVE  putting'[q].max <= Len(Visible(q)')
      BY DEF PutKnown
    <3>1. CASE q = p
      <4>1. putting'[q].max = Len(Visible(q))
        BY <2>1, <3>1 DEF TypeInv
      <4> QED
        BY <2>2, <4>1
    <3>2. CASE q # p
      <4>1. putting'[q] = putting[q]
        BY <2>1, <3>2 DEF TypeInv
      <4> QED
        BY <1>2, <2>2, <4>1 DEF PutKnown
    <3> QED
      BY <3>1, <3>2
  <2> QED
    BY <1>3, <2>1, <2>3
<1>7. ASSUME NEW p \in Procs, PutInsert(p) PROVE StoreInv'
  <2>1. putting[p] # None /\ putting' = [putting EXCEPT ![p] = None]
    BY <1>7 DEF PutInsert
  <2>2. \A q \in Procs : putting'[q] \in {putting[q], None}
    BY <2>1 DEF TypeInv
  <2> PICK put : put = putting[p]
    OBVIOUS
  <2>3. /\ put.max \in Nat /\ put.def \in Updates \cap Accepted /\ put.max <= Len(Visible(p))
        /\ Len(Visible(p)) \in Nat
    BY <1>2, <2>1, VisibleFacts DEF TypeInv, PutKnown
  <2>4. CASE /\ CanWrite(p) /\ put.max + 1 > Len(Visible(p))
             /\ Commit(p, <<put.def>>, {})
             /\ acked' = IF CanCommit(p) THEN acked \cup {<<put.max + 1, put.def>>} ELSE acked
    <3> PICK vs : vs = <<put.def>>
      OBVIOUS
    <3>1. vs \in Seq(Updates \cap Accepted) /\ Len(vs) = 1 /\ vs[1] = put.def
      BY <2>3
    <3>2. Commit(p, vs, {}) /\ put.max + 1 = Len(Visible(p)) + 1
      BY <2>3, <2>4
    <3>3. /\ \A v \in DOMAIN graphs : v \in DOMAIN graphs' /\ graphs'[v] = graphs[v]
          /\ Visible(p)' = Visible(p) \o vs
          /\ CanCommit(p) => graphs' = Visible(p)'
      BY <2>4, <3>1, <3>2, CommitReads
    <3>4. AckedStays'
      <4> SUFFICES ASSUME NEW a \in acked' PROVE a[1] \in DOMAIN graphs' /\ graphs'[a[1]] = a[2]
        BY DEF AckedStays
      <4>1. CASE a \in acked
        BY <1>2, <3>3, <4>1 DEF AckedStays
      <4>2. CASE a \notin acked
        <5>1. CanCommit(p) /\ a = <<put.max + 1, put.def>>
          BY <2>4, <4>2
        <5>2. graphs' = Visible(p) \o vs
          BY <3>3, <5>1
        <5>3. Visible(p) \in Seq(Accepted) /\ vs \in Seq(Accepted)
          BY <3>1, VisibleFacts
        <5>4. /\ Len(Visible(p)) + 1 \in DOMAIN (Visible(p) \o vs)
              /\ (Visible(p) \o vs)[Len(Visible(p)) + 1] = vs[1]
          BY <3>1, <5>3
        <5> QED
          BY <3>1, <3>2, <5>1, <5>2, <5>4
      <4> QED
        BY <4>1, <4>2
    <3>5. \A r \in {} : run[r].phase # "idle" /\ Reads(p, run[r].version, run[r].def)
      OBVIOUS
    <3>6. {} \in SUBSET Runs
      OBVIOUS
    <3> QED
      BY <1>1, <2>2, <2>4, <3>1, <3>2, <3>4, <3>5, <3>6, StoreCommit
  <2>5. CASE /\ \/ CanWrite(p) /\ txn' = AfterFailedInsert(p)
                \/ txn' = AfterBusyWrite(p)
             /\ UNCHANGED <<graphs, saved, dirty, dirtyRuns, acked>>
    BY <1>3, <1>4, <2>2, <2>5
  <2> QED
    BY <1>7, <2>4, <2>5 DEF PutInsert
<1>8. ASSUME NEW p \in Procs, CrashStep(p) PROVE StoreInv'
  BY <1>8, StoreCrash
<1>9. ASSUME NEW r \in Runs, NEW p \in Procs, NEW S, LaunchStep(r, p, S) PROVE StoreInv'
  <2>1. txn' = AfterRead(p) /\ UNCHANGED <<graphs, saved, dirty, dirtyRuns, putting, acked>>
    BY <1>9 DEF LaunchStep
  <2> QED
    BY <1>3, <1>4, <2>1
<1>10. ASSUME NEW r \in Runs, NEW S, SaveStep(r, S) PROVE StoreInv'
  <2> PICK p : p = run[r].proc
    OBVIOUS
  <2>1. p \in Procs /\ run[r].phase = "ended" /\ Reads(p, run[r].version, run[r].def)
    BY <1>10, SaveShape DEF TypeInv, SaveStep, StoreInv, LiveRunsRead, Live
  <2>2. \A q \in Procs : putting'[q] \in {putting[q], None}
    BY <1>10 DEF SaveStep
  <2>3. CASE CanWrite(p) /\ Commit(p, << >>, {r})
    <3>1. << >> \in Seq(Updates \cap Accepted) /\ {r} \in SUBSET Runs
      OBVIOUS
    <3>2. \A v \in DOMAIN graphs : v \in DOMAIN graphs' /\ graphs'[v] = graphs[v]
      BY <2>1, <2>3, <3>1, CommitReads
    <3>3. AckedStays'
      BY <1>2, <1>10, <3>2 DEF AckedStays, SaveStep
    <3> QED
      BY <1>1, <2>1, <2>2, <2>3, <3>1, <3>3, StoreCommit
  <2>4. CASE /\ txn' = AfterBusyWrite(p)
             /\ UNCHANGED <<graphs, saved, dirty, dirtyRuns>>
    BY <1>3, <1>4, <1>10, <2>1, <2>2, <2>4 DEF SaveStep
  <2> QED
    BY <1>10, <2>3, <2>4 DEF SaveStep
<1>11. CASE UNCHANGED vars
  BY <1>5, <1>11 DEF vars
<1>12. CASE Next
  <2>1. \A r \in Runs : \A S : LocalStep(r, S) => UNCHANGED store
    BY DEF LocalStep
  <2>2. \A r \in Runs, n \in Nodes : \A S : AttemptStep(r, n, S) => UNCHANGED store
    BY DEF AttemptStep, store
  <2>3. \A m : Receive(m) => UNCHANGED store
    BY DEF Receive
  <2>4. ToggleProject => UNCHANGED store
    BY DEF ToggleProject
  <2> QED
    BY <1>5, <1>6, <1>7, <1>8, <1>9, <1>10, <1>12, <2>1, <2>2, <2>3, <2>4, StepCases
<1> QED
  BY <1>11, <1>12

\* What a client was told of a version stays true, and a run's record names the
\* version it ran.
THEOREM StoredVersionsStay == Spec => []VersionsStable
<1>1. Init => TypeInv /\ StoreInv
  BY TypeInit, StoreInit
<1>2. TypeInv /\ StoreInv /\ [Next]_vars => (TypeInv /\ StoreInv)'
  BY TypeNext, StoreNext
<1>3. TypeInv /\ StoreInv => VersionsStable
  <2> SUFFICES ASSUME TypeInv, StoreInv PROVE VersionsStable
    OBVIOUS
  <2>1. DOMAIN graphs = 1 .. Len(graphs) /\ Len(graphs) \in Nat
    BY SeqFacts DEF TypeInv
  <2> QED
    BY <2>1 DEF VersionsStable, StoreInv, AckedStays, SavedStays
<1> QED
  BY <1>1, <1>2, <1>3, PTL DEF Spec

-----------------------------------------------------------------------------
(* The records of runs, one at a time *)

Started(S) == /\ S.phase = "wave" /\ S.trace = << >> /\ S.out = << >> /\ NoBatch(S)
              /\ ~ S.failed /\ ~ S.review /\ S.ids = {} /\ S.def \in Accepted

Quiet(R, S) ==
    \/ R.phase = "idle" /\ Started(S)
    \/ R.phase = "wave" /\ WaveStep(R, S)
    \/ R.phase = "wave" /\ ExpireStep(R, S)
    \/ R.phase = "wave" /\ S.phase = "ended" /\ PhaseStep(R, S)
    \/ R.phase = "ended" /\ S.phase \in {"answered", "lost"} /\ PhaseStep(R, S)
    \/ R.phase \in Live /\ S.phase = "crashed" /\ PhaseStep(R, S)
    \/ R.phase = "batch" /\ DOMAIN R.got = R.batch /\ EndStep(R, S)

\* Every step of a run, an attempt of a node included.
Moves(R, S) == \/ Quiet(R, S)
               \/ R.phase = "batch" /\ Trying(R, S)

Attempted == \E r \in Runs, n \in Nodes : \E S : AttemptStep(r, n, S)

\* The assignment of one record.
LEMMA OneRun ==
    ASSUME TypeInv, NEW r \in Runs, NEW S, run' = [run EXCEPT ![r] = S]
    PROVE  run'[r] = S /\ \A t \in Runs \ {r} : run'[t] = run[t]
BY DEF TypeInv

\* A step that is not an attempt moves each run in one of these ways.
LEMMA QuietMove ==
    ASSUME TypeInv, [Next]_vars, ~ Attempted, NEW t \in Runs
    PROVE  run'[t] = run[t] \/ Quiet(run[t], run'[t])
<1>1. \A r \in Runs : IsRun(run[r]) /\ RunShape(run[r])
  BY DEF TypeInv
<1>2. ASSUME NEW r \in Runs, NEW S, run' = [run EXCEPT ![r] = S], Quiet(run[r], S)
      PROVE  run'[t] = run[t] \/ Quiet(run[t], run'[t])
  BY <1>2, OneRun
<1>3. ASSUME NEW p \in Procs, CrashStep(p)
      PROVE  run'[t] = run[t] \/ Quiet(run[t], run'[t])
  BY <1>3 DEF CrashStep, Quiet, Live
<1>4. ASSUME NEW r \in Runs, NEW p \in Procs, NEW S, LaunchStep(r, p, S)
      PROVE  run' = [run EXCEPT ![r] = S] /\ Quiet(run[r], S)
  <2>1. S.def \in Accepted
    BY <1>4, LaunchShape DEF LaunchStep, RunShape
  <2> QED
    BY <1>4, <2>1 DEF LaunchStep, Quiet, Started
<1>5. ASSUME NEW r \in Runs, NEW S, LocalStep(r, S)
      PROVE  run' = [run EXCEPT ![r] = S] /\ Quiet(run[r], S)
  BY <1>5 DEF LocalStep, Quiet
<1>6. ASSUME NEW r \in Runs, NEW S, SaveStep(r, S)
      PROVE  run' = [run EXCEPT ![r] = S] /\ Quiet(run[r], S)
  BY <1>6 DEF SaveStep, Quiet
<1>7. \A r \in Runs, n \in Nodes : \A S : ~ AttemptStep(r, n, S)
  BY DEF Attempted
<1>8. CASE UNCHANGED run
  BY <1>8
<1>9. CASE Next
  <2>1. \A p \in Procs, d \in Updates : PutRead(p, d) => UNCHANGED run
    BY DEF PutRead
  <2>2. \A p \in Procs : PutInsert(p) => UNCHANGED run
    BY DEF PutInsert
  <2>3. \A m : Receive(m) => UNCHANGED run
    BY DEF Receive
  <2>4. ToggleProject => UNCHANGED run
    BY DEF ToggleProject
  <2> QED
    BY <1>2, <1>3, <1>4, <1>5, <1>6, <1>7, <1>8, <1>9, <2>1, <2>2, <2>3, <2>4, StepCases
<1> QED
  BY <1>8, <1>9 DEF vars

\* Every step moves each run in one of these ways.
LEMMA RunsMove ==
    ASSUME TypeInv, [Next]_vars, NEW t \in Runs
    PROVE  run'[t] = run[t] \/ Moves(run[t], run'[t])
<1>1. CASE Attempted
  <2> PICK r \in Runs, n \in Nodes : \E S : AttemptStep(r, n, S)
    BY <1>1 DEF Attempted
  <2> PICK S : AttemptStep(r, n, S)
    OBVIOUS
  <2>1. IsRun(run[r]) /\ RunShape(run[r]) /\ run' = [run EXCEPT ![r] = S]
    BY DEF TypeInv, AttemptStep
  <2>2. run[r].phase = "batch" /\ Trying(run[r], S)
    BY <2>1, AttemptShape DEF AttemptStep
  <2> QED
    BY <2>1, <2>2, OneRun DEF Moves
<1>2. CASE ~ Attempted
  <2> PICK S : S = run'[t]
    OBVIOUS
  <2>1. S = run[t] \/ Quiet(run[t], S)
    BY <1>2, QuietMove
  <2>2. S = run[t] \/ Moves(run[t], S)
    BY <2>1 DEF Moves
  <2> QED
    BY <2>2
<1> QED
  BY <1>1, <1>2

-----------------------------------------------------------------------------
(* Verdicts *)

\* A wave keeps the verdict: skipped nodes fail nothing.
LEMMA VerdictWave ==
    ASSUME NEW R, NEW S, IsRun(R), RunShape(R), Verdict(R), R.phase = "wave", WaveStep(R, S)
    PROVE  Verdict(S)
<1>1. ~ R.failed /\ ~ FailedHard(R) /\ S.def = R.def /\ S.failed = R.failed
      /\ S.review = R.review /\ S.ids = R.ids
  BY DEF Verdict, WaveStep, Kept
<1>2. /\ \A n \in DOMAIN S.trace :
           \/ S.trace[n] = "skipped"
           \/ n \in DOMAIN R.trace /\ S.trace[n] = R.trace[n]
      /\ \A n \in DOMAIN R.trace : n \in DOMAIN S.trace /\ S.trace[n] = R.trace[n]
  BY DEF WaveStep
<1>3. Failures(S) = Failures(R) /\ ~ FailedHard(S)
  BY <1>1, <1>2 DEF Failures, FailedHard
<1> QED
  BY <1>1, <1>3 DEF Verdict

\* The deadline fails the run, and a node shows it.
LEMMA VerdictExpire ==
    ASSUME NEW R, NEW S, IsRun(R), RunShape(R), Verdict(R), R.phase = "wave", ExpireStep(R, S)
    PROVE  Verdict(S)
<1>1. /\ S.def = R.def /\ S.failed /\ S.phase = "ended"
      /\ S.review = R.review /\ S.ids = R.ids
      /\ DOMAIN R.trace \subseteq Ids(R.def) /\ DOMAIN R.trace # Ids(R.def)
      /\ DOMAIN S.trace = Ids(R.def)
      /\ \A n \in DOMAIN R.trace : S.trace[n] = R.trace[n]
      /\ \A n \in Ids(R.def) \ DOMAIN R.trace : S.trace[n] = "expired"
  BY DEF ExpireStep, Kept, RunShape
<1>2. FailedHard(S)
  BY <1>1 DEF FailedHard
<1>3. Failures(S) = Failures(R)
  BY <1>1 DEF Failures
<1> QED
  BY <1>1, <1>2, <1>3 DEF Verdict

\* A batch fails the run exactly when a node of it that must not fail did.
LEMMA VerdictEnd ==
    ASSUME NEW R, NEW S, IsRun(R), RunShape(R), Verdict(R), R.phase = "batch",
           DOMAIN R.got = R.batch, EndStep(R, S)
    PROVE  Verdict(S)
<1> DEFINE bad == {n \in R.batch : R.got[n] = "failed"}
           good == R.batch \ bad
           queued == {n \in good : R.def.kind[n] = "review"}
<1>1. /\ S.def = R.def
      /\ S.failed <=> \E n \in bad : R.def.onError[n] = "fail"
      /\ DOMAIN S.trace = IF S.failed THEN Ids(R.def) ELSE DOMAIN R.trace \cup R.batch
      /\ \A n \in DOMAIN R.trace : S.trace[n] = R.trace[n]
      /\ \A n \in good : S.trace[n] = "completed"
      /\ \A n \in bad : S.trace[n] = "failed"
      /\ \A n \in DOMAIN S.trace \ (DOMAIN R.trace \cup R.batch) : S.trace[n] = "aborted"
      /\ S.ids = R.ids \cup {<<n, R.att[n]>> : n \in queued}
      /\ S.review <=> \/ R.review \/ queued # {}
                      \/ \E n \in good : R.got[n] = "unsure"
                      \/ \E n \in bad : R.def.onError[n] = "review"
      /\ S.failed => S.phase = "ended"
      /\ ~ S.failed => S.phase \in {"wave", "batch"}
  BY DEF EndStep, Kept
<1>2. R.batch \subseteq Ids(R.def) /\ DOMAIN R.trace \subseteq Ids(R.def)
      /\ R.batch = good \cup bad /\ good \cap bad = {}
  BY DEF RunShape, BatchFits
<1>3. ~ FailedHard(R) /\ ~ R.failed
  BY DEF Verdict
<1> HIDE DEF good, bad
<1>4. Failures(S) = Failures(R) \cup bad
      /\ \A n \in DOMAIN S.trace :
           S.trace[n] = "expired" => n \in DOMAIN R.trace /\ R.trace[n] = "expired"
  <2>1. DOMAIN R.trace \cup R.batch \subseteq DOMAIN S.trace
    BY <1>1, <1>2
  <2> QED
    BY <1>1, <1>2, <2>1 DEF Failures
<1>5. FailedHard(S) <=> S.failed
  BY <1>1, <1>3, <1>4 DEF FailedHard
<1>6. ASSUME ~ S.review PROVE S.ids = {} /\ \A n \in Failures(S) : S.def.onError[n] # "review"
  <2>1. ~ R.review /\ queued = {} /\ \A n \in bad : R.def.onError[n] # "review"
    BY <1>1, <1>6
  <2>2. R.ids = {} /\ \A n \in Failures(R) : R.def.onError[n] # "review"
    BY <2>1 DEF Verdict
  <2> QED
    BY <1>1, <1>4, <2>1, <2>2
<1> QED
  BY <1>1, <1>5, <1>6 DEF Verdict, Over

\* Every way a run moves keeps its verdict.
LEMMA VerdictMove ==
    ASSUME NEW R, NEW S, IsRun(R), RunShape(R), Verdict(R), Moves(R, S)
    PROVE  Verdict(S)
<1>1. CASE R.phase = "idle" /\ Started(S)
  <2>1. Failures(S) = {} /\ DOMAIN S.trace = {}
    BY <1>1 DEF Started, Failures
  <2> QED
    BY <1>1, <2>1 DEF Verdict, FailedHard, Started
<1>2. CASE R.phase # "idle" /\ PhaseStep(R, S)
           /\ S.phase \in {"ended", "answered", "lost", "crashed"}
           /\ (R.phase \in {"wave", "batch"} \cup Over \/ S.phase = "crashed")
  <2>1. Failures(S) = Failures(R) /\ (FailedHard(S) <=> FailedHard(R))
    BY <1>2 DEF PhaseStep, Kept, Failures, FailedHard
  <2> QED
    BY <1>2, <2>1 DEF Verdict, PhaseStep, Kept, Over
<1>3. CASE R.phase = "batch" /\ Trying(R, S)
  <2>1. Failures(S) = Failures(R) /\ (FailedHard(S) <=> FailedHard(R))
    BY <1>3 DEF Trying, Kept, Failures, FailedHard
  <2> QED
    BY <1>3, <2>1 DEF Verdict, Trying, Kept, Over
<1> QED
  BY <1>1, <1>2, <1>3, VerdictWave, VerdictExpire, VerdictEnd DEF Moves, Quiet, Live, Over

\* No run has a verdict at the start.
LEMMA VerdictInit == Init => VerdictInv
BY NoRunType DEF Init, VerdictInv, Verdict

\* Every step keeps the verdicts.
LEMMA VerdictNext == TypeInv /\ VerdictInv /\ [Next]_vars => VerdictInv'
<1> SUFFICES ASSUME TypeInv, VerdictInv, [Next]_vars, NEW t \in Runs PROVE Verdict(run'[t])
  BY DEF VerdictInv, Verdict, Failures, FailedHard
<1>1. IsRun(run[t]) /\ RunShape(run[t]) /\ Verdict(run[t])
  BY DEF TypeInv, VerdictInv
<1> PICK S : S = run'[t]
  OBVIOUS
<1>2. S = run[t] \/ Moves(run[t], S)
  BY RunsMove
<1>3. Verdict(S)
  BY <1>1, <1>2, VerdictMove
<1> QED
  BY <1>3

-----------------------------------------------------------------------------
(* Reviews *)

\* Between batches no item waits to be reported.
LEMMA NothingQueued ==
    ASSUME NEW R, R.got = << >>
    PROVE  Queued(R) = {} /\ Reported(R) = R.ids
BY DEF Queued, Reported

\* A step that is not an attempt reports what was queued.
LEMMA ReportedMove ==
    ASSUME NEW R, NEW S, IsRun(R), RunShape(R), OncePerNode(R), Quiet(R, S)
    PROVE  Reported(S) = Reported(R) /\ OncePerNode(S)
<1>1. CASE R.phase = "idle" /\ Started(S)
  <2>1. R.ids = {} /\ R.got = << >> /\ S.ids = {} /\ S.got = << >>
    BY <1>1, NoRunType DEF RunShape, Started, NoBatch
  <2> QED
    BY <2>1, NothingQueued DEF OncePerNode
<1>2. CASE R.phase = "wave" /\ (WaveStep(R, S) \/ ExpireStep(R, S))
  <2>1. R.got = << >> /\ S.got = << >> /\ S.ids = R.ids /\ DOMAIN R.trace \subseteq DOMAIN S.trace
    BY <1>2 DEF RunShape, NoBatch, WaveStep, ExpireStep
  <2> QED
    BY <2>1, NothingQueued DEF OncePerNode
<1>3. CASE PhaseStep(R, S)
  BY <1>3 DEF PhaseStep, Kept, Reported, Queued, OncePerNode
<1>4. CASE R.phase = "batch" /\ DOMAIN R.got = R.batch /\ EndStep(R, S)
  <2> DEFINE bad == {n \in R.batch : R.got[n] = "failed"}
             good == R.batch \ bad
             queued == {n \in good : R.def.kind[n] = "review"}
             new == {<<n, R.att[n]>> : n \in queued}
  <2>1. /\ S.ids = R.ids \cup new
        /\ DOMAIN S.trace = IF S.failed THEN Ids(R.def) ELSE DOMAIN R.trace \cup R.batch
        /\ S.got = << >>
    BY <1>4 DEF EndStep, NoBatch, Divided
  <2>2. R.batch \subseteq Ids(R.def) /\ DOMAIN R.trace \subseteq Ids(R.def)
        /\ R.batch \cap DOMAIN R.trace = {} /\ queued \subseteq R.batch
    BY <1>4 DEF RunShape, BatchFits
  <2>3. Queued(R) = new
    <3>1. {n \in DOMAIN R.got : R.got[n] # "failed" /\ R.def.kind[n] = "review"} = queued
      BY <1>4
    <3> HIDE DEF queued
    <3> QED
      BY <3>1 DEF Queued
  <2>4. \A x \in new : x[1] \in R.batch /\ x = <<x[1], R.att[x[1]]>>
    BY <2>2
  <2> HIDE DEF new, queued, bad, good
  <2>5. \A x \in S.ids : x[1] \in DOMAIN S.trace
    BY <2>1, <2>2, <2>4 DEF OncePerNode
  <2>6. \A x, y \in S.ids : x[1] = y[1] => x = y
    BY <2>1, <2>2, <2>4 DEF OncePerNode
  <2>7. Reported(S) = Reported(R)
    BY <2>1, <2>3, NothingQueued DEF Reported
  <2> QED
    BY <2>5, <2>6, <2>7 DEF OncePerNode
<1> QED
  BY <1>1, <1>2, <1>3, <1>4 DEF Quiet

\* An attempt without a result reports nothing.
LEMMA ReportedUnanswered ==
    ASSUME NEW R, NEW S, NEW n, n \notin DOMAIN R.got, BatchFits(R), Unanswered(R, S, n)
    PROVE  Reported(S) = Reported(R)
<1>1. \A m \in DOMAIN R.got : S.att[m] = R.att[m]
  BY DEF Unanswered, BatchFits
<1>2. S.got = R.got /\ S.def = R.def /\ S.ids = R.ids
  BY DEF Unanswered, Trying, Kept
<1>3. Queued(S) = Queued(R)
  BY <1>1, <1>2 DEF Queued
<1> QED
  BY <1>2, <1>3 DEF Reported

\* A review that succeeds reports its item.
LEMMA ReportedAnswered ==
    ASSUME NEW R, NEW S, NEW n, NEW v, n \notin DOMAIN R.got, Answered(R, S, n, v)
    PROVE  Reported(S) = IF v # "failed" /\ R.def.kind[n] = "review"
                         THEN Reported(R) \cup {<<n, R.att[n]>>} ELSE Reported(R)
<1> DEFINE A == {m \in DOMAIN R.got : R.got[m] # "failed" /\ R.def.kind[m] = "review"}
           B == {m \in DOMAIN S.got : S.got[m] # "failed" /\ S.def.kind[m] = "review"}
<1>1. /\ S.att = R.att /\ S.def = R.def /\ S.ids = R.ids
      /\ DOMAIN S.got = DOMAIN R.got \cup {n} /\ S.got[n] = v
      /\ \A m \in DOMAIN R.got : S.got[m] = R.got[m]
  BY DEF Answered, Trying, Kept
<1>2. B = IF v # "failed" /\ R.def.kind[n] = "review" THEN A \cup {n} ELSE A
  BY <1>1
<1>3. Queued(R) = {<<m, R.att[m]>> : m \in A} /\ Queued(S) = {<<m, R.att[m]>> : m \in B}
  BY <1>1 DEF Queued
<1> HIDE DEF A, B
<1>4. Queued(S) = IF v # "failed" /\ R.def.kind[n] = "review"
                  THEN Queued(R) \cup {<<n, R.att[n]>>} ELSE Queued(R)
  BY <1>2, <1>3
<1> QED
  BY <1>1, <1>4 DEF Reported

\* No item exists at the start.
LEMMA ReviewInit == Init => ReviewInv
<1> SUFFICES ASSUME Init, NEW r \in Runs
             PROVE  Owned(r) = Reported(run[r]) /\ OncePerNode(run[r])
  BY DEF ReviewInv
<1>1. run[r] = NoRun /\ Owned(r) = {}
  BY DEF Init, Owned
<1> QED
  BY <1>1, NoRunType, NothingQueued DEF OncePerNode

\* Every step keeps the items owned those that are reported.
LEMMA ReviewNext == TypeInv /\ ReviewInv /\ [Next]_vars => ReviewInv'
<1> SUFFICES ASSUME TypeInv, ReviewInv, [Next]_vars PROVE ReviewInv'
  OBVIOUS
<1>1. \A r \in Runs : /\ IsRun(run[r]) /\ RunShape(run[r])
                      /\ Owned(r) = Reported(run[r]) /\ OncePerNode(run[r])
  BY DEF TypeInv, ReviewInv
<1>2. ASSUME NEW r \in Runs, NEW T, run'[r] = T, Owned(r)' = Reported(T), OncePerNode(T)
      PROVE  (Owned(r) = Reported(run[r]) /\ OncePerNode(run[r]))'
  BY <1>2 DEF Reported, Queued, OncePerNode
<1>3. ASSUME UNCHANGED reviews, ~ Attempted PROVE ReviewInv'
  <2> SUFFICES ASSUME NEW t \in Runs PROVE (Owned(t) = Reported(run[t]) /\ OncePerNode(run[t]))'
    BY DEF ReviewInv
  <2> PICK S : S = run'[t]
    OBVIOUS
  <2>1. S = run[t] \/ Quiet(run[t], S)
    BY <1>3, QuietMove
  <2>2. Reported(S) = Reported(run[t]) /\ OncePerNode(S)
    BY <1>1, <1>3, <2>1, ReportedMove
  <2>3. Owned(t)' = Owned(t)
    BY <1>3 DEF Owned
  <2> QED
    BY <1>1, <1>2, <2>2, <2>3
<1>4. ASSUME NEW r \in Runs, NEW n \in Nodes, NEW S, AttemptStep(r, n, S) PROVE ReviewInv'
  <2>1. /\ run'[r] = S /\ \A t \in Runs \ {r} : run'[t] = run[t]
        /\ n \notin DOMAIN run[r].got /\ run[r].phase = "batch" /\ Trying(run[r], S)
        /\ BatchFits(run[r])
    BY <1>1, <1>4, OneRun, AttemptShape DEF AttemptStep, RunShape
  <2>2. \A t \in Runs \ {r} : Owned(t)' = Owned(t)
    BY <1>4 DEF AttemptStep, Owned
  <2>3. OncePerNode(S)
    BY <1>1, <2>1 DEF OncePerNode, Trying
  <2>4. Owned(r)' = Reported(S)
    <3>1. CASE UNCHANGED reviews /\ (\/ Unanswered(run[r], S, n)
                                     \/ \E v : /\ Answered(run[r], S, n, v)
                                               /\ run[r].def.kind[n] = "review" => v = "failed")
      <4>1. Reported(S) = Reported(run[r])
        BY <2>1, <3>1, ReportedUnanswered, ReportedAnswered
      <4>2. Owned(r)' = Owned(r)
        BY <3>1 DEF Owned
      <4> QED
        BY <1>1, <4>1, <4>2
    <3>2. CASE /\ run[r].def.kind[n] = "review"
               /\ reviews' = reviews \cup {[run |-> r, node |-> n, att |-> run[r].att[n],
                                            owned |-> enabled]}
               /\ enabled /\ Answered(run[r], S, n, "queued")
      <4>1. Owned(r)' = Owned(r) \cup {<<n, run[r].att[n]>>}
        <5> PICK e : e = [run |-> r, node |-> n, att |-> run[r].att[n], owned |-> enabled]
          OBVIOUS
        <5>1. e.run = r /\ e.node = n /\ e.att = run[r].att[n] /\ e.owned
          BY <3>2
        <5>2. reviews' = reviews \cup {e}
          BY <3>2
        <5> PICK own : own = {f \in reviews : f.run = r /\ f.owned}
          OBVIOUS
        <5>3. Owned(r) = {<<f.node, f.att>> : f \in own}
          BY DEF Owned
        <5>4. {f \in reviews' : f.run = r /\ f.owned} = own \cup {e}
          BY <5>1, <5>2
        <5>5. Owned(r)' = {<<f.node, f.att>> : f \in own \cup {e}}
          BY <5>4 DEF Owned
        <5> QED
          BY <5>1, <5>3, <5>5
      <4> PICK v : v = "queued"
        OBVIOUS
      <4>2. Reported(S) = Reported(run[r]) \cup {<<n, run[r].att[n]>>}
        BY <2>1, <3>2, ReportedAnswered
      <4> QED
        BY <1>1, <4>1, <4>2
    <3>3. CASE /\ reviews' = reviews \cup {[run |-> r, node |-> n, att |-> run[r].att[n],
                                            owned |-> enabled]}
               /\ ~ enabled /\ (Unanswered(run[r], S, n) \/ Answered(run[r], S, n, "failed"))
      <4>1. Owned(r)' = Owned(r)
        BY <3>3 DEF Owned
      <4> PICK v : v = "failed"
        OBVIOUS
      <4>2. Reported(S) = Reported(run[r])
        BY <2>1, <3>3, ReportedUnanswered, ReportedAnswered
      <4> QED
        BY <1>1, <4>1, <4>2
    <3> QED
      BY <1>4, <3>1, <3>2, <3>3 DEF AttemptStep
  <2> SUFFICES ASSUME NEW t \in Runs PROVE (Owned(t) = Reported(run[t]) /\ OncePerNode(run[t]))'
    BY DEF ReviewInv
  <2>5. CASE t = r
    BY <1>2, <2>1, <2>3, <2>4, <2>5
  <2>6. CASE t # r
    <3> PICK T : T = run[t]
      OBVIOUS
    <3>1. run'[t] = T /\ Owned(t)' = Reported(T) /\ OncePerNode(T)
      BY <1>1, <2>1, <2>2, <2>6
    <3> QED
      BY <1>2, <3>1
  <2> QED
    BY <2>5, <2>6
<1>5. CASE Attempted
  BY <1>4, <1>5 DEF Attempted
<1>6. CASE ~ Attempted
  <2>1. UNCHANGED reviews
    <3>1. CASE UNCHANGED vars
      BY <3>1 DEF vars, world
    <3>2. CASE Next
      <4>1. /\ \A p \in Procs, d \in Updates : PutRead(p, d) => UNCHANGED reviews
            /\ \A p \in Procs : PutInsert(p) => UNCHANGED reviews
            /\ \A p \in Procs : CrashStep(p) => UNCHANGED reviews
        BY DEF PutRead, PutInsert, CrashStep, world
      <4>2. /\ \A r \in Runs, p \in Procs : \A S : LaunchStep(r, p, S) => UNCHANGED reviews
            /\ \A r \in Runs : \A S : LocalStep(r, S) => UNCHANGED reviews
            /\ \A r \in Runs : \A S : SaveStep(r, S) => UNCHANGED reviews
        BY DEF LaunchStep, LocalStep, SaveStep, world
      <4>3. /\ \A m : Receive(m) => UNCHANGED reviews
            /\ ToggleProject => UNCHANGED reviews
        BY DEF Receive, ToggleProject
      <4> QED
        BY <1>6, <3>2, <4>1, <4>2, <4>3, StepCases DEF Attempted
    <3> QED
      BY <3>1, <3>2
  <2> QED
    BY <1>3, <1>6, <2>1
<1> QED
  BY <1>5, <1>6

\* The status of a finished run says what its traces, its review items and its
\* failures say (status of GraphRunResponse).
THEOREM VerdictsExplained == Spec => []VerdictExplained
<1>1. TypeInv /\ VerdictInv /\ ReviewInv => VerdictExplained
  <2> SUFFICES ASSUME TypeInv, VerdictInv, ReviewInv, NEW r \in Runs, run[r].phase \in Over
               PROVE  LET R == run[r]
                          failures == {n \in Traced(r) : R.trace[n] = "failed"}
                      IN  /\ Traced(r) = Ids(R.def)
                          /\ Status(r) = "failed" <=>
                               \/ \E n \in failures : R.def.onError[n] = "fail"
                               \/ \E n \in Traced(r) : R.trace[n] = "expired"
                          /\ Status(r) = "completed" =>
                               /\ \A n \in failures : R.def.onError[n] = "skip"
                               /\ ~ \E e \in reviews : e.run = r /\ e.owned
    BY DEF VerdictExplained
  <2>1. /\ RunShape(run[r]) /\ Verdict(run[r])
        /\ Owned(r) = Reported(run[r])
    BY DEF TypeInv, VerdictInv, ReviewInv
  <2>2. run[r].phase # "idle"
    BY DEF Over
  <2>3. /\ Traced(r) = Ids(run[r].def) /\ NoBatch(run[r]) /\ run[r].def \in Accepted
        /\ run[r].failed <=> FailedHard(run[r])
    BY <2>1, <2>2 DEF RunShape, Verdict, Traced
  <2>4. Owned(r) = run[r].ids
    BY <2>1, <2>3, NothingQueued DEF NoBatch
  <2>5. Status(r) = "failed" <=> FailedHard(run[r])
    BY <2>3 DEF Status
  <2>6. ASSUME Status(r) = "completed"
        PROVE  /\ \A n \in Failures(run[r]) : run[r].def.onError[n] = "skip"
               /\ ~ \E e \in reviews : e.run = r /\ e.owned
    <3>1. ~ run[r].failed /\ ~ run[r].review
      BY <2>6 DEF Status
    <3>2. /\ run[r].ids = {}
          /\ \A n \in Failures(run[r]) : run[r].def.onError[n] \notin {"review", "fail"}
      BY <2>1, <2>2, <2>3, <3>1 DEF Verdict, FailedHard
    <3>3. \A n \in Ids(run[r].def) : run[r].def.onError[n] \in {"fail", "skip", "review"}
      BY <2>3, DefinitionAssumption DEF Accepted, Ids
    <3>4. ~ \E e \in reviews : e.run = r /\ e.owned
      BY <2>4, <3>2 DEF Owned
    <3> QED
      BY <2>3, <3>2, <3>3, <3>4 DEF Failures, Traced
  <2> QED
    BY <2>3, <2>5, <2>6 DEF Failures, FailedHard, Traced
<1> QED
  BY <1>1, TypeInit, TypeNext, VerdictInit, VerdictNext, ReviewInit, ReviewNext, PTL DEF Spec

\* A finished run reports exactly the items its project owns, one a node.
THEOREM ReviewsAreReported == Spec => []ReviewsReported
<1>1. TypeInv /\ ReviewInv => ReviewsReported
  <2> SUFFICES ASSUME TypeInv, ReviewInv, NEW r \in Runs, run[r].phase \in Over
               PROVE  /\ run[r].ids = Owned(r)
                      /\ \A x, y \in run[r].ids : x[1] = y[1] => x = y
    BY DEF ReviewsReported, Owned
  <2>1. RunShape(run[r]) /\ Owned(r) = Reported(run[r]) /\ OncePerNode(run[r])
    BY DEF TypeInv, ReviewInv
  <2>2. NoBatch(run[r])
    BY <2>1 DEF RunShape, Over
  <2> QED
    BY <2>1, <2>2, NothingQueued DEF NoBatch, OncePerNode
<1> QED
  BY <1>1, TypeInit, TypeNext, ReviewInit, ReviewNext, PTL DEF Spec

-----------------------------------------------------------------------------
(* Webhooks *)

\* A node whose result or output is v.
Has(R, n, v) == \/ n \in DOMAIN R.out /\ R.out[n] = v
                \/ n \in DOMAIN R.got /\ R.got[n] = v

\* Only an attempt brings a result a run did not have.
LEMMA ResultMove ==
    ASSUME NEW R, NEW S, IsRun(R), RunShape(R), Quiet(R, S), NEW n, NEW v, Has(S, n, v)
    PROVE  Has(R, n, v)
<1>1. CASE R.phase = "idle" /\ Started(S)
  BY <1>1 DEF Started, NoBatch, Has
<1>2. CASE R.phase = "wave" /\ (WaveStep(R, S) \/ ExpireStep(R, S))
  BY <1>2 DEF WaveStep, ExpireStep, NoBatch, Has
<1>3. CASE PhaseStep(R, S)
  BY <1>3 DEF PhaseStep, Has
<1>4. CASE R.phase = "batch" /\ DOMAIN R.got = R.batch /\ EndStep(R, S)
  <2> PICK good : good = R.batch \ {m \in R.batch : R.got[m] = "failed"}
    OBVIOUS
  <2>1. /\ S.got = << >>
        /\ DOMAIN S.out = DOMAIN R.out \cup good
        /\ \A m \in good : S.out[m] = R.got[m]
        /\ \A m \in DOMAIN R.out \ good : S.out[m] = R.out[m]
    BY <1>4 DEF EndStep, NoBatch, Divided
  <2> QED
    BY <1>4, <2>1 DEF Has
<1> QED
  BY <1>1, <1>2, <1>3, <1>4 DEF Quiet

\* The key of a run that was started is its key for ever.
LEMMA SameKey ==
    ASSUME TypeInv, RunsKept, NEW r \in Runs, NEW n, run[r].phase # "idle"
    PROVE  /\ run'[r].phase # "idle" /\ run'[r].dry = run[r].dry
           /\ Key(r, n)' = Key(r, n)
BY DEF RunsKept, Kept, Key

\* An attempt sends its own request at most, and not in a dry run.
LEMMA PostsAttempt ==
    ASSUME NEW r \in Runs, NEW n \in Nodes, NEW S, AttemptStep(r, n, S)
    PROVE  \/ UNCHANGED posts
           \/ ~ run[r].dry /\ posts' = posts \cup {Request(r, n)}
BY DEF AttemptStep

\* An attempt reports "sent" only after its request reached the receiver.
LEMMA SentAttempt ==
    ASSUME NEW r \in Runs, NEW n \in Nodes, NEW S, AttemptStep(r, n, S),
           NEW m, Has(S, m, "sent")
    PROVE  Has(run[r], m, "sent") \/ (m = n /\ Request(r, n) \in handled)
<1>1. S.out = run[r].out
  BY DEF AttemptStep, Unanswered, Answered, Trying
<1>2. CASE Unanswered(run[r], S, n)
  BY <1>1, <1>2 DEF Unanswered, Has
<1>3. ASSUME NEW v, Answered(run[r], S, n, v), v = "sent" => Request(r, n) \in handled
      PROVE  Has(run[r], m, "sent") \/ (m = n /\ Request(r, n) \in handled)
  BY <1>1, <1>3 DEF Answered, Has
<1>4. PICK q, f : q = "queued" /\ f = "failed"
  OBVIOUS
<1>5. q # "sent" /\ f # "sent"
  BY <1>4
<1>6. Answered(run[r], S, n, q) \/ Answered(run[r], S, n, f)
        => Has(run[r], m, "sent") \/ (m = n /\ Request(r, n) \in handled)
  BY <1>3, <1>5
<1> QED
  BY <1>2, <1>3, <1>4, <1>6 DEF AttemptStep

\* What the receiver and the queue of requests do in a step.
Delivers ==
    \/ UNCHANGED <<handled, performed>>
    \/ \E m \in posts :
         /\ handled' = handled \cup {m}
         /\ performed' = IF \E e \in performed : e.key = m.key THEN performed
                         ELSE performed \cup {m}

\* Only attempts send requests, and only the receiver takes them.
LEMMA ReceiverSteps ==
    ASSUME TypeInv, [Next]_vars
    PROVE  Delivers /\ (Attempted \/ UNCHANGED posts)
<1>1. CASE UNCHANGED vars
  BY <1>1 DEF vars, world, Delivers
<1>2. CASE Next
  <2>1. /\ \A p \in Procs, d \in Updates : PutRead(p, d) => UNCHANGED world
        /\ \A p \in Procs : PutInsert(p) => UNCHANGED world
        /\ \A p \in Procs : CrashStep(p) => UNCHANGED world
    BY DEF PutRead, PutInsert, CrashStep
  <2>2. /\ \A r \in Runs, p \in Procs : \A S : LaunchStep(r, p, S) => UNCHANGED world
        /\ \A r \in Runs : \A S : LocalStep(r, S) => UNCHANGED world
        /\ \A r \in Runs : \A S : SaveStep(r, S) => UNCHANGED world
    BY DEF LaunchStep, LocalStep, SaveStep
  <2>3. UNCHANGED world => UNCHANGED <<posts, handled, performed>>
    BY DEF world
  <2>4. \A r \in Runs, n \in Nodes : \A S : AttemptStep(r, n, S) => UNCHANGED <<handled, performed>>
    BY DEF AttemptStep
  <2>5. \A m : Receive(m) => Delivers /\ UNCHANGED posts
    BY DEF Receive, Delivers
  <2>6. ToggleProject => UNCHANGED <<posts, handled, performed>>
    BY DEF ToggleProject
  <2> QED
    BY <1>2, <2>1, <2>2, <2>3, <2>4, <2>5, <2>6, StepCases DEF Attempted, Delivers
<1> QED
  BY <1>1, <1>2

\* Nothing has been sent at the start.
LEMMA HookInit == Init => HookInv
<1> SUFFICES ASSUME Init PROVE HookInv
  OBVIOUS
<1>1. posts = {} /\ handled = {} /\ performed = {} /\ \A r \in Runs : run[r] = NoRun
  BY DEF Init
<1>2. NoRun.out = << >> /\ NoRun.got = << >>
  BY NoRunType
<1> QED
  BY <1>1, <1>2 DEF HookInv

\* Every step keeps what the receiver has done explained by requests.
LEMMA HookNext == TypeInv /\ HookInv /\ [Next]_vars => HookInv'
<1> SUFFICES ASSUME TypeInv, HookInv, [Next]_vars PROVE HookInv'
  OBVIOUS
<1>1. RunsKept /\ Delivers /\ (Attempted \/ UNCHANGED posts)
  BY RunsAreKept, ReceiverSteps
<1>2. handled \subseteq handled'
  BY <1>1 DEF Delivers
<1>3. \A r \in Runs : IsRun(run[r]) /\ RunShape(run[r])
  BY DEF TypeInv
<1>4. ASSUME NEW m \in posts'
      PROVE  (/\ m.run \in Runs /\ m.node \in Nodes
              /\ run[m.run].phase # "idle" /\ ~ run[m.run].dry
              /\ m.key = Key(m.run, m.node))'
  <2>1. CASE m \in posts
    BY <1>1, <2>1, SameKey DEF HookInv
  <2>2. CASE m \notin posts
    <3> PICK r \in Runs, n \in Nodes : \E S : AttemptStep(r, n, S)
      BY <1>1, <2>2 DEF Attempted
    <3> PICK S : AttemptStep(r, n, S)
      OBVIOUS
    <3>1. ~ run[r].dry /\ m = Request(r, n)
      BY <2>2, PostsAttempt
    <3>2. m.run = r /\ m.node = n /\ m.key = Key(r, n) /\ run[r].phase # "idle"
      BY <3>1 DEF Request, AttemptStep
    <3>3. run'[r].phase # "idle" /\ ~ run'[r].dry /\ Key(r, n)' = Key(r, n)
      BY <1>1, <3>1, <3>2, SameKey
    <3> QED
      BY <3>2, <3>3
  <2> QED
    BY <2>1, <2>2
<1>5. (/\ \A e, f \in performed : e.key = f.key => e = f
       /\ \A m \in handled : \E e \in performed : e.key = m.key)'
  BY <1>1 DEF HookInv, Delivers
<1>6. ASSUME NEW r \in Runs, NEW n, Has(run'[r], n, "sent")
      PROVE  Sent(r, n)'
  <2> SUFFICES Sent(r, n) \/ Request(r, n) \in handled
    BY <1>2 DEF Sent, Request
  <2>1. ASSUME Has(run[r], n, "sent") PROVE Sent(r, n)
    BY <2>1 DEF HookInv, Has
  <2> PICK T : T = run'[r]
    OBVIOUS
  <2>2. CASE Attempted
    <3> PICK t \in Runs, k \in Nodes : \E S : AttemptStep(t, k, S)
      BY <2>2 DEF Attempted
    <3> PICK S : AttemptStep(t, k, S)
      OBVIOUS
    <3>1. run'[t] = S /\ \A u \in Runs \ {t} : run'[u] = run[u]
      BY OneRun DEF AttemptStep
    <3>2. CASE t = r
      BY <1>6, <2>1, <3>1, <3>2, SentAttempt
    <3>3. CASE t # r
      <4>1. Has(run[r], n, "sent")
        BY <1>6, <3>1, <3>3 DEF Has
      <4> QED
        BY <2>1, <4>1
    <3> QED
      BY <3>2, <3>3
  <2>3. CASE ~ Attempted
    <3> PICK v : v = "sent"
      OBVIOUS
    <3>1. T = run[r] \/ Quiet(run[r], T)
      BY <2>3, QuietMove
    <3>2. Has(T, n, v)
      BY <1>6
    <3>3. Has(run[r], n, v)
      BY <1>3, <3>1, <3>2, ResultMove
    <3> QED
      BY <2>1, <3>3
  <2> QED
    BY <2>2, <2>3
<1>7. (\A r \in Runs :
         /\ \A n \in DOMAIN run[r].out : run[r].out[n] = "sent" => Sent(r, n)
         /\ \A n \in DOMAIN run[r].got : run[r].got[n] = "sent" => Sent(r, n))'
  BY <1>6 DEF Has
<1> QED
  BY <1>4, <1>5, <1>7 DEF HookInv

\* A webhook is acted on at most once by a node of a run, exactly once when the
\* run reports it under the default key, and never in a dry run (_action_node).
THEOREM WebhooksOnce == Spec => []WebhookOnce
<1>1. TypeInv /\ HookInv => WebhookOnce
  <2> SUFFICES ASSUME TypeInv, HookInv PROVE WebhookOnce
    OBVIOUS
  <2>1. \A e \in performed : /\ e.run \in Runs /\ e.node \in Nodes /\ ~ run[e.run].dry
                             /\ e.key = Key(e.run, e.node)
    BY DEF TypeInv, HookInv
  <2>2. ASSUME NEW e \in performed, NEW f \in performed, e.run = f.run, e.node = f.node
        PROVE  e = f
    BY <2>1, <2>2 DEF HookInv
  <2>3. ASSUME NEW r \in Runs, run[r].key = None, NEW n \in DOMAIN run[r].out,
               run[r].out[n] = "sent"
        PROVE  \E e \in performed : e.run = r /\ e.node = n
    <3>1. PICK m \in handled : m.run = r /\ m.node = n
      BY <2>3 DEF HookInv, Sent
    <3>2. m.key = <<r, n>>
      BY <2>3, <3>1 DEF TypeInv, HookInv, Key
    <3>3. PICK e \in performed : e.key = <<r, n>>
      BY <3>2 DEF HookInv
    <3>4. e.key \in {<<"client", run[e.run].key>>, <<e.run, e.node>>}
      BY <2>1 DEF Key
    <3>5. e.key # <<"client", run[e.run].key>>
      BY <3>3, ValueAssumption
    <3>6. <<e.run, e.node>> = <<r, n>>
      BY <3>3, <3>4, <3>5
    <3> QED
      BY <3>6
  <2> QED
    BY <2>1, <2>2, <2>3 DEF WebhookOnce
<1> QED
  BY <1>1, TypeInit, TypeNext, HookInit, HookNext, PTL DEF Spec

-----------------------------------------------------------------------------
(* Levels: the wave a node is ready in *)

\* A bounded family of naturals has a greatest member.
LEMMA Greatest ==
    ASSUME NEW P, P # {}, NEW f, NEW N \in Nat, \A m \in P : f[m] \in Nat /\ f[m] <= N
    PROVE  \E m \in P : \A k \in P : f[k] <= f[m]
<1> DEFINE U == {b \in Nat : \A m \in P : f[m] <= b}
<1>1. U \subseteq Nat /\ U # {}
  OBVIOUS
<1>2. PICK b \in U : \A j \in U : ~ (<<j, b>> \in OpToRel(<, Nat))
  BY <1>1, NatLessThanWellFounded, WFMin
<1>3. \A j \in U : ~ (j < b)
  BY <1>1, <1>2, Zenon DEF OpToRel
<1>4. b \in Nat /\ \A m \in P : f[m] <= b
  OBVIOUS
<1> SUFFICES ASSUME \A m \in P : f[m] # b PROVE FALSE
  BY <1>4
<1>5. \A m \in P : f[m] <= b - 1
  BY <1>4
<1>6. b # 0 /\ b - 1 \in Nat
  BY <1>4, <1>5
<1>7. b - 1 \in U
  BY <1>5, <1>6
<1> HIDE DEF U
<1> QED
  BY <1>3, <1>4, <1>7

\* The level of n, from the levels f of its parents.
LevelOf(d, f, n) ==
    IF Parents(d, n) = {} THEN 1
    ELSE 1 + (CHOOSE k \in {f[m] : m \in Parents(d, n)} :
                \A m \in Parents(d, n) : f[m] <= k)

\* The level of n is one more than the greatest of its parents.
LEMMA LevelOfFacts ==
    ASSUME NEW d, NEW f, NEW n, NEW N \in Nat,
           \A m \in Parents(d, n) : f[m] \in Nat /\ f[m] <= N
    PROVE  /\ LevelOf(d, f, n) \in Nat \ {0} /\ LevelOf(d, f, n) <= N + 1
           /\ Parents(d, n) = {} => LevelOf(d, f, n) = 1
           /\ Parents(d, n) # {} =>
                \E m \in Parents(d, n) : /\ LevelOf(d, f, n) = 1 + f[m]
                                         /\ \A k \in Parents(d, n) : f[k] <= f[m]
<1> PICK P : P = Parents(d, n)
  OBVIOUS
<1>1. CASE P = {}
  BY <1>1 DEF LevelOf
<1>2. CASE P # {}
  <2> DEFINE c == CHOOSE k \in {f[m] : m \in P} : \A m \in P : f[m] <= k
  <2>1. \E k \in {f[m] : m \in P} : \A m \in P : f[m] <= k
    BY <1>2, Greatest
  <2>2. c \in {f[m] : m \in P} /\ \A m \in P : f[m] <= c
    BY <2>1
  <2>3. LevelOf(d, f, n) = 1 + c
    BY <1>2 DEF LevelOf
  <2> HIDE DEF c
  <2>4. PICK m \in P : c = f[m]
    BY <2>2
  <2> QED
    BY <1>2, <2>2, <2>3, <2>4
<1> QED
  BY <1>1, <1>2

\* It depends on the levels of the parents alone.
LEMMA LevelOfSame ==
    ASSUME NEW d, NEW f, NEW g, NEW n, NEW N \in Nat,
           \A m \in Parents(d, n) : f[m] \in Nat /\ f[m] <= N /\ g[m] = f[m]
    PROVE  LevelOf(d, g, n) = LevelOf(d, f, n)
<1>1. \A m \in Parents(d, n) : g[m] \in Nat /\ g[m] <= N
  OBVIOUS
<1>2. CASE Parents(d, n) = {}
  BY <1>2 DEF LevelOf
<1>3. CASE Parents(d, n) # {}
  <2>1. PICK m \in Parents(d, n) : /\ LevelOf(d, f, n) = 1 + f[m]
                                   /\ \A k \in Parents(d, n) : f[k] <= f[m]
    BY <1>3, LevelOfFacts
  <2>2. PICK j \in Parents(d, n) : /\ LevelOf(d, g, n) = 1 + g[j]
                                   /\ \A k \in Parents(d, n) : g[k] <= g[j]
    BY <1>1, <1>3, LevelOfFacts
  <2>3. f[m] = g[j]
    BY <2>1, <2>2
  <2> QED
    BY <2>1, <2>2, <2>3
<1> QED
  BY <1>2, <1>3

\* The recursive definition of Level has a solution: it is found along the
\* topological order.
LEMMA LevelExists ==
    ASSUME NEW d \in Initial \cup Updates, Valid(d)
    PROVE  Level(d) = [n \in Ids(d) |-> LevelOf(d, Level(d), n)]
<1> DEFINE o == TopologicalOrder(d)
<1>1. /\ o \in Seq(Ids(d)) /\ Range(o) = Ids(d) /\ IsInjective(o)
      /\ \A i \in DOMAIN o : Parents(d, o[i]) \subseteq {o[j] : j \in 1 .. i - 1}
  BY TopologicalFacts
<1>2. Len(o) \in Nat /\ DOMAIN o = 1 .. Len(o) /\ \A i \in DOMAIN o : o[i] \in Ids(d)
  BY <1>1, SeqFacts
<1> HIDE DEF o
<1> DEFINE Upto(f, k) == /\ f \in [Ids(d) -> Nat]
                         /\ \A i \in 1 .. k : f[o[i]] <= i /\ f[o[i]] = LevelOf(d, f, o[i])
           S == {k \in 0 .. Len(o) : \E f : Upto(f, k)}
<1>3. 0 \in S
  <2> DEFINE f == [n \in Ids(d) |-> 0]
  <2>1. f \in [Ids(d) -> Nat]
    OBVIOUS
  <2> HIDE DEF f
  <2>2. Upto(f, 0)
    BY <2>1
  <2> QED
    BY <1>2, <2>2
<1>4. \A k \in 0 .. Len(o) - 1 : k \in S => k + 1 \in S
  <2> TAKE k \in 0 .. Len(o) - 1
  <2> HAVE k \in S
  <2> PICK f : Upto(f, k)
    OBVIOUS
  <2> DEFINE n == o[k + 1]
             g == [m \in Ids(d) |-> IF m = n THEN LevelOf(d, f, n) ELSE f[m]]
  <2>1. k \in Nat /\ k + 1 \in DOMAIN o /\ k + 1 \in 0 .. Len(o) /\ n \in Ids(d)
    BY <1>2
  <2>2. \A i \in 1 .. k : i \in DOMAIN o /\ o[i] # n /\ o[i] \in Ids(d)
    <3>1. \A i \in 1 .. k : i \in DOMAIN o /\ i # k + 1
      BY <1>2, <2>1
    <3> QED
      BY <1>1, <1>2, <2>1, <3>1 DEF IsInjective
  <2>3. ASSUME NEW i \in 1 .. k + 1
        PROVE  \A m \in Parents(d, o[i]) : m \in {o[j] : j \in 1 .. k} /\ f[m] \in Nat /\ f[m] <= k
    <3>1. i \in DOMAIN o /\ \A j \in 1 .. i - 1 : j \in 1 .. k
      BY <1>2, <2>1
    <3>2. \A j \in 1 .. k : f[o[j]] \in Nat /\ f[o[j]] <= k
      BY <2>1, <2>2
    <3>3. Parents(d, o[i]) \subseteq {o[j] : j \in 1 .. i - 1}
      BY <1>1, <3>1
    <3>4. \A m \in Parents(d, o[i]) : \E j \in 1 .. k : m = o[j]
      BY <3>1, <3>3
    <3> QED
      BY <3>2, <3>4
  <2>4. LevelOf(d, f, n) \in Nat /\ LevelOf(d, f, n) <= k + 1
    <3>1. k + 1 \in 1 .. k + 1
      BY <2>1
    <3> QED
      BY <2>1, <2>3, <3>1, LevelOfFacts
  <2>5. g \in [Ids(d) -> Nat] /\ g[n] = LevelOf(d, f, n) /\ \A j \in 1 .. k : g[o[j]] = f[o[j]]
    BY <2>1, <2>2, <2>4
  <2> HIDE DEF g
  <2>6. ASSUME NEW i \in 1 .. k + 1 PROVE LevelOf(d, g, o[i]) = LevelOf(d, f, o[i])
    <3>1. \A m \in Parents(d, o[i]) : f[m] \in Nat /\ f[m] <= k /\ g[m] = f[m]
      BY <2>3, <2>5
    <3> QED
      BY <2>1, <3>1, LevelOfSame
  <2>7. ASSUME NEW i \in 1 .. k + 1 PROVE g[o[i]] <= i /\ g[o[i]] = LevelOf(d, g, o[i])
    <3>1. CASE i = k + 1
      BY <2>4, <2>5, <2>6, <3>1
    <3>2. CASE i \in 1 .. k
      BY <2>5, <2>6, <3>2
    <3> QED
      BY <2>1, <3>1, <3>2
  <2>8. Upto(g, k + 1)
    BY <2>5, <2>7
  <2> HIDE DEF Upto
  <2> QED
    BY <2>1, <2>8
<1>5. Len(o) \in S
  <2> HIDE DEF S
  <2>1. \A k \in 0 .. Len(o) : k \in S
    BY <1>2, <1>3, <1>4, UpTo
  <2> QED
    BY <1>2, <2>1
<1> DEFINE Solves(f) == f = [n \in Ids(d) |-> LevelOf(d, f, n)]
<1>6. \E f : Solves(f)
  <2> PICK f : Upto(f, Len(o))
    BY <1>5
  <2>1. \A n \in Ids(d) : f[n] = LevelOf(d, f, n)
    BY <1>1, <1>2 DEF Range
  <2> QED
    BY <2>1
<1>7. PICK f : Solves(f) /\ Level(d) = f
  BY <1>6 DEF Level, LevelOf
<1> QED
  BY <1>7

\* A level is one more than that of some parent, and than that of every other
\* at least.
LEMMA LevelFacts ==
    ASSUME NEW d \in Initial \cup Updates, Valid(d)
    PROVE  \A n \in Ids(d) :
             /\ Level(d)[n] \in Nat \ {0}
             /\ Parents(d, n) = {} => Level(d)[n] = 1
             /\ \A m \in Parents(d, n) : m \in Ids(d) /\ Level(d)[m] < Level(d)[n]
             /\ Parents(d, n) # {} => \E m \in Parents(d, n) : Level(d)[n] = 1 + Level(d)[m]
<1> DEFINE o == TopologicalOrder(d)
<1>1. /\ o \in Seq(Ids(d)) /\ Range(o) = Ids(d)
      /\ \A i \in DOMAIN o : Parents(d, o[i]) \subseteq {o[j] : j \in 1 .. i - 1}
  BY TopologicalFacts
<1>2. Len(o) \in Nat /\ DOMAIN o = 1 .. Len(o) /\ \A i \in DOMAIN o : o[i] \in Ids(d)
  BY <1>1, SeqFacts
<1> HIDE DEF o
<1> PICK L : L = Level(d)
  OBVIOUS
<1>3. \A n \in Ids(d) : L[n] = LevelOf(d, L, n)
  BY LevelExists
<1> DEFINE S == {k \in 0 .. Len(o) : \A i \in 1 .. k : L[o[i]] \in Nat /\ L[o[i]] <= i}
<1>4. 0 \in S
  BY <1>2
<1>5. ASSUME NEW k \in 0 .. Len(o) - 1, k \in S
      PROVE  \A m \in Parents(d, o[k + 1]) : L[m] \in Nat /\ L[m] <= k
  <2>1. k + 1 \in DOMAIN o /\ (k + 1) - 1 = k
    BY <1>2
  <2>2. \A j \in 1 .. k : L[o[j]] \in Nat /\ L[o[j]] <= k
    BY <1>5
  <2> QED
    BY <1>1, <2>1, <2>2
<1>6. \A k \in 0 .. Len(o) - 1 : k \in S => k + 1 \in S
  <2> TAKE k \in 0 .. Len(o) - 1
  <2> HAVE k \in S
  <2>1. k \in Nat /\ k + 1 \in DOMAIN o /\ k + 1 \in 0 .. Len(o)
    BY <1>2
  <2>2. L[o[k + 1]] \in Nat /\ L[o[k + 1]] <= k + 1
    BY <1>2, <1>3, <1>5, <2>1, LevelOfFacts
  <2> QED
    BY <2>1, <2>2
<1>7. \A n \in Ids(d) : L[n] \in Nat /\ L[n] <= Len(o)
  <2>1. \A k \in 0 .. Len(o) : k \in S
    <3> HIDE DEF S
    <3> QED
      BY <1>2, <1>4, <1>6, UpTo
  <2>2. Len(o) \in S
    BY <1>2, <2>1
  <2>3. \A i \in 1 .. Len(o) : L[o[i]] \in Nat /\ L[o[i]] <= Len(o)
    BY <1>2, <2>2
  <2> QED
    BY <1>1, <1>2, <2>3 DEF Range
<1> SUFFICES ASSUME NEW n \in Ids(d)
             PROVE  /\ L[n] \in Nat \ {0}
                    /\ Parents(d, n) = {} => L[n] = 1
                    /\ \A m \in Parents(d, n) : m \in Ids(d) /\ L[m] < L[n]
                    /\ Parents(d, n) # {} => \E m \in Parents(d, n) : L[n] = 1 + L[m]
  OBVIOUS
<1>8. Parents(d, n) \subseteq Ids(d)
  BY <1>1, <1>2 DEF Range
<1>9. \A m \in Parents(d, n) : L[m] \in Nat /\ L[m] <= Len(o)
  BY <1>7, <1>8
<1>10. /\ L[n] \in Nat \ {0}
       /\ Parents(d, n) = {} => L[n] = 1
       /\ Parents(d, n) # {} => \E m \in Parents(d, n) : /\ L[n] = 1 + L[m]
                                                         /\ \A k \in Parents(d, n) : L[k] <= L[m]
  BY <1>2, <1>3, <1>9, LevelOfFacts
<1> QED
  BY <1>8, <1>9, <1>10

\* The nodes that become ready behind the first w waves are the next wave.
LEMMA NextWaveFacts ==
    ASSUME NEW d \in Initial \cup Updates, Valid(d), NEW w \in Nat
    PROVE  LET T == FirstWaves(d, w)
               new == {n \in Ids(d) \ T : Parents(d, n) \subseteq T}
           IN  /\ T \cup new = FirstWaves(d, w + 1)
               /\ \A n \in Ids(d) : n \in T <=> Level(d)[n] <= w
               /\ \A n \in FirstWaves(d, w + 1) :
                    /\ Parents(d, n) \subseteq T
                    /\ n \notin T => Level(d)[n] = w + 1
<1> PICK L : L = Level(d)
  OBVIOUS
<1> PICK T : T = FirstWaves(d, w)
  OBVIOUS
<1> PICK U : U = FirstWaves(d, w + 1)
  OBVIOUS
<1>1. /\ T = {n \in Ids(d) : L[n] <= w} /\ U = {n \in Ids(d) : L[n] <= w + 1}
  BY DEF FirstWaves
<1>2. \A n \in Ids(d) : /\ L[n] \in Nat
                        /\ Parents(d, n) = {} => L[n] = 1
                        /\ \A m \in Parents(d, n) : m \in Ids(d) /\ L[m] < L[n]
                        /\ Parents(d, n) # {} => \E m \in Parents(d, n) : L[n] = 1 + L[m]
  BY LevelFacts
<1>3. ASSUME NEW n \in Ids(d), Parents(d, n) \subseteq T PROVE n \in U
  BY <1>1, <1>2, <1>3
<1>4. ASSUME NEW n \in U PROVE Parents(d, n) \subseteq T
  <2>1. n \in Ids(d) /\ L[n] \in Nat /\ L[n] <= w + 1
    BY <1>1, <1>2
  <2> SUFFICES ASSUME NEW m \in Parents(d, n) PROVE m \in T
    OBVIOUS
  <2>2. m \in Ids(d) /\ L[m] \in Nat /\ L[m] < L[n]
    BY <1>2, <2>1
  <2> QED
    BY <1>1, <2>1, <2>2
<1>5. T \subseteq U
  BY <1>1, <1>2
<1>6. ASSUME NEW n \in U, n \notin T PROVE L[n] = w + 1
  BY <1>1, <1>2, <1>6
<1>7. T \cup {n \in Ids(d) \ T : Parents(d, n) \subseteq T} = U
  BY <1>1, <1>3, <1>4, <1>5
<1> QED
  BY <1>1, <1>4, <1>6, <1>7

-----------------------------------------------------------------------------
(* The meaning of the traces *)

\* Whether n is cut off is settled by the waves before its own.
LEMMA CutSettled ==
    ASSUME NEW R, NEW S, R.def \in Accepted, S.def = R.def, NEW w \in Nat,
           NEW n \in FirstWaves(R.def, w + 1),
           DOMAIN R.out \subseteq Ids(R.def), DOMAIN S.out \subseteq Ids(R.def),
           \A m \in FirstWaves(R.def, w) :
             /\ S.trace[m] = R.trace[m]
             /\ m \in DOMAIN S.out <=> m \in DOMAIN R.out
             /\ m \in DOMAIN R.out => S.out[m] = R.out[m]
    PROVE  Cut(S, n) <=> Cut(R, n)
<1> PICK L : L = Level(R.def)
  OBVIOUS
<1> PICK T : T = FirstWaves(R.def, w)
  OBVIOUS
<1>1. R.def \in Initial \cup Updates /\ Valid(R.def)
  BY DEF Accepted
<1>2. /\ n \in Ids(R.def) /\ L[n] \in Nat /\ L[n] <= w + 1
      /\ \A m \in Ids(R.def) : L[m] \in Nat
  BY <1>1, LevelFacts DEF FirstWaves
<1>3. /\ \A m \in Ids(R.def) : L[m] < L[n] => m \in T
      /\ Parents(R.def, n) \subseteq T
  <2>1. /\ \A m \in Ids(R.def) : m \in T <=> L[m] <= w
        /\ Parents(R.def, n) \subseteq T
    BY <1>1, NextWaveFacts
  <2> QED
    BY <1>2, <2>1
<1>4. {m \in DOMAIN S.out : L[m] < L[n]} = {m \in DOMAIN R.out : L[m] < L[n]}
  BY <1>3
<1>5. Earlier(S, n) = Earlier(R, n)
  <2> PICK D : D = {m \in DOMAIN R.out : L[m] < L[n]}
    OBVIOUS
  <2>1. Earlier(S, n) = [m \in D |-> S.out[m]] /\ Earlier(R, n) = [m \in D |-> R.out[m]]
    BY <1>4 DEF Earlier
  <2>2. \A m \in D : S.out[m] = R.out[m]
    BY <1>3
  <2> QED
    BY <2>1, <2>2
<1>6. \A e \in Incoming(R.def, n) : S.trace[e.source] = R.trace[e.source]
  BY <1>3 DEF Parents
<1> QED
  BY <1>5, <1>6 DEF Cut

\* A node of the next wave is cut off exactly when no parent activates it.
LEMMA CutActive ==
    ASSUME NEW R, IsRun(R), R.def \in Accepted, NEW w \in Nat,
           DOMAIN R.trace = FirstWaves(R.def, w), DOMAIN R.out \subseteq DOMAIN R.trace,
           NEW n \in Open(R)
    PROVE  Cut(R, n) <=> ~ Active(R, n)
<1> PICK L : L = Level(R.def)
  OBVIOUS
<1>1. R.def \in Initial \cup Updates /\ Valid(R.def)
  BY DEF Accepted
<1>2. n \in Ids(R.def) /\ n \notin FirstWaves(R.def, w) /\ n \in FirstWaves(R.def, w + 1)
  BY <1>1, NextWaveFacts DEF Open
<1>3. L[n] = w + 1 /\ \A m \in FirstWaves(R.def, w) : L[m] \in Nat /\ L[m] <= w
  BY <1>1, <1>2, NextWaveFacts, LevelFacts DEF FirstWaves
<1>4. {m \in DOMAIN R.out : L[m] < L[n]} = DOMAIN R.out
  BY <1>3
<1>5. R.out = [m \in DOMAIN R.out |-> R.out[m]]
  BY DEF IsRun, Partial
<1>6. Earlier(R, n) = R.out
  BY <1>4, <1>5 DEF Earlier
<1>7. Parents(R.def, n) # {} <=> Incoming(R.def, n) # {}
  BY DEF Parents
<1> QED
  BY <1>6, <1>7 DEF Cut, Active

\* A wave: the nodes it skips are cut off and those it starts are not.
LEMMA WavesWave ==
    ASSUME NEW R, NEW S, IsRun(R), RunShape(R), Waves(R), R.phase = "wave", WaveStep(R, S)
    PROVE  Waves(S)
<1> SUFFICES ASSUME ~ S.failed PROVE Waves(S)
  BY DEF Waves
<1> DEFINE started == {n \in Open(R) : Active(R, n)}
           skipped == Open(R) \ started
<1>1. /\ IsRun(S) /\ S.def = R.def /\ ~ R.failed /\ S.out = R.out
      /\ DOMAIN S.trace = DOMAIN R.trace \cup skipped
      /\ \A n \in DOMAIN R.trace : S.trace[n] = R.trace[n]
      /\ \A n \in skipped : S.trace[n] = "skipped"
      /\ S.phase \in {"wave", "batch"}
      /\ S.phase = "wave" => started = {} /\ S.batch = {} /\ Range(S.queue) = {}
      /\ S.batch \cup Range(S.queue) = started
  BY DEF WaveStep, Kept, NoBatch, Range
<1>2. R.def \in Accepted /\ DOMAIN R.trace \subseteq Ids(R.def)
  BY DEF RunShape
<1>3. R.def \in Initial \cup Updates /\ Valid(R.def)
  BY <1>2 DEF Accepted
<1>4. PICK w \in Nat : DOMAIN R.trace = FirstWaves(R.def, w)
  BY <1>1 DEF Waves
<1>5. /\ DOMAIN R.out \subseteq DOMAIN R.trace
      /\ \A n \in DOMAIN R.trace : R.trace[n] = "skipped" <=> Cut(R, n)
  BY <1>1 DEF Waves
<1>6. DOMAIN R.trace \cup Open(R) = FirstWaves(R.def, w + 1)
  BY <1>3, <1>4, NextWaveFacts DEF Open
<1>7. \A n \in DOMAIN R.trace \cup Open(R) : Cut(S, n) <=> Cut(R, n)
  BY <1>1, <1>2, <1>4, <1>5, <1>6, CutSettled
<1>8. \A n \in Open(R) : Cut(R, n) <=> ~ Active(R, n)
  BY <1>2, <1>4, <1>5, CutActive
<1>9. \A n \in DOMAIN S.trace : S.trace[n] = "skipped" <=> Cut(S, n)
  <2>1. \A n \in DOMAIN R.trace : S.trace[n] = "skipped" <=> Cut(S, n)
    BY <1>1, <1>5, <1>7
  <2>2. \A n \in skipped : S.trace[n] = "skipped" /\ Cut(S, n)
    BY <1>1, <1>7, <1>8
  <2> QED
    BY <1>1, <2>1, <2>2
<1>10. \A n \in started : ~ Cut(S, n)
  BY <1>7, <1>8
<1>11. /\ DOMAIN R.trace \subseteq DOMAIN S.trace
       /\ DOMAIN S.trace \cup started = FirstWaves(S.def, w + 1)
  BY <1>1, <1>6
<1>12. w + 1 \in Nat
  OBVIOUS
<1> HIDE DEF started, skipped
<1>13. CASE S.phase = "wave"
  <2>1. DOMAIN S.trace = FirstWaves(S.def, w + 1)
    BY <1>1, <1>11, <1>13
  <2> QED
    BY <1>1, <1>5, <1>9, <1>10, <1>11, <1>12, <1>13, <2>1 DEF Waves
<1>14. CASE S.phase = "batch"
  <2>1. DOMAIN S.trace \cup S.batch \cup Range(S.queue) = FirstWaves(S.def, w + 1)
    BY <1>1, <1>11
  <2>2. FirstWaves(S.def, w) \subseteq DOMAIN S.trace
    BY <1>1, <1>4, <1>11
  <2> QED
    BY <1>1, <1>5, <1>9, <1>10, <1>11, <1>14, <2>1, <2>2 DEF Waves
<1> QED
  BY <1>1, <1>13, <1>14

\* The end of a batch cuts off no node of its wave.
LEMMA WavesEnd ==
    ASSUME NEW R, NEW S, IsRun(R), RunShape(R), Verdict(R), Waves(R), R.phase = "batch",
           DOMAIN R.got = R.batch, EndStep(R, S)
    PROVE  Waves(S)
<1> SUFFICES ASSUME ~ S.failed PROVE Waves(S)
  BY DEF Waves
<1> DEFINE bad == {n \in R.batch : R.got[n] = "failed"}
           good == R.batch \ bad
<1>1. /\ S.def = R.def
      /\ DOMAIN S.trace = DOMAIN R.trace \cup R.batch
      /\ \A n \in DOMAIN R.trace : S.trace[n] = R.trace[n]
      /\ \A n \in good : S.trace[n] = "completed"
      /\ \A n \in bad : S.trace[n] = "failed"
      /\ DOMAIN S.out = DOMAIN R.out \cup good
      /\ \A n \in DOMAIN R.out \ good : S.out[n] = R.out[n]
      /\ S.phase \in {"wave", "batch"}
  BY DEF EndStep, Kept
<1>2. /\ S.phase = "wave" => Range(R.queue) = {} /\ S.batch = {} /\ Range(S.queue) = {}
      /\ S.phase = "batch" => S.batch \cup Range(S.queue) = Range(R.queue)
  BY DEF EndStep, NoBatch, Divided, Range
<1>3. /\ R.def \in Accepted /\ DOMAIN R.trace \subseteq Ids(R.def)
      /\ R.batch \subseteq Ids(R.def) /\ R.batch \cap DOMAIN R.trace = {}
  BY DEF RunShape, BatchFits
<1>4. ~ R.failed
  BY DEF Verdict
<1>5. /\ DOMAIN R.out \subseteq DOMAIN R.trace
      /\ \A n \in DOMAIN R.trace : R.trace[n] = "skipped" <=> Cut(R, n)
      /\ \A n \in R.batch \cup Range(R.queue) : ~ Cut(R, n)
  BY <1>4 DEF Waves
<1>6. PICK w \in Nat :
        /\ FirstWaves(R.def, w) \subseteq DOMAIN R.trace
        /\ DOMAIN R.trace \cup R.batch \cup Range(R.queue) = FirstWaves(R.def, w + 1)
  BY <1>4 DEF Waves
<1>7. \A m \in FirstWaves(R.def, w) :
        /\ S.trace[m] = R.trace[m]
        /\ m \in DOMAIN S.out <=> m \in DOMAIN R.out
        /\ m \in DOMAIN R.out => S.out[m] = R.out[m]
  BY <1>1, <1>3, <1>6
<1>8. DOMAIN R.out \subseteq Ids(R.def) /\ DOMAIN S.out \subseteq Ids(R.def)
      /\ DOMAIN S.out \subseteq DOMAIN S.trace
  BY <1>1, <1>3, <1>5
<1>9. \A n \in DOMAIN R.trace \cup R.batch \cup Range(R.queue) : Cut(S, n) <=> Cut(R, n)
  BY <1>1, <1>3, <1>6, <1>7, <1>8, CutSettled
<1>10. \A n \in DOMAIN S.trace : S.trace[n] = "skipped" <=> Cut(S, n)
  <2>1. \A n \in R.batch : S.trace[n] # "skipped" /\ ~ Cut(S, n)
    BY <1>1, <1>5, <1>9
  <2>2. \A n \in DOMAIN R.trace : S.trace[n] = "skipped" <=> Cut(S, n)
    BY <1>1, <1>5, <1>9
  <2> QED
    BY <1>1, <2>1, <2>2
<1>11. \A n \in Range(R.queue) : ~ Cut(S, n)
  BY <1>5, <1>9
<1>12. w + 1 \in Nat
  OBVIOUS
<1> HIDE DEF bad, good
<1>13. CASE S.phase = "wave"
  <2>1. DOMAIN S.trace = FirstWaves(S.def, w + 1)
    BY <1>1, <1>2, <1>6, <1>13
  <2> QED
    BY <1>1, <1>2, <1>8, <1>10, <1>12, <1>13, <2>1 DEF Waves
<1>14. CASE S.phase = "batch"
  <2>1. DOMAIN S.trace \cup S.batch \cup Range(S.queue) = FirstWaves(S.def, w + 1)
    BY <1>1, <1>2, <1>6, <1>14
  <2>2. FirstWaves(S.def, w) \subseteq DOMAIN S.trace
    BY <1>1, <1>6
  <2>3. \A n \in S.batch \cup Range(S.queue) : ~ Cut(S, n)
    BY <1>2, <1>11, <1>14
  <2> QED
    BY <1>8, <1>10, <1>14, <2>1, <2>2, <2>3 DEF Waves
<1> QED
  BY <1>1, <1>13, <1>14

\* Every way a run moves keeps the meaning of its traces.
LEMMA WavesMove ==
    ASSUME NEW R, NEW S, IsRun(R), RunShape(R), Verdict(R), Waves(R), Moves(R, S)
    PROVE  Waves(S)
<1>1. CASE R.phase = "idle" /\ Started(S)
  <2>1. FirstWaves(S.def, 0) = {}
    <3>1. \A n \in Ids(S.def) : Level(S.def)[n] \in Nat \ {0}
      BY <1>1, LevelFacts DEF Accepted, Started
    <3> QED
      BY <3>1 DEF FirstWaves
  <2>2. /\ S.phase = "wave" /\ DOMAIN S.trace = {} /\ DOMAIN S.out = {}
        /\ S.batch = {} /\ Range(S.queue) = {}
    BY <1>1 DEF Started, NoBatch, Range
  <2>3. 0 \in Nat
    OBVIOUS
  <2> QED
    BY <2>1, <2>2, <2>3 DEF Waves
<1>2. CASE R.phase = "wave" /\ ExpireStep(R, S)
  BY <1>2 DEF ExpireStep, Waves
<1>3. CASE PhaseStep(R, S) /\ \/ R.phase \in {"wave", "ended"} /\ S.phase \in Over
                              \/ S.phase = "crashed"
  <2>1. S.phase # "wave" /\ S.phase # "batch"
    BY <1>3 DEF Over
  <2>2. \A n : Cut(S, n) <=> Cut(R, n)
    BY <1>3 DEF PhaseStep, Kept, Cut, Earlier
  <2> QED
    BY <1>3, <2>1, <2>2 DEF PhaseStep, Kept, Waves, Over
<1>4. CASE R.phase = "batch" /\ Trying(R, S)
  <2>1. \A n : Cut(S, n) <=> Cut(R, n)
    BY <1>4 DEF Trying, Kept, Cut, Earlier
  <2> QED
    BY <1>4, <2>1 DEF Trying, Kept, Waves
<1> QED
  BY <1>1, <1>2, <1>3, <1>4, WavesWave, WavesEnd DEF Moves, Quiet, Live, Over

\* No run has traces at the start.
LEMMA WavesInit == Init => WavesInv
BY NoRunType DEF Init, WavesInv, Waves, Over

\* Every step keeps the meaning of the traces.
LEMMA WavesNext ==
    TypeInv /\ VerdictInv /\ WavesInv /\ [Next]_vars => WavesInv'
<1> SUFFICES ASSUME TypeInv, VerdictInv, WavesInv, [Next]_vars, NEW t \in Runs
             PROVE  Waves(run'[t])
  BY DEF WavesInv, Waves, Cut, Earlier
<1>1. IsRun(run[t]) /\ RunShape(run[t]) /\ Verdict(run[t]) /\ Waves(run[t])
  BY DEF TypeInv, VerdictInv, WavesInv
<1> PICK S : S = run'[t]
  OBVIOUS
<1>2. S = run[t] \/ Moves(run[t], S)
  BY RunsMove
<1>3. Waves(S)
  BY <1>1, <1>2, WavesMove
<1> QED
  BY <1>3

\* The traces of a finished run that did not fail are those the graph
\* prescribes, in whatever order its nodes ended (DecisionGraphRuntime.run).
THEOREM TracesMeanGraph == Spec => []TraceMeaning
<1>1. TypeInv /\ WavesInv => TraceMeaning
  <2> SUFFICES ASSUME TypeInv, WavesInv, NEW r \in Runs, run[r].phase \in Over, ~ run[r].failed
               PROVE  LET R == run[r]
                          level == Level(R.def)
                          Before(n) == [m \in {m \in DOMAIN R.out : level[m] < level[n]}
                                          |-> R.out[m]]
                      IN  /\ Traced(r) = Ids(R.def)
                          /\ \A n \in Ids(R.def) :
                               (R.trace[n] = "skipped") <=>
                                  /\ Parents(R.def, n) # {}
                                  /\ ~ \E e \in Incoming(R.def, n) :
                                         /\ R.trace[e.source] = "completed"
                                         /\ EdgeHolds(e, Before(n))
    BY DEF TraceMeaning
  <2>1. DOMAIN run[r].trace = Ids(run[r].def)
    BY DEF TypeInv, RunShape, Over
  <2>2. \A n \in Ids(run[r].def) : run[r].trace[n] = "skipped" <=> Cut(run[r], n)
    BY <2>1 DEF WavesInv, Waves
  <2> QED
    BY <2>1, <2>2 DEF Cut, Earlier, Traced
<1> QED
  BY <1>1, TypeInit, TypeNext, VerdictInit, VerdictNext, WavesInit, WavesNext, PTL DEF Spec
===============================================================================
