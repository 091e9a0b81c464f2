--------------------------- MODULE TemporalCSRProofs ---------------------------
(***************************************************************************)
(* TemporalCSR, proved for any graph, rows, node lists, hops and times:    *)
(* the index partitions exactly the rows of the table, khop and            *)
(* neighbors_record_batch return what the table alone says, and a query    *)
(* fails exactly when it has to expand an id that is no node.              *)
(***************************************************************************)
EXTENDS TemporalCSR, FiniteSetTheorems, TLAPS

\* The queries that can be asked.
QueryOK ==
    query \in [op : {"none", "khop", "batch"}, nodes : Seq(Nat), k : 0..MaxHops, at : Int]

\* Until the sort the rows are the source column of what was handed over, and
\* nothing has been counted.
Loading ==
    /\ given \in Inputs(Len(table))
    /\ phase \in {"construct", "validate"} => rows = SubSeq(table, 1, given.src)
    /\ phase \in {"construct", "validate", "sort"} =>
          offsets = [s \in 0..NodeCount |-> 0] /\ i = 0

\* Rows that passed the checks are the table's, each as often, and their sources
\* are nodes.
Checked ==
    phase \in {"sort", "count", "prefix"} \/ Indexed =>
        /\ Len(rows) = Len(table)
        /\ \A p \in DOMAIN rows : rows[p].src < NodeCount
        /\ \A r \in Rows : Cardinality({p \in DOMAIN rows : rows[p] = r})
                              = Cardinality({p \in DOMAIN table : table[p] = r})

\* The rows the loops over them count are in the order of their sources.
Sorted ==
    phase \in {"count", "prefix"} =>
        \A j, l \in DOMAIN rows : j < l => rows[j].src <= rows[l].src

\* The rows of a source among the first n, and the rows of all sources before one.
OfSource(s, n) == {p \in 1..n : rows[p].src = s}
Before(s)      == {p \in DOMAIN rows : rows[p].src < s}

\* The counting loop, after i rows: offsets[s + 1] is the number of them with
\* source s.
Counting ==
    phase = "count" =>
        /\ i <= Len(rows) /\ offsets[0] = 0
        /\ \A s \in 0..(NodeCount - 1) : offsets[s + 1] = Cardinality(OfSource(s, i))

\* The summing loop: up to i the offsets are final, after it they are counts.
Summing ==
    phase = "prefix" =>
        /\ i <= NodeCount
        /\ \A s \in 0..i : offsets[s] = Cardinality(Before(s))
        /\ \A s \in i..(NodeCount - 1) : offsets[s + 1] = Cardinality(OfSource(s, Len(rows)))

\* There is no query while the index is built, and between queries.
Unasked ==
    ~(phase \in {"hop", "batch", "answered", "failed"}) =>
        /\ query = NoQuery /\ frontiers = <<>> /\ batch = <<>>
        /\ phase = "ready" => i = 0

\* The nodes hop h starts from.
Origin(h) == IF h = 1 THEN Seeds ELSE frontiers[h - 1]

\* khop has expanded nodes only, as far as it has come, and stops where it must.
Hopping ==
    query.op = "khop" =>
        /\ phase \in {"hop", "answered", "failed"} /\ Len(frontiers) <= query.k
        /\ \A h \in DOMAIN frontiers : \A s \in Origin(h) : s < NodeCount
        /\ phase = "answered" => Len(frontiers) = query.k
        /\ phase = "failed" => /\ Len(frontiers) < query.k
                               /\ \E s \in Current : s >= NodeCount

\* So has neighbors_record_batch.
Batching ==
    query.op = "batch" =>
        /\ phase \in {"batch", "answered", "failed"} /\ i <= Len(query.nodes)
        /\ query.k = 0 /\ frontiers = <<>>
        /\ \A j \in 1..i : query.nodes[j] < NodeCount
        /\ phase = "answered" => i = Len(query.nodes)
        /\ phase = "failed" => i < Len(query.nodes) /\ query.nodes[i + 1] >= NodeCount

\* Which query each phase answers.
Asking ==
    phase \in {"hop", "batch", "answered", "failed"} =>
        /\ query.op \in {"khop", "batch"}
        /\ phase = "hop" => query.op = "khop"
        /\ phase = "batch" => query.op = "batch"

Build   == Loading /\ Checked /\ Sorted /\ Counting /\ Summing
Queries == QueryOK /\ Unasked /\ Hopping /\ Batching /\ Asking

Inv == TypeOK /\ Build /\ OffsetsPartition /\ Queries /\ FrontiersExact /\ BatchExact

--------------------------------------------------------------------------------
\* A non-empty set of natural numbers has a least element: the least of the
\* intervals 0..n by inclusion.
LEMMA LeastNatural ==
    ASSUME NEW T \in SUBSET Nat, T # {}
    PROVE  \E m \in T : \A k \in T : m <= k
<1> DEFINE F == {0..n : n \in T}
<1>1. F \subseteq FiniteSubsetsOf(Nat)
  <2> SUFFICES ASSUME NEW n \in T PROVE 0..n \in SUBSET Nat /\ IsFiniteSet(0..n)
    BY DEF FiniteSubsetsOf
  <2> QED BY FS_Interval
<1>2. F # {}
  OBVIOUS
<1>3. PICK x \in F : \A y \in F : ~(<<y, x>> \in StrictSubsetOrdering(Nat))
  <2> HIDE DEF F
  <2> QED BY <1>1, <1>2, FS_StrictSubsetOrderingWellFounded, WFMin
<1>4. PICK m \in T : x = 0..m
  OBVIOUS
<1>5. ASSUME NEW k \in T, k < m PROVE FALSE
  <2>1. 0..k \in F /\ 0..k \subseteq x /\ 0..k # x
    <3>1. m \in x /\ m \notin 0..k
      BY <1>4, <1>5
    <3> QED BY <1>4, <1>5, <3>1
  <2>2. <<0..k, x>> \in StrictSubsetOrdering(Nat)
    BY <2>1, <1>4 DEF StrictSubsetOrdering
  <2> QED BY <1>3, <2>1, <2>2
<1> QED BY <1>5

\* Positions 1..n a prefix of them is closed under are that prefix.
LEMMA PrefixSet ==
    ASSUME NEW n \in Nat, NEW D \in SUBSET (1..n),
           \A p \in D : \A q \in 1..n : q <= p => q \in D
    PROVE  D = 1..Cardinality(D)
<1> DEFINE Missing == {p \in 1..(n + 1) : p \notin D}
<1>1. Missing \in SUBSET Nat /\ Missing # {}
  <2>1. n + 1 \in Missing
    OBVIOUS
  <2> QED BY <2>1
<1>2. PICK m \in Missing : \A k \in Missing : m <= k
  <2> HIDE DEF Missing
  <2> QED BY <1>1, LeastNatural
<1>3. D = 1..(m - 1)
  <2>1. m \in 1..(n + 1) /\ m \notin D
    OBVIOUS
  <2>2. \A p \in D : p \in 1..(m - 1)
    BY <2>1
  <2>3. \A p \in 1..(m - 1) : p \in D
    BY <1>2, <2>1
  <2> QED BY <2>2, <2>3
<1>4. Cardinality(1..(m - 1)) = m - 1
  BY <1>1, FS_Interval
<1> QED BY <1>3, <1>4

\* The place of a position of P: how many of P do not come after it.
Place(P) == [p \in P |-> Cardinality({q \in P : q <= p})]

\* Places are distinct, and are the numbers up to the size of P.
LEMMA PlaceNumbers ==
    ASSUME NEW n \in Nat, NEW P \in SUBSET (1..n)
    PROVE  /\ IsFiniteSet(P) /\ Cardinality(P) \in Nat
           /\ Place(P) \in Injection(P, 1..Cardinality(P))
           /\ Place(P) \in Surjection(P, 1..Cardinality(P))
<1> DEFINE Upto(p) == {q \in P : q <= p}
           T == 1..Cardinality(P)
<1>1. IsFiniteSet(P) /\ Cardinality(P) \in Nat
  <2>1. IsFiniteSet(1..n)
    BY FS_Interval
  <2> QED BY <2>1, FS_Subset, FS_CardinalityType
<1>2. ASSUME NEW p \in P PROVE IsFiniteSet(Upto(p)) /\ Cardinality(Upto(p)) \in T
  <2>1. Upto(p) \in SUBSET P /\ p \in Upto(p)
    OBVIOUS
  <2> HIDE DEF Upto
  <2>2. IsFiniteSet(Upto(p)) /\ Cardinality(Upto(p)) <= Cardinality(P)
    BY <1>1, <2>1, FS_Subset
  <2>3. Cardinality(Upto(p)) \in Nat /\ Cardinality(Upto(p)) # 0
    BY <2>1, <2>2, FS_CardinalityType, FS_EmptySet
  <2> QED BY <1>1, <2>2, <2>3
<1>3. ASSUME NEW p \in P, NEW q \in P, p < q PROVE Cardinality(Upto(p)) # Cardinality(Upto(q))
  <2>1. Upto(p) \in SUBSET Upto(q) /\ q \in Upto(q) /\ q \notin Upto(p)
    <3>1. p \in Int /\ q \in Int /\ \A x \in P : x \in Int
      OBVIOUS
    <3>2. \A x \in P : x <= p => x <= q
      BY <1>3, <3>1
    <3>3. q <= q /\ ~(q <= p)
      BY <1>3, <3>1
    <3> QED BY <3>2, <3>3
  <2> HIDE DEF Upto
  <2> QED BY <1>2, <2>1, FS_Subset
<1>4. Place(P) \in Injection(P, T)
  <2>1. Place(P) = [p \in P |-> Cardinality(Upto(p))]
    BY DEF Place
  <2>2. ASSUME NEW p \in P, NEW q \in P, p # q PROVE Cardinality(Upto(p)) # Cardinality(Upto(q))
    <3>1. CASE p < q
      BY <1>3, <3>1
    <3>2. CASE q < p
      <4>1. Cardinality(Upto(q)) # Cardinality(Upto(p))
        BY <1>3, <3>2
      <4> QED BY <4>1
    <3>3. p \in Int /\ q \in Int
      OBVIOUS
    <3> QED BY <2>2, <3>1, <3>2, <3>3
  <2> HIDE DEF Upto
  <2> QED BY <1>2, <2>1, <2>2 DEF Injection, IsInjective
<1>5. IsFiniteSet(T) /\ Cardinality(T) = Cardinality(P)
  BY <1>1, FS_Interval
<1>6. Place(P) \in Surjection(P, T)
  <2> HIDE DEF T
  <2> QED BY <1>4, <1>5, FS_Injection
<1> QED BY <1>1, <1>4, <1>6

\* The rows at the positions P: all of them, and no other.
LEMMA RowsAtIs ==
    ASSUME rows \in Seq(Rows), NEW P \in SUBSET (DOMAIN rows)
    PROVE  /\ RowsAt(P) \in Seq(Rows)
           /\ {RowsAt(P)[j] : j \in DOMAIN RowsAt(P)} = {rows[p] : p \in P}
<1> DEFINE n == Len(rows)
           T == 1..Cardinality(P)
           f == Place(P)
           At(j) == CHOOSE p \in P : Cardinality({q \in P : q <= p}) = j
<1>1. n \in Nat /\ P \in SUBSET (1..n) /\ \A p \in P : rows[p] \in Rows
  OBVIOUS
<1>2. Cardinality(P) \in Nat /\ f \in Injection(P, T) /\ f \in Surjection(P, T)
  <2> HIDE DEF n
  <2> QED BY <1>1, PlaceNumbers
<1>3. RowsAt(P) = [j \in T |-> rows[At(j)]]
  BY DEF RowsAt
<1>4. f \in [P -> T] /\ (\A p, q \in P : f[p] = f[q] => p = q) /\ \A j \in T : \E p \in P : f[p] = j
  <2> HIDE DEF f, T
  <2> QED BY <1>2 DEF Injection, IsInjective, Surjection
<1>5. \A j \in T : At(j) \in P /\ f[At(j)] = j
  <2>1. \A p \in P : f[p] = Cardinality({q \in P : q <= p})
    BY DEF Place
  <2> HIDE DEF f, T
  <2> QED BY <1>4, <2>1
<1> HIDE DEF f, T, At
<1>6. \A p \in P : At(f[p]) = p /\ f[p] \in T
  BY <1>4, <1>5
<1>7. RowsAt(P) \in Seq(Rows)
  <2>1. RowsAt(P) \in [1..Cardinality(P) -> Rows]
    BY <1>1, <1>3, <1>5 DEF T
  <2> QED BY <1>2, <2>1
<1>8. {RowsAt(P)[j] : j \in DOMAIN RowsAt(P)} = {rows[p] : p \in P}
  BY <1>3, <1>5, <1>6
<1> QED BY <1>7, <1>8

--------------------------------------------------------------------------------
\* The recursion that counts edges from the seeds is well founded.
LEMMA ReachUnfolds ==
    \A n \in 0..MaxHops : Reach[n] = IF n = 0 THEN Seeds ELSE Step(Reach[n - 1], query.at)
<1> DEFINE Of(g, n) == IF n = 0 THEN Seeds ELSE Step(g[n - 1], query.at)
           Bad == {m \in 0..MaxHops : ~\E g : g = [n \in 0..m |-> Of(g, n)]}
<1>0. MaxHops \in Nat
  BY CSRAssumption
<1>1. ASSUME Bad # {} PROVE FALSE
  <2>1. Bad \in SUBSET Nat
    OBVIOUS
  <2>2. PICK m \in Bad : \A j \in Bad : m <= j
    <3> HIDE DEF Bad
    <3> QED BY <1>1, <2>1, LeastNatural
  <2>3. m \in 0..MaxHops /\ ~\E g : g = [n \in 0..m |-> Of(g, n)]
    OBVIOUS
  <2>4. CASE m = 0
    <3> DEFINE g == [n \in 0..0 |-> Seeds]
    <3>1. g = [n \in 0..0 |-> Of(g, n)]
      OBVIOUS
    <3> HIDE DEF g
    <3> QED BY <2>3, <2>4, <3>1
  <2>5. CASE m # 0
    <3>1. m - 1 \in 0..MaxHops /\ ~(m <= m - 1)
      BY <1>0, <2>3, <2>5
    <3>2. m - 1 \notin Bad
      <4> HIDE DEF Bad
      <4> QED BY <2>2, <3>1
    <3>3. PICK g : g = [n \in 0..(m - 1) |-> Of(g, n)]
      BY <3>1, <3>2
    <3> DEFINE f == [n \in 0..m |-> Of(g, n)]
    <3>4. ASSUME NEW n \in 0..m PROVE Of(g, n) = Of(f, n)
      <4>1. CASE n = 0
        BY <4>1
      <4>2. CASE n # 0
        <5>1. n - 1 \in 0..(m - 1) /\ n - 1 \in 0..m
          BY <2>3, <4>2
        <5>2. g[n - 1] = Of(g, n - 1)
          <6> HIDE DEF Of
          <6> QED BY <3>3, <5>1
        <5>3. f[n - 1] = Of(g, n - 1)
          <6> HIDE DEF Of
          <6> QED BY <5>1
        <5> HIDE DEF f
        <5> QED BY <4>2, <5>2, <5>3
      <4> QED BY <4>1, <4>2
    <3>5. f = [n \in 0..m |-> Of(f, n)]
      <4> HIDE DEF Of
      <4>1. [n \in 0..m |-> Of(g, n)] = [n \in 0..m |-> Of(f, n)]
        BY <3>4
      <4> QED BY <4>1
    <3> HIDE DEF f, Of
    <3> QED BY <2>3, <3>5
  <2> QED BY <2>4, <2>5
<1>2. \E g : g = [n \in 0..MaxHops |-> Of(g, n)]
  <2>1. MaxHops \in 0..MaxHops
    BY <1>0
  <2> QED BY <1>1, <2>1
<1>3. Reach = CHOOSE g : g = [n \in 0..MaxHops |-> Of(g, n)]
  BY DEF Reach
<1>4. Reach = [n \in 0..MaxHops |-> Of(Reach, n)]
  <2> HIDE DEF Of
  <2> QED BY <1>2, <1>3
<1>5. \A n \in 0..MaxHops : Reach[n] = Of(Reach, n)
  <2> HIDE DEF Of
  <2> QED BY <1>4
<1> QED BY <1>5

\* The active rows of the n-th source asked for.
Wanted(n) == {p \in DOMAIN rows : rows[p].src = query.nodes[n] /\ Live(rows[p], query.at)}

\* So is the one over the sources of a batch.
LEMMA CollectedUnfolds ==
    ASSUME QueryOK
    PROVE  \A n \in 0..Len(query.nodes) : Collected[n] = IF n = 0 THEN <<>> ELSE Collected[n - 1] \o RowsAt(Wanted(n))
<1> DEFINE Of(g, n) == IF n = 0 THEN <<>> ELSE g[n - 1] \o RowsAt(Wanted(n))
           Bad == {m \in 0..Len(query.nodes) : ~\E g : g = [n \in 0..m |-> Of(g, n)]}
<1>0. Len(query.nodes) \in Nat
  BY DEF QueryOK
<1>1. ASSUME Bad # {} PROVE FALSE
  <2>1. Bad \in SUBSET Nat
    OBVIOUS
  <2>2. PICK m \in Bad : \A j \in Bad : m <= j
    <3> HIDE DEF Bad
    <3> QED BY <1>1, <2>1, LeastNatural
  <2>3. m \in 0..Len(query.nodes) /\ ~\E g : g = [n \in 0..m |-> Of(g, n)]
    OBVIOUS
  <2>4. CASE m = 0
    <3> DEFINE g == [n \in 0..0 |-> <<>>]
    <3>1. g = [n \in 0..0 |-> Of(g, n)]
      OBVIOUS
    <3> HIDE DEF g
    <3> QED BY <2>3, <2>4, <3>1
  <2>5. CASE m # 0
    <3>1. m - 1 \in 0..Len(query.nodes) /\ ~(m <= m - 1)
      BY <1>0, <2>3, <2>5
    <3>2. m - 1 \notin Bad
      <4> HIDE DEF Bad
      <4> QED BY <2>2, <3>1
    <3>3. PICK g : g = [n \in 0..(m - 1) |-> Of(g, n)]
      BY <3>1, <3>2
    <3> DEFINE f == [n \in 0..m |-> Of(g, n)]
    <3>4. ASSUME NEW n \in 0..m PROVE Of(g, n) = Of(f, n)
      <4>1. CASE n = 0
        BY <4>1
      <4>2. CASE n # 0
        <5>1. n - 1 \in 0..(m - 1) /\ n - 1 \in 0..m
          BY <2>3, <4>2
        <5>2. g[n - 1] = Of(g, n - 1)
          <6> HIDE DEF Of
          <6> QED BY <3>3, <5>1
        <5>3. f[n - 1] = Of(g, n - 1)
          <6> HIDE DEF Of
          <6> QED BY <5>1
        <5> HIDE DEF f
        <5> QED BY <4>2, <5>2, <5>3
      <4> QED BY <4>1, <4>2
    <3>5. f = [n \in 0..m |-> Of(f, n)]
      <4> HIDE DEF Of
      <4>1. [n \in 0..m |-> Of(g, n)] = [n \in 0..m |-> Of(f, n)]
        BY <3>4
      <4> QED BY <4>1
    <3> HIDE DEF f, Of
    <3> QED BY <2>3, <3>5
  <2> QED BY <2>4, <2>5
<1>2. \E g : g = [n \in 0..Len(query.nodes) |-> Of(g, n)]
  <2>1. Len(query.nodes) \in 0..Len(query.nodes)
    BY <1>0
  <2> QED BY <1>1, <2>1
<1>3. Collected = CHOOSE g : g = [n \in 0..Len(query.nodes) |-> Of(g, n)]
  BY DEF Collected, Wanted
<1>4. Collected = [n \in 0..Len(query.nodes) |-> Of(Collected, n)]
  <2> HIDE DEF Of
  <2> QED BY <1>2, <1>3
<1>5. \A n \in 0..Len(query.nodes) : Collected[n] = Of(Collected, n)
  <2> HIDE DEF Of
  <2> QED BY <1>4
<1> QED BY <1>5

--------------------------------------------------------------------------------
\* The columns of a row are numbers.
LEMMA RowFields ==
    ASSUME NEW r \in Rows
    PROVE  r.src \in Nat /\ r.dst \in Nat /\ r.from \in Int /\ r.to \in Int
BY CSRAssumption

\* sort_unstable_by_key: whatever it does with rows of equal keys, the same rows
\* come out, each as often, in the order of their sources.
LEMMA SortEffect ==
    ASSUME rows \in Seq(Rows), NEW v \in UnstableSorts(rows)
    PROVE  /\ v \in Seq(Rows) /\ Len(v) = Len(rows)
           /\ \A p \in DOMAIN v : \E q \in DOMAIN rows : v[p] = rows[q]
           /\ \A j, l \in DOMAIN v : j < l => v[j].src <= v[l].src
           /\ \A r \in Rows : Cardinality({p \in DOMAIN v : v[p] = r})
                                = Cardinality({p \in DOMAIN rows : rows[p] = r})
<1> DEFINE n == Len(rows)
           D == 1..n
<1>0. n \in Nat /\ DOMAIN rows = D /\ \A p \in D : rows[p] \in Rows
  OBVIOUS
<1>1. PICK q \in [D -> D] :
          /\ v = [j \in D |-> rows[q[j]]]
          /\ Permutes(q, n)
          /\ \A j, l \in D : j < l => ~KeyBefore(rows[q[l]], rows[q[j]])
  BY <1>0 DEF UnstableSorts
<1>2. v \in Seq(Rows) /\ Len(v) = n /\ DOMAIN v = D
  <2>1. v \in [1..n -> Rows]
    BY <1>0, <1>1
  <2> QED BY <1>0, <2>1
<1>3. \A j \in D : v[j] = rows[q[j]] /\ q[j] \in D
  BY <1>1
<1>4. IsFiniteSet(D)
  BY <1>0, FS_Interval
<1>5. \A j \in D : \E l \in D : q[l] = j
  BY <1>1 DEF Permutes
<1> HIDE DEF D, n
<1>6. q \in Surjection(D, D)
  BY <1>1, <1>5 DEF Surjection
<1>7. \A j, l \in D : q[j] = q[l] => j = l
  <2>1. q \in Injection(D, D)
    BY <1>4, <1>6, FS_SurjSameCardinalityImpliesInj
  <2> QED BY <2>1 DEF Injection, IsInjective
<1>8. \A j, l \in D : j < l => v[j].src <= v[l].src
  <2> SUFFICES ASSUME NEW j \in D, NEW l \in D, j < l PROVE v[j].src <= v[l].src
    OBVIOUS
  <2>1. v[j].src \in Nat /\ v[l].src \in Nat
    BY <1>0, <1>3, RowFields
  <2>2. ~(v[l].src < v[j].src)
    BY <1>1, <1>3 DEF KeyBefore
  <2> QED BY <2>1, <2>2
<1>9. ASSUME NEW r \in Rows
      PROVE  Cardinality({p \in D : v[p] = r}) = Cardinality({p \in D : rows[p] = r})
  <2> DEFINE A == {p \in D : v[p] = r}
             B == {p \in D : rows[p] = r}
             f == [p \in A |-> q[p]]
  <2>1. f \in [A -> B] /\ (\A x, y \in A : f[x] = f[y] => x = y) /\ \A b \in B : \E a \in A : f[a] = b
    BY <1>3, <1>5, <1>7
  <2>2. IsFiniteSet(A)
    BY <1>4, FS_Subset
  <2> HIDE DEF A, B, f
  <2>3. f \in Bijection(A, B)
    BY <2>1 DEF Bijection, Injection, IsInjective, Surjection
  <2>4. ExistsBijection(A, B)
    BY <2>3 DEF ExistsBijection
  <2>5. Cardinality(A) = Cardinality(B)
    BY <2>2, <2>4, FS_Bijection
  <2> QED BY <2>5 DEF A, B
<1> QED BY <1>0, <1>2, <1>3, <1>8, <1>9 DEF n

\* Sets of positions are finite.
LEMMA Positions ==
    ASSUME NEW n \in Nat, NEW P \in SUBSET (1..n)
    PROVE  IsFiniteSet(P) /\ Cardinality(P) \in Nat
<1>1. IsFiniteSet(1..n)
  BY FS_Interval
<1> QED BY <1>1, FS_Subset, FS_CardinalityType

\* In sorted rows the sources before s come first, so that the run of s is what
\* lies between two sums.
LEMMA RunOfSource ==
    ASSUME rows \in Seq(Rows), NEW s \in Nat,
           \A j, l \in DOMAIN rows : j < l => rows[j].src <= rows[l].src
    PROVE  /\ Before(s) = 1..Cardinality(Before(s))
           /\ Cardinality(Before(s + 1)) = Cardinality(Before(s)) + Cardinality(OfSource(s, Len(rows)))
           /\ {p \in DOMAIN rows : rows[p].src = s}
                = (Cardinality(Before(s)) + 1)..Cardinality(Before(s + 1))
<1> DEFINE n == Len(rows)
           Of == OfSource(s, n)
<1>0. n \in Nat /\ DOMAIN rows = 1..n /\ \A p \in 1..n : rows[p].src \in Nat
  <2>1. n \in Nat /\ DOMAIN rows = 1..n /\ \A p \in 1..n : rows[p] \in Rows
    OBVIOUS
  <2> QED BY <2>1, RowFields
<1>1. \A t \in Nat : Before(t) = 1..Cardinality(Before(t))
  <2> SUFFICES ASSUME NEW t \in Nat PROVE Before(t) = 1..Cardinality(Before(t))
    OBVIOUS
  <2>1. Before(t) \in SUBSET (1..n)
    BY <1>0 DEF Before
  <2>2. ASSUME NEW p \in Before(t), NEW q \in 1..n, q <= p PROVE q \in Before(t)
    <3>1. p \in 1..n /\ rows[p].src < t
      BY <1>0 DEF Before
    <3>2. rows[q].src <= rows[p].src
      BY <1>0, <2>2, <3>1
    <3> HIDE DEF n
    <3>3. rows[q].src < t
      BY <1>0, <3>1, <3>2
    <3> QED BY <1>0, <3>3 DEF Before
  <2> HIDE DEF n
  <2> QED BY <1>0, <2>1, <2>2, PrefixSet
<1>2. /\ Before(s + 1) = Before(s) \cup Of /\ Before(s) \cap Of = {}
      /\ Of = {p \in DOMAIN rows : rows[p].src = s}
      /\ Before(s) \in SUBSET (1..n) /\ Of \in SUBSET (1..n) /\ Before(s + 1) \in SUBSET (1..n)
  BY <1>0 DEF Before, OfSource
<1> HIDE DEF n, Of
<1>3. /\ IsFiniteSet(Before(s)) /\ Cardinality(Before(s)) \in Nat /\ IsFiniteSet(Of) /\ Cardinality(Of) \in Nat
      /\ Cardinality(Before(s + 1)) \in Nat
  BY <1>0, <1>2, Positions
<1>4. Cardinality(Before(s + 1)) = Cardinality(Before(s)) + Cardinality(Of)
  <2>1. Cardinality({}) = 0
    BY FS_EmptySet
  <2>2. Cardinality(Before(s + 1)) = Cardinality(Before(s)) + Cardinality(Of) - Cardinality({})
    BY <1>2, <1>3, FS_Union
  <2> QED BY <1>3, <2>1, <2>2
<1>5. Of = (Cardinality(Before(s)) + 1)..Cardinality(Before(s + 1))
  <2> DEFINE a == Cardinality(Before(s))
             b == Cardinality(Before(s + 1))
  <2>1. a \in Nat /\ b \in Nat /\ Before(s) = 1..a /\ Before(s + 1) = 1..b
    BY <1>1, <1>3
  <2> HIDE DEF a, b
  <2>2. Of = (1..b) \ (1..a)
    BY <1>2, <2>1
  <2>3. Of = (a + 1)..b
    BY <2>1, <2>2
  <2> QED BY <2>3 DEF a, b
<1> QED BY <1>1, <1>2, <1>4, <1>5 DEF n, Of

--------------------------------------------------------------------------------
\* The columns of a table, whichever way they are handed over.
LEMMA InitInv == Init => Inv
<1> SUFFICES ASSUME Init PROVE Inv
  OBVIOUS
<1>0. NodeCount \in Nat /\ MaxHops \in Nat
  BY CSRAssumption
<1>1. table \in Seq(Rows) /\ Len(table) \in Nat
  <2>1. PICK n \in 0..MaxRows : table \in [1..n -> Rows]
    BY DEF Init
  <2>2. n \in Nat
    BY CSRAssumption
  <2> QED BY <2>1, <2>2
<1>2. /\ given \in Inputs(Len(table)) /\ given.src \in Nat /\ given.others \in Nat
      /\ given.src <= Len(table)
  <2>1. given \in Inputs(Len(table))
    BY DEF Init
  <2> QED BY <1>1, <2>1 DEF Inputs
<1>3. rows = SubSeq(table, 1, given.src) /\ rows \in Seq(Rows)
  BY <1>1, <1>2 DEF Init
<1>4. /\ phase = "construct" /\ i = 0 /\ offsets = [s \in 0..NodeCount |-> 0]
      /\ query = NoQuery /\ frontiers = <<>> /\ batch = <<>>
  BY DEF Init
<1>5. QueryOK
  BY <1>0, <1>4 DEF QueryOK, NoQuery
<1>6. TypeOK
  BY <1>0, <1>1, <1>2, <1>3, <1>4, <1>5 DEF TypeOK, QueryOK
<1>7. Build /\ OffsetsPartition
  BY <1>2, <1>3, <1>4
     DEF Build, Loading, Checked, Sorted, Counting, Summing, OffsetsPartition, Indexed
<1>8. Queries /\ FrontiersExact /\ BatchExact
  BY <1>4, <1>5
     DEF Queries, Unasked, Hopping, Batching, Asking, FrontiersExact, BatchExact, NoQuery
<1> QED BY <1>6, <1>7, <1>8 DEF Inv

\* A query is in progress, or has just ended.
Asked == phase \in {"hop", "batch", "answered", "failed"}

\* Building the index asks nothing.
LEMMA NothingAsked ==
    ASSUME Inv, ~Asked, ~Asked', UNCHANGED answer, phase' = "ready" => i' = 0
    PROVE  Queries' /\ FrontiersExact' /\ BatchExact'
<1>1. query = NoQuery /\ frontiers = <<>> /\ batch = <<>> /\ QueryOK
  BY DEF Inv, Queries, Unasked, Asked
<1>2. query' = NoQuery /\ frontiers' = <<>> /\ batch' = <<>> /\ QueryOK'
  BY <1>1 DEF answer, QueryOK
<1> QED BY <1>2
      DEF Queries, Unasked, Hopping, Batching, Asking, FrontiersExact, BatchExact, NoQuery, Asked

\* The constructors.
LEMMA ConstructKeeps ==
    ASSUME Inv, NEW way, NEW refused, Construct(way, refused)
    PROVE  Inv'
<1>1. /\ phase = "construct" /\ phase' \in {"rejected", "validate"}
      /\ UNCHANGED <<given, table, rows, offsets, i, answer>>
  BY DEF Construct, index
<1>2. UNCHANGED <<query, frontiers, batch>>
  BY <1>1 DEF answer
<1>3. Queries' /\ FrontiersExact' /\ BatchExact'
  BY <1>1, NothingAsked DEF Asked
<1>4. TypeOK'
  BY <1>1, <1>2 DEF Inv, TypeOK
<1>5. Build' /\ OffsetsPartition'
  BY <1>1 DEF Inv, Build, Loading, Checked, Sorted, Counting, Summing, OffsetsPartition, Indexed
<1> QED BY <1>3, <1>4, <1>5 DEF Inv

\* The checks of from_arrays: columns of one length are the whole table.
LEMMA ValidateKeeps ==
    ASSUME Inv, Validate
    PROVE  Inv'
<1>1. /\ phase = "validate"
      /\ phase' = IF Mismatched \/ \E j \in DOMAIN rows : rows[j].src >= NodeCount
                  THEN "rejected" ELSE "sort"
      /\ UNCHANGED <<given, table, rows, offsets, i, answer>>
  BY DEF Validate, index
<1>2. UNCHANGED <<query, frontiers, batch>>
  BY <1>1 DEF answer
<1>3. Queries' /\ FrontiersExact' /\ BatchExact'
  BY <1>1, NothingAsked DEF Asked
<1>4. TypeOK'
  BY <1>1, <1>2 DEF Inv, TypeOK
<1>5. Loading
  BY DEF Inv, Build
<1>6. ASSUME phase' = "sort"
      PROVE  rows = table /\ \A p \in DOMAIN rows : rows[p].src < NodeCount
  <2>1. ~Mismatched /\ ~\E j \in DOMAIN rows : rows[j].src >= NodeCount
    BY <1>1, <1>6
  <2>2. table \in Seq(Rows) /\ Len(table) \in Nat /\ rows \in Seq(Rows)
    BY DEF Inv, TypeOK
  <2>3. given.src = Len(table)
    BY <1>5, <2>1, <2>2 DEF Loading, Inputs, Mismatched
  <2>4. rows = table
    BY <1>1, <1>5, <2>2, <2>3 DEF Loading
  <2>5. \A p \in DOMAIN rows : rows[p].src \in Nat
    <3>1. \A p \in DOMAIN rows : rows[p] \in Rows
      BY <2>2
    <3> QED BY <3>1, RowFields
  <2>6. NodeCount \in Nat
    BY CSRAssumption
  <2> QED BY <2>1, <2>4, <2>5, <2>6
<1>7. Checked'
  <2>1. phase' # "sort" => phase' = "rejected"
    BY <1>1
  <2> QED BY <1>1, <1>6, <2>1 DEF Checked, Indexed
<1>8. Build' /\ OffsetsPartition'
  <2>1. phase' \in {"sort", "rejected"}
    BY <1>1
  <2> QED BY <1>1, <1>5, <1>7, <2>1 DEF Build, Loading, Sorted, Counting, Summing, OffsetsPartition, Indexed
<1> QED BY <1>3, <1>4, <1>8 DEF Inv

\* The sort.
LEMMA SortRowsKeeps ==
    ASSUME Inv, SortRows
    PROVE  Inv'
<1>1. /\ phase = "sort" /\ phase' = "count" /\ rows' \in UnstableSorts(rows)
      /\ UNCHANGED <<given, table, offsets, i, answer>>
  BY DEF SortRows
<1>2. UNCHANGED <<query, frontiers, batch>>
  BY <1>1 DEF answer
<1>3. Queries' /\ FrontiersExact' /\ BatchExact'
  BY <1>1, NothingAsked DEF Asked
<1>4. rows \in Seq(Rows) /\ TypeOK
  BY DEF Inv, TypeOK
<1>5. /\ rows' \in Seq(Rows) /\ Len(rows') = Len(rows)
      /\ \A p \in DOMAIN rows' : \E q \in DOMAIN rows : rows'[p] = rows[q]
      /\ \A j, l \in DOMAIN rows' : j < l => rows'[j].src <= rows'[l].src
      /\ \A r \in Rows : Cardinality({p \in DOMAIN rows' : rows'[p] = r})
                           = Cardinality({p \in DOMAIN rows : rows[p] = r})
  BY <1>1, <1>4, SortEffect
<1>6. TypeOK'
  BY <1>1, <1>2, <1>4, <1>5 DEF TypeOK
<1>7. Checked'
  <2>1. /\ Len(rows) = Len(table)
        /\ \A p \in DOMAIN rows : rows[p].src < NodeCount
        /\ \A r \in Rows : Cardinality({p \in DOMAIN rows : rows[p] = r})
                             = Cardinality({p \in DOMAIN table : table[p] = r})
    BY <1>1 DEF Inv, Build, Checked
  <2>2. \A p \in DOMAIN rows' : rows'[p].src < NodeCount
    BY <1>5, <2>1
  <2> QED BY <1>1, <1>5, <2>1, <2>2 DEF Checked
<1>8. Counting'
  <2>1. offsets = [s \in 0..NodeCount |-> 0] /\ i = 0 /\ NodeCount \in Nat
    BY <1>1, CSRAssumption DEF Inv, Build, Loading
  <2>2. \A s : {p \in 1..i' : rows'[p].src = s} = {}
    BY <1>1, <2>1
  <2>3. Cardinality({}) = 0
    BY FS_EmptySet
  <2>4. \A s \in 0..(NodeCount - 1) : offsets'[s + 1] = Cardinality({p \in 1..i' : rows'[p].src = s})
    BY <1>1, <2>1, <2>2, <2>3
  <2>5. i' <= Len(rows') /\ offsets'[0] = 0
    BY <1>1, <1>4, <1>5, <2>1
  <2> QED BY <2>4, <2>5 DEF Counting, OfSource
<1>9. Build' /\ OffsetsPartition'
  BY <1>1, <1>5, <1>7, <1>8 DEF Inv, Build, Loading, Sorted, Summing, OffsetsPartition, Indexed
<1> QED BY <1>3, <1>6, <1>9 DEF Inv

\* The counting loop: a row adds one to its own source's count and to no other.
LEMMA CountRowKeeps ==
    ASSUME Inv, CountRow
    PROVE  Inv'
<1> DEFINE n == Len(rows)
<1>0. /\ TypeOK /\ rows \in Seq(Rows) /\ n \in Nat /\ i \in Nat /\ NodeCount \in Nat
      /\ offsets \in [0..NodeCount -> Nat]
  BY CSRAssumption DEF Inv, TypeOK
<1>1. phase = "count" /\ UNCHANGED <<given, table, rows, answer>>
  BY DEF CountRow
<1>2. UNCHANGED <<query, frontiers, batch>>
  BY <1>1 DEF answer
<1>3. /\ i <= n /\ offsets[0] = 0
      /\ \A s \in 0..(NodeCount - 1) : offsets[s + 1] = Cardinality(OfSource(s, i))
  BY <1>1 DEF Inv, Build, Counting
<1>4. CASE i < n
  <2>1. /\ offsets' = [offsets EXCEPT ![rows[i + 1].src + 1] = @ + 1]
        /\ i' = i + 1 /\ phase' = "count"
    BY <1>1, <1>4 DEF CountRow
  <2>2. Queries' /\ FrontiersExact' /\ BatchExact'
    BY <1>1, <2>1, NothingAsked DEF Asked
  <2> DEFINE t == rows[i + 1].src
  <2>3. i + 1 \in DOMAIN rows /\ t \in 0..(NodeCount - 1) /\ t + 1 \in 0..NodeCount
    <3>1. i + 1 \in DOMAIN rows /\ rows[i + 1] \in Rows
      BY <1>0, <1>4
    <3>2. t < NodeCount
      BY <1>1, <3>1 DEF Inv, Build, Checked
    <3> QED BY <1>0, <3>1, <3>2, RowFields
  <2> HIDE DEF t
  <2>4. offsets' = [offsets EXCEPT ![t + 1] = offsets[t + 1] + 1]
    BY <2>1 DEF t
  <2>5. offsets' \in [0..NodeCount -> Nat]
    BY <1>0, <2>3, <2>4
  <2>6. TypeOK'
    BY <1>0, <1>1, <1>2, <2>1, <2>5 DEF TypeOK
  <2>7. ASSUME NEW s \in 0..(NodeCount - 1)
        PROVE  offsets'[s + 1] = Cardinality(OfSource(s, i + 1))
    <3>1. OfSource(s, i) \in SUBSET (1..i) /\ i + 1 \notin OfSource(s, i)
      BY <1>0 DEF OfSource
    <3>2. IsFiniteSet(OfSource(s, i)) /\ Cardinality(OfSource(s, i)) \in Nat
      BY <1>0, <3>1, Positions
    <3>3. CASE s = t
      <4>1. OfSource(s, i + 1) = OfSource(s, i) \cup {i + 1}
        BY <1>0, <3>3 DEF OfSource, t
      <4>2. Cardinality(OfSource(s, i + 1)) = Cardinality(OfSource(s, i)) + 1
        BY <3>1, <3>2, <4>1, FS_AddElement
      <4> QED BY <1>0, <1>3, <2>3, <2>4, <3>3, <4>2
    <3>4. CASE s # t
      <4>1. OfSource(s, i + 1) = OfSource(s, i)
        BY <1>0, <3>4 DEF OfSource, t
      <4>2. s + 1 # t + 1 /\ s + 1 \in 0..NodeCount
        BY <1>0, <2>3, <3>4
      <4> QED BY <1>0, <1>3, <2>4, <4>1, <4>2
    <3> QED BY <3>3, <3>4
  <2>8. Counting'
    <3>1. 0 # t + 1 /\ 0 \in 0..NodeCount
      BY <1>0, <2>3
    <3>2. offsets'[0] = 0
      BY <1>0, <1>3, <2>4, <3>1
    <3>3. i' <= Len(rows')
      BY <1>0, <1>1, <1>4, <2>1
    <3> QED BY <1>1, <2>1, <2>7, <3>2, <3>3 DEF Counting, OfSource
  <2>9. Build' /\ OffsetsPartition'
    BY <1>1, <2>1, <2>8 DEF Inv, Build, Loading, Checked, Sorted, Summing, OffsetsPartition, Indexed
  <2> QED BY <2>2, <2>6, <2>9 DEF Inv
<1>5. CASE ~(i < n)
  <2>1. offsets' = offsets /\ i' = 0 /\ phase' = "prefix" /\ i = n
    BY <1>0, <1>1, <1>3, <1>5 DEF CountRow
  <2>2. Queries' /\ FrontiersExact' /\ BatchExact'
    BY <1>1, <2>1, NothingAsked DEF Asked
  <2>3. TypeOK'
    BY <1>0, <1>1, <1>2, <2>1 DEF TypeOK
  <2>4. Summing'
    <3>1. Before(0) = {}
      <4>1. \A p \in DOMAIN rows : rows[p].src \in Nat
        <5>1. \A p \in DOMAIN rows : rows[p] \in Rows
          BY <1>0
        <5> QED BY <5>1, RowFields
      <4> QED BY <4>1 DEF Before
    <3>2. Cardinality(Before(0)) = 0
      BY <3>1, FS_EmptySet
    <3>3. \A s : Before(s)' = Before(s)
      BY <1>1 DEF Before
    <3>4. \A s : OfSource(s, Len(rows))' = OfSource(s, n)
      BY <1>1 DEF OfSource
    <3>5. \A s \in 0..0 : s = 0
      OBVIOUS
    <3>6. \A s \in 0..0 : offsets'[s] = Cardinality(Before(s)')
      BY <1>3, <2>1, <3>2, <3>3, <3>5
    <3>7. \A s \in 0..(NodeCount - 1) : offsets'[s + 1] = Cardinality(OfSource(s, Len(rows))')
      BY <1>3, <2>1, <3>4
    <3>8. i' <= NodeCount
      BY <1>0, <2>1
    <3> QED BY <2>1, <3>6, <3>7, <3>8 DEF Summing
  <2>5. Build' /\ OffsetsPartition'
    BY <1>1, <2>1, <2>4 DEF Inv, Build, Loading, Checked, Sorted, Counting, OffsetsPartition, Indexed
  <2> QED BY <2>2, <2>3, <2>5 DEF Inv
<1> QED BY <1>4, <1>5

\* The summing loop: the count of a source becomes the end of its run.
LEMMA PrefixSumKeeps ==
    ASSUME Inv, PrefixSum
    PROVE  Inv'
<1> DEFINE n == Len(rows)
<1>0. /\ TypeOK /\ rows \in Seq(Rows) /\ n \in Nat /\ i \in Nat /\ NodeCount \in Nat
      /\ offsets \in [0..NodeCount -> Nat]
  BY CSRAssumption DEF Inv, TypeOK
<1>1. phase = "prefix" /\ UNCHANGED <<given, table, rows, answer>>
  BY DEF PrefixSum
<1>2. UNCHANGED <<query, frontiers, batch>>
  BY <1>1 DEF answer
<1>3. /\ i <= NodeCount
      /\ \A s \in 0..i : offsets[s] = Cardinality(Before(s))
      /\ \A s \in i..(NodeCount - 1) : offsets[s + 1] = Cardinality(OfSource(s, n))
  BY <1>1 DEF Inv, Build, Summing
<1>4. \A j, l \in DOMAIN rows : j < l => rows[j].src <= rows[l].src
  BY <1>1 DEF Inv, Build, Sorted
<1>5. (\A s : Before(s)' = Before(s)) /\ \A s : OfSource(s, Len(rows))' = OfSource(s, n)
  BY <1>1 DEF Before, OfSource
<1>6. CASE i < NodeCount
  <2>1. /\ offsets' = [offsets EXCEPT ![i + 1] = offsets[i + 1] + offsets[i]]
        /\ i' = i + 1 /\ phase' = "prefix"
    BY <1>1, <1>6 DEF PrefixSum, Summand
  <2>2. Queries' /\ FrontiersExact' /\ BatchExact'
    BY <1>1, <2>1, NothingAsked DEF Asked
  <2>3. i \in 0..NodeCount /\ i + 1 \in 0..NodeCount
    BY <1>0, <1>6
  <2>4. offsets' \in [0..NodeCount -> Nat]
    BY <1>0, <2>1, <2>3
  <2>5. TypeOK'
    BY <1>0, <1>1, <1>2, <2>1, <2>4 DEF TypeOK
  <2>6. offsets'[i + 1] = Cardinality(Before(i + 1))
    <3>1. offsets[i + 1] = Cardinality(OfSource(i, n)) /\ offsets[i] = Cardinality(Before(i))
      BY <1>0, <1>3, <1>6
    <3>2. Cardinality(Before(i + 1)) = Cardinality(Before(i)) + Cardinality(OfSource(i, n))
      <4> HIDE DEF n
      <4> QED BY <1>0, <1>4, RunOfSource DEF n
    <3>3. offsets[i + 1] \in Nat /\ offsets[i] \in Nat
      BY <1>0, <2>3
    <3> QED BY <1>0, <2>1, <2>3, <3>1, <3>2, <3>3
  <2>7. Summing'
    <3>1. \A s \in 0..(i + 1) : offsets'[s] = Cardinality(Before(s))
      <4> SUFFICES ASSUME NEW s \in 0..(i + 1) PROVE offsets'[s] = Cardinality(Before(s))
        OBVIOUS
      <4>1. CASE s = i + 1
        BY <2>6, <4>1
      <4>2. CASE s # i + 1
        <5>1. s \in 0..i /\ s \in 0..NodeCount
          BY <1>0, <1>6, <4>2
        <5> QED BY <1>0, <1>3, <2>1, <4>2, <5>1
      <4> QED BY <4>1, <4>2
    <3>2. \A s \in (i + 1)..(NodeCount - 1) : offsets'[s + 1] = Cardinality(OfSource(s, n))
      <4> SUFFICES ASSUME NEW s \in (i + 1)..(NodeCount - 1) PROVE offsets'[s + 1] = Cardinality(OfSource(s, n))
        OBVIOUS
      <4>1. s \in i..(NodeCount - 1) /\ s + 1 # i + 1 /\ s + 1 \in 0..NodeCount
        BY <1>0
      <4> QED BY <1>0, <1>3, <2>1, <4>1
    <3>3. i' <= NodeCount
      BY <1>0, <1>6, <2>1
    <3> QED BY <1>5, <2>1, <3>1, <3>2, <3>3 DEF Summing
  <2>8. Build' /\ OffsetsPartition'
    BY <1>1, <2>1, <2>7 DEF Inv, Build, Loading, Checked, Sorted, Counting, OffsetsPartition, Indexed
  <2> QED BY <2>2, <2>5, <2>8 DEF Inv
<1>7. CASE ~(i < NodeCount)
  <2>1. offsets' = offsets /\ i' = 0 /\ phase' = "ready" /\ i = NodeCount
    BY <1>0, <1>1, <1>3, <1>7 DEF PrefixSum
  <2>2. Queries' /\ FrontiersExact' /\ BatchExact'
    BY <1>1, <2>1, NothingAsked DEF Asked
  <2>3. TypeOK'
    BY <1>0, <1>1, <1>2, <2>1 DEF TypeOK
  <2>4. /\ Len(rows) = Len(table)
        /\ \A p \in DOMAIN rows : rows[p].src < NodeCount
    BY <1>1 DEF Inv, Build, Checked
  <2>5. \A p \in DOMAIN rows : rows[p].src \in Nat
    <3>1. \A p \in DOMAIN rows : rows[p] \in Rows
      BY <1>0
    <3> QED BY <3>1, RowFields
  <2>6. offsets[0] = 0
    <3>1. Before(0) = {}
      BY <2>5 DEF Before
    <3>2. Cardinality(Before(0)) = 0
      BY <3>1, FS_EmptySet
    <3> QED BY <1>0, <1>3, <3>2
  <2>7. offsets[NodeCount] = Len(table)
    <3>1. Before(NodeCount) = 1..n
      BY <1>0, <2>4 DEF Before
    <3>2. Cardinality(1..n) = n
      <4> HIDE DEF n
      <4> QED BY <1>0, FS_Interval
    <3> QED BY <1>0, <1>3, <2>1, <2>4, <3>1, <3>2
  <2>8. ASSUME NEW s \in 0..(NodeCount - 1)
        PROVE  {p \in DOMAIN rows : rows[p].src = s} = (offsets[s] + 1)..offsets[s + 1]
    <3>1. s \in Nat /\ s \in 0..i /\ s + 1 \in 0..i
      BY <1>0, <2>1
    <3>2. offsets[s] = Cardinality(Before(s)) /\ offsets[s + 1] = Cardinality(Before(s + 1))
      BY <1>3, <3>1
    <3>3. {p \in DOMAIN rows : rows[p].src = s}
            = (Cardinality(Before(s)) + 1)..Cardinality(Before(s + 1))
      BY <1>0, <1>4, <3>1, RunOfSource
    <3> QED BY <3>2, <3>3
  <2>9. OffsetsPartition'
    BY <1>1, <2>1, <2>6, <2>7, <2>8 DEF OffsetsPartition
  <2>10. Build'
    BY <1>1, <2>1 DEF Inv, Build, Loading, Checked, Sorted, Counting, Summing, Indexed
  <2> QED BY <2>2, <2>3, <2>9, <2>10 DEF Inv
<1> QED BY <1>6, <1>7

--------------------------------------------------------------------------------
\* Queries leave the index alone.
LEMMA SameIndex ==
    ASSUME Inv, Indexed, Indexed', UNCHANGED index
    PROVE  Build' /\ OffsetsPartition'
<1>1. UNCHANGED <<given, table, rows, offsets>>
  BY DEF index
<1>2. ~(phase' \in {"construct", "validate", "sort", "count", "prefix"})
  BY DEF Indexed
<1>3. OffsetsPartition'
  BY <1>1 DEF Inv, OffsetsPartition
<1>4. Checked'
  BY <1>1 DEF Inv, Build, Checked
<1> QED BY <1>1, <1>2, <1>3, <1>4 DEF Inv, Build, Loading, Sorted, Counting, Summing

\* What neighbors() yields for a node is every row of the index with that source
\* that is active, in the order of the index: the offsets miss none.
LEMMA NeighborsAre ==
    ASSUME Inv, Indexed, NEW s \in 0..(NodeCount - 1), NEW at \in Int
    PROVE  Neighbors(s, at) = RowsAt({p \in DOMAIN rows : rows[p].src = s /\ Live(rows[p], at)})
<1>1. {p \in DOMAIN rows : rows[p].src = s} = (offsets[s] + 1)..offsets[s + 1]
  BY DEF Inv, OffsetsPartition
<1>2. \A p \in DOMAIN rows : Active(rows[p], at) <=> Live(rows[p], at)
  <2>1. \A p \in DOMAIN rows : rows[p].from \in Int /\ rows[p].to \in Int
    <3>1. \A p \in DOMAIN rows : rows[p] \in Rows
      BY DEF Inv, TypeOK
    <3> QED BY <3>1, RowFields
  <2> QED BY <2>1 DEF Active, Live
<1>3. {p \in (offsets[s] + 1)..offsets[s + 1] : Active(rows[p], at)}
        = {p \in DOMAIN rows : rows[p].src = s /\ Live(rows[p], at)}
  BY <1>1, <1>2
<1>4. Neighbors(s, at) = RowsAt({p \in (offsets[s] + 1)..offsets[s + 1] : Active(rows[p], at)})
  BY DEF Neighbors, EdgeRange
<1> QED BY <1>3, <1>4

\* The index and the table have the same rows.
LEMMA RowsOfTable ==
    ASSUME Inv, Indexed
    PROVE  \A r : (\E p \in DOMAIN rows : rows[p] = r) <=> (\E q \in DOMAIN table : table[q] = r)
<1>0. table \in Seq(Rows) /\ rows \in Seq(Rows)
  BY DEF Inv, TypeOK
<1>1. ASSUME NEW r \in Rows
      PROVE  (\E p \in DOMAIN rows : rows[p] = r) <=> (\E q \in DOMAIN table : table[q] = r)
  <2> DEFINE A == {p \in DOMAIN rows : rows[p] = r}
             B == {q \in DOMAIN table : table[q] = r}
  <2>1. Cardinality(A) = Cardinality(B)
    BY DEF Inv, Build, Checked
  <2>2. IsFiniteSet(A) /\ IsFiniteSet(B)
    <3>1. A \in SUBSET (1..Len(rows)) /\ B \in SUBSET (1..Len(table)) /\ Len(rows) \in Nat /\ Len(table) \in Nat
      BY <1>0
    <3> HIDE DEF A, B
    <3> QED BY <3>1, Positions
  <2>3. A = {} <=> B = {}
    <3> HIDE DEF A, B
    <3> QED BY <2>1, <2>2, FS_EmptySet
  <2> QED BY <2>3
<1>2. (\A p \in DOMAIN rows : rows[p] \in Rows) /\ \A q \in DOMAIN table : table[q] \in Rows
  BY <1>0
<1> QED BY <1>1, <1>2

\* One hop from nodes of the graph goes where the table says.
LEMMA HopIsStep ==
    ASSUME Inv, Indexed, NEW S \in SUBSET Nat, \A s \in S : s < NodeCount, NEW at \in Int
    PROVE  /\ UNION {Destinations(Neighbors(s, at)) : s \in {c \in S : c < NodeCount}} = Step(S, at)
           /\ Step(S, at) \in SUBSET Nat
<1>0. rows \in Seq(Rows) /\ table \in Seq(Rows) /\ NodeCount \in Nat
  BY CSRAssumption DEF Inv, TypeOK
<1> DEFINE Run(s) == {p \in DOMAIN rows : rows[p].src = s /\ Live(rows[p], at)}
<1>1. ASSUME NEW s \in S PROVE Destinations(Neighbors(s, at)) = {rows[p].dst : p \in Run(s)}
  <2>1. s \in 0..(NodeCount - 1)
    BY <1>0
  <2>2. Neighbors(s, at) = RowsAt(Run(s))
    BY <2>1, NeighborsAre
  <2>3. {RowsAt(Run(s))[j] : j \in DOMAIN RowsAt(Run(s))} = {rows[p] : p \in Run(s)}
    <3>1. Run(s) \in SUBSET (DOMAIN rows)
      OBVIOUS
    <3> HIDE DEF Run
    <3> QED BY <1>0, <3>1, RowsAtIs
  <2> HIDE DEF Run
  <2>4. ASSUME NEW d PROVE d \in Destinations(RowsAt(Run(s))) <=> d \in {rows[p].dst : p \in Run(s)}
    <3>1. d \in Destinations(RowsAt(Run(s)))
            <=> \E x \in {RowsAt(Run(s))[j] : j \in DOMAIN RowsAt(Run(s))} : d = x.dst
      BY DEF Destinations
    <3>2. d \in {rows[p].dst : p \in Run(s)} <=> \E x \in {rows[p] : p \in Run(s)} : d = x.dst
      OBVIOUS
    <3> QED BY <2>3, <3>1, <3>2
  <2> QED BY <2>2, <2>4
<1>2. ASSUME NEW d
      PROVE  d \in UNION {Destinations(Neighbors(s, at)) : s \in {c \in S : c < NodeCount}}
               <=> \E p \in DOMAIN rows : rows[p].src \in S /\ Live(rows[p], at) /\ d = rows[p].dst
  <2>1. d \in UNION {Destinations(Neighbors(s, at)) : s \in {c \in S : c < NodeCount}}
          <=> \E s \in S : d \in Destinations(Neighbors(s, at))
    OBVIOUS
  <2>2. ASSUME NEW s \in S
        PROVE  d \in Destinations(Neighbors(s, at))
                 <=> \E p \in DOMAIN rows : rows[p].src = s /\ Live(rows[p], at) /\ d = rows[p].dst
    BY <1>1
  <2> QED BY <2>1, <2>2
<1>3. ASSUME NEW d
      PROVE  d \in Step(S, at)
               <=> \E q \in DOMAIN table : table[q].src \in S /\ Live(table[q], at) /\ d = table[q].dst
  BY DEF Step
<1>4. ASSUME NEW d
      PROVE  (\E p \in DOMAIN rows : rows[p].src \in S /\ Live(rows[p], at) /\ d = rows[p].dst)
               <=> (\E q \in DOMAIN table : table[q].src \in S /\ Live(table[q], at) /\ d = table[q].dst)
  BY RowsOfTable
<1>5. Step(S, at) \in SUBSET Nat
  <2>1. \A q \in DOMAIN table : table[q].dst \in Nat
    <3>1. \A q \in DOMAIN table : table[q] \in Rows
      BY <1>0
    <3> QED BY <3>1, RowFields
  <2> QED BY <1>3, <2>1
<1> QED BY <1>2, <1>3, <1>4, <1>5

\* A query's parts.
LEMMA QueryParts ==
    ASSUME Inv
    PROVE  /\ query.nodes \in Seq(Nat) /\ query.k \in 0..MaxHops /\ query.k \in Nat /\ query.at \in Int
           /\ Seeds \in SUBSET Nat /\ MaxHops \in Nat
           /\ frontiers \in Seq(SUBSET Nat) /\ Len(frontiers) \in Nat /\ i \in Nat /\ NodeCount \in Nat
           /\ Current \in SUBSET Nat /\ Current = Origin(Len(frontiers) + 1)
<1>1. /\ query.nodes \in Seq(Nat) /\ query.k \in 0..MaxHops /\ query.at \in Int
      /\ frontiers \in Seq(SUBSET Nat) /\ i \in Nat
  BY DEF Inv, Queries, QueryOK, TypeOK
<1>2. MaxHops \in Nat /\ NodeCount \in Nat
  BY CSRAssumption
<1>3. Seeds \in SUBSET Nat
  BY <1>1 DEF Seeds
<1>4. frontiers = <<>> <=> Len(frontiers) = 0
  BY <1>1
<1>5. Len(frontiers) \in Nat
  BY <1>1
<1>6. Current \in SUBSET Nat /\ Current = Origin(Len(frontiers) + 1)
  <2>1. CASE frontiers = <<>>
    BY <1>3, <1>4, <2>1 DEF Current, Origin
  <2>2. CASE frontiers # <<>>
    <3>1. Len(frontiers) + 1 # 1 /\ Len(frontiers) + 1 - 1 = Len(frontiers) /\ Len(frontiers) \in DOMAIN frontiers
      BY <1>1, <1>4, <1>5, <2>2
    <3> QED BY <1>1, <2>2, <3>1 DEF Current, Origin
  <2> QED BY <2>1, <2>2
<1> QED BY <1>1, <1>2, <1>3, <1>5, <1>6

\* Nothing is collected before the first source.
LEMMA CollectedFirst == QueryOK => Collected[0] = <<>>
<1> SUFFICES ASSUME QueryOK PROVE Collected[0] = <<>>
  OBVIOUS
<1>1. 0 \in 0..Len(query.nodes)
  BY DEF QueryOK
<1> QED BY <1>1, CollectedUnfolds

\* A query is asked.
LEMMA StartKeeps ==
    ASSUME Inv, StartKhop \/ StartBatch
    PROVE  Inv'
<1>0. Times \subseteq Int /\ NodeLists \subseteq Seq(Nat) /\ MaxHops \in Nat
  BY CSRAssumption
<1>1. phase = "ready" /\ phase' \in {"hop", "batch"} /\ UNCHANGED <<index, i, frontiers, batch>>
  BY DEF StartKhop, StartBatch
<1>2. frontiers = <<>> /\ batch = <<>> /\ i = 0
  BY <1>1 DEF Inv, Queries, Unasked
<1>3. Build' /\ OffsetsPartition'
  BY <1>1, SameIndex DEF Indexed
<1>4. QueryOK' /\ (\/ phase' = "hop" /\ query'.op = "khop"
                   \/ phase' = "batch" /\ query'.op = "batch" /\ query'.k = 0)
  <2>1. CASE StartKhop
    <3>1. PICK v \in NodeLists, k \in 0..MaxHops, at \in Times :
             query' = [op |-> "khop", nodes |-> v, k |-> k, at |-> at]
      BY <2>1 DEF StartKhop
    <3>2. v \in Seq(Nat) /\ at \in Int
      BY <1>0
    <3> QED BY <2>1, <3>1, <3>2 DEF StartKhop, QueryOK
  <2>2. CASE StartBatch
    <3>1. PICK v \in NodeLists, at \in Times :
             query' = [op |-> "batch", nodes |-> v, k |-> 0, at |-> at]
      BY <2>2 DEF StartBatch
    <3>2. v \in Seq(Nat) /\ at \in Int /\ 0 \in 0..MaxHops
      BY <1>0
    <3> QED BY <2>2, <3>1, <3>2 DEF StartBatch, QueryOK
  <2> QED BY <2>1, <2>2
<1>5. query'.nodes \in Seq(Nat) /\ Len(query'.nodes) \in Nat /\ query'.k \in Nat
  BY <1>0, <1>4 DEF QueryOK
<1>6. TypeOK'
  BY <1>1, <1>4, <1>5 DEF Inv, TypeOK, index, QueryOK
<1>7. Queries'
  <2>1. Unasked' /\ Asking'
    BY <1>1, <1>4 DEF Unasked, Asking
  <2>2. Hopping'
    <3>1. Len(frontiers') = 0 /\ DOMAIN frontiers' = {}
      BY <1>1, <1>2
    <3> QED BY <1>4, <1>5, <3>1 DEF Hopping
  <2>3. Batching'
    <3>1. frontiers' = <<>> /\ i' = 0 /\ \A j \in 1..0 : FALSE
      BY <1>1, <1>2
    <3> QED BY <1>4, <1>5, <3>1 DEF Batching
  <2> QED BY <1>4, <2>1, <2>2, <2>3 DEF Queries
<1>8. FrontiersExact'
  BY <1>1, <1>2 DEF FrontiersExact
<1>9. BatchExact'
  <2>1. Collected'[0] = <<>>
    <3>1. (QueryOK => Collected[0] = <<>>)'
      BY CollectedFirst, PTL
    <3> QED BY <1>4, <3>1
  <2> QED BY <1>1, <1>2, <2>1 DEF BatchExact
<1> QED BY <1>3, <1>6, <1>7, <1>8, <1>9 DEF Inv

\* While the index and the query stay, so does what the answer is measured by.
LEMMA SameMeasure ==
    ASSUME UNCHANGED index, UNCHANGED query
    PROVE  /\ Seeds' = Seeds /\ Collected' = Collected /\ Reach' = Reach
           /\ \A S, at : Step(S, at)' = Step(S, at)
<1>1. UNCHANGED <<table, rows, query>>
  BY DEF index
<1> QED BY <1>1 DEF Seeds, Collected, Reach, Step, RowsAt, Live

\* A query ends: the answer stays as it is.
LEMMA EndKeeps ==
    ASSUME Inv, HopFails \/ KhopReturns \/ BatchReturns
    PROVE  Inv'
<1>0. /\ query.nodes \in Seq(Nat) /\ query.k \in Nat /\ Len(frontiers) \in Nat /\ i \in Nat
      /\ NodeCount \in Nat
  BY QueryParts
<1>1. /\ phase \in {"hop", "batch"} /\ phase' \in {"answered", "failed"}
      /\ UNCHANGED <<index, i, query, frontiers, batch>>
  BY DEF HopFails, KhopReturns, BatchReturns, answer
<1>2. Build' /\ OffsetsPartition'
  BY <1>1, SameIndex DEF Indexed
<1>3. TypeOK'
  BY <1>1 DEF Inv, TypeOK, index
<1>4. Seeds' = Seeds /\ Collected' = Collected /\ \A S, at : Step(S, at)' = Step(S, at)
  BY <1>1, SameMeasure
<1>5. FrontiersExact' /\ BatchExact'
  BY <1>1, <1>4 DEF Inv, FrontiersExact, BatchExact
<1>6. QueryOK' /\ Unasked' /\ Asking'
  BY <1>1 DEF Inv, Queries, QueryOK, Unasked, Asking
<1>7. Current' = Current /\ \A h : Origin(h)' = Origin(h)
  BY <1>1, <1>4 DEF Current, Origin
<1>8. Hopping'
  <2> SUFFICES ASSUME query.op = "khop" PROVE Hopping'
    BY <1>1 DEF Hopping
  <2>1. /\ phase = "hop" /\ Len(frontiers) <= query.k
        /\ \A h \in DOMAIN frontiers : \A s \in Origin(h) : s < NodeCount
    BY <1>1 DEF Inv, Queries, Hopping
  <2>2. /\ phase' = "answered" => Len(frontiers) = query.k
        /\ phase' = "failed" => Len(frontiers) < query.k /\ \E s \in Current : s >= NodeCount
    BY <2>1 DEF HopFails, KhopReturns, BatchReturns, Outside
  <2> QED BY <1>1, <1>7, <2>1, <2>2 DEF Hopping
<1>9. Batching'
  <2> SUFFICES ASSUME query.op = "batch" PROVE Batching'
    BY <1>1 DEF Batching
  <2>1. phase = "batch" /\ Batching
    BY <1>1 DEF Inv, Queries, Batching
  <2>2. phase' = "answered" /\ i = Len(query.nodes)
    BY <2>1 DEF HopFails, KhopReturns, BatchReturns
  <2> QED BY <1>1, <2>1, <2>2 DEF Batching
<1> QED BY <1>2, <1>3, <1>5, <1>6, <1>8, <1>9 DEF Inv, Queries

\* One hop.
LEMMA HopKeeps ==
    ASSUME Inv, Hop
    PROVE  Inv'
<1> DEFINE m == Len(frontiers)
<1>0. /\ query.k \in Nat /\ query.at \in Int /\ frontiers \in Seq(SUBSET Nat) /\ m \in Nat
      /\ Current \in SUBSET Nat /\ Current = Origin(m + 1) /\ NodeCount \in Nat
  BY QueryParts
<1>1. /\ phase = "hop" /\ m < query.k /\ phase' = "hop"
      /\ \A s \in Current : ~Outside(s)
      /\ UNCHANGED <<index, i, query, batch>>
  BY DEF Hop
<1>2. \A s \in Current : s < NodeCount
  BY <1>0, <1>1 DEF Outside
<1>3. frontiers' = Append(frontiers, Step(Current, query.at)) /\ Step(Current, query.at) \in SUBSET Nat
  <2>1. Indexed
    BY <1>1 DEF Indexed
  <2>2. /\ UNION {Destinations(Neighbors(s, query.at)) : s \in {c \in Current : c < NodeCount}} = Step(Current, query.at)
        /\ Step(Current, query.at) \in SUBSET Nat
    BY <1>0, <1>2, <2>1, HopIsStep
  <2> QED BY <2>2 DEF Hop
<1>4. /\ frontiers' \in Seq(SUBSET Nat) /\ Len(frontiers') = m + 1 /\ DOMAIN frontiers' = 1..(m + 1)
      /\ frontiers'[m + 1] = Step(Current, query.at)
      /\ DOMAIN frontiers = 1..m /\ \A h \in 1..m : frontiers'[h] = frontiers[h]
  <2> DEFINE new == Step(Current, query.at)
  <2> HIDE DEF new
  <2> QED BY <1>0, <1>3 DEF new
<1> HIDE DEF m
<1>5. Build' /\ OffsetsPartition'
  BY <1>1, SameIndex DEF Indexed
<1>6. TypeOK'
  BY <1>1, <1>4 DEF Inv, TypeOK, index
<1>7. Seeds' = Seeds /\ Collected' = Collected /\ \A S, at : Step(S, at)' = Step(S, at)
  BY <1>1, SameMeasure
<1>8. \A h \in 1..(m + 1) : Origin(h)' = Origin(h)
  <2> SUFFICES ASSUME NEW h \in 1..(m + 1) PROVE Origin(h)' = Origin(h)
    OBVIOUS
  <2>1. CASE h = 1
    BY <1>7, <2>1 DEF Origin
  <2>2. CASE h # 1
    <3>1. h - 1 \in 1..m
      BY <1>0, <2>2
    <3> QED BY <1>4, <2>2, <3>1 DEF Origin
  <2> QED BY <2>1, <2>2
<1>9. FrontiersExact'
  <2>1. \A h \in 1..m : frontiers[h] = Step(Origin(h), query.at)
    BY <1>4 DEF Inv, FrontiersExact, Origin
  <2>2. ASSUME NEW h \in 1..(m + 1) PROVE frontiers'[h] = Step(Origin(h), query.at)'
    <3>1. Step(Origin(h), query.at)' = Step(Origin(h), query.at)
      <4>1. Origin(h)' = Origin(h) /\ query' = query /\ table' = table
        BY <1>1, <1>8 DEF index
      <4> QED BY <4>1 DEF Step, Live
    <3>2. CASE h \in 1..m
      BY <1>4, <2>1, <3>1, <3>2
    <3>3. CASE h = m + 1
      BY <1>0, <1>4, <3>1, <3>3
    <3> QED BY <1>0, <3>2, <3>3
  <2> QED BY <1>4, <2>2 DEF FrontiersExact, Origin
<1>10. BatchExact'
  BY <1>1, <1>7 DEF Inv, BatchExact
<1>11. QueryOK' /\ Unasked' /\ Asking' /\ query.op = "khop"
  BY <1>1 DEF Inv, Queries, QueryOK, Unasked, Asking
<1>12. Hopping' /\ Batching'
  <2>1. \A h \in 1..m : \A s \in Origin(h) : s < NodeCount
    BY <1>4, <1>11 DEF Inv, Queries, Hopping
  <2>2. \A h \in 1..(m + 1) : \A s \in Origin(h)' : s < NodeCount
    <3> SUFFICES ASSUME NEW h \in 1..(m + 1) PROVE \A s \in Origin(h) : s < NodeCount
      BY <1>8
    <3>1. CASE h \in 1..m
      BY <2>1, <3>1
    <3>2. CASE h = m + 1
      BY <1>0, <1>2, <3>2
    <3> QED BY <1>0, <3>1, <3>2
  <2>3. Len(frontiers') <= query.k
    BY <1>0, <1>1, <1>4
  <2> QED BY <1>1, <1>4, <1>11, <2>2, <2>3 DEF Hopping, Batching
<1> QED BY <1>5, <1>6, <1>9, <1>10, <1>11, <1>12 DEF Inv, Queries

\* One source of a batch.
LEMMA BatchSourceKeeps ==
    ASSUME Inv, BatchSource
    PROVE  Inv'
<1> DEFINE s == query.nodes[i + 1]
<1>0. /\ query.nodes \in Seq(Nat) /\ Len(query.nodes) \in Nat /\ query.at \in Int /\ i \in Nat
      /\ NodeCount \in Nat /\ rows \in Seq(Rows) /\ batch \in Seq(Rows)
  BY QueryParts DEF Inv, TypeOK
<1>1. /\ phase = "batch" /\ i < Len(query.nodes) /\ UNCHANGED <<index, query, frontiers>>
      /\ IF s >= NodeCount THEN phase' = "failed" /\ UNCHANGED <<i, batch>>
         ELSE batch' = batch \o Neighbors(s, query.at) /\ i' = i + 1 /\ UNCHANGED phase
  BY DEF BatchSource
<1>2. phase' \in {"batch", "failed"}
  BY <1>1
<1>3. Build' /\ OffsetsPartition'
  BY <1>1, <1>2, SameIndex DEF Indexed
<1>4. Seeds' = Seeds /\ Collected' = Collected /\ \A S, at : Step(S, at)' = Step(S, at)
  BY <1>1, SameMeasure
<1>5. FrontiersExact'
  BY <1>1, <1>4 DEF Inv, FrontiersExact
<1>6. query.op = "batch" /\ Batching /\ QueryOK /\ batch = Collected[i] /\ s \in Nat
  BY <1>0, <1>1 DEF Inv, Queries, Asking, BatchExact
<1>7. QueryOK' /\ Unasked' /\ Asking' /\ Hopping'
  BY <1>1, <1>2, <1>6 DEF Inv, Queries, QueryOK, Unasked, Asking, Hopping
<1>8. CASE s >= NodeCount
  <2>1. phase' = "failed" /\ UNCHANGED <<i, batch>>
    BY <1>1, <1>8
  <2>2. TypeOK'
    BY <1>1, <2>1 DEF Inv, TypeOK, index
  <2>3. BatchExact'
    BY <1>4, <1>6, <2>1 DEF BatchExact
  <2>4. Batching'
    BY <1>1, <1>6, <1>8, <2>1 DEF Batching
  <2> QED BY <1>3, <1>5, <1>7, <2>2, <2>3, <2>4 DEF Inv, Queries
<1>9. CASE s < NodeCount
  <2>1. batch' = batch \o Neighbors(s, query.at) /\ i' = i + 1 /\ phase' = "batch"
    <3>1. ~(s >= NodeCount)
      <4> HIDE DEF s
      <4> QED BY <1>0, <1>6, <1>9
    <3> QED BY <1>1, <3>1
  <2>2. Neighbors(s, query.at) = RowsAt(Wanted(i + 1))
    <3>1. s \in 0..(NodeCount - 1) /\ Indexed
      BY <1>0, <1>1, <1>6, <1>9 DEF Indexed
    <3>2. Neighbors(s, query.at) = RowsAt({p \in DOMAIN rows : rows[p].src = s /\ Live(rows[p], query.at)})
      <4> HIDE DEF s
      <4> QED BY <1>0, <3>1, NeighborsAre
    <3> QED BY <3>2 DEF Wanted
  <2>3. RowsAt(Wanted(i + 1)) \in Seq(Rows)
    <3>1. Wanted(i + 1) \in SUBSET (DOMAIN rows)
      BY DEF Wanted
    <3> QED BY <1>0, <3>1, RowsAtIs
  <2>4. Collected[i + 1] = Collected[i] \o RowsAt(Wanted(i + 1))
    <3> DEFINE n == i + 1
    <3>1. n \in 0..Len(query.nodes) /\ n # 0 /\ n - 1 = i
      BY <1>0, <1>1
    <3>2. \A l \in 0..Len(query.nodes) :
             l # 0 => Collected[l] = Collected[l - 1] \o RowsAt(Wanted(l))
      BY <1>6, CollectedUnfolds
    <3> HIDE DEF n
    <3>3. Collected[n] = Collected[i] \o RowsAt(Wanted(n))
      BY <3>1, <3>2
    <3> QED BY <3>3 DEF n
  <2>5. batch' = Collected'[i'] /\ batch' \in Seq(Rows)
    BY <1>0, <1>4, <1>6, <2>1, <2>2, <2>3, <2>4
  <2>6. TypeOK'
    BY <1>0, <1>1, <2>1, <2>5 DEF Inv, TypeOK, index
  <2>7. BatchExact'
    BY <2>5 DEF BatchExact
  <2>8. Batching'
    <3>1. i + 1 <= Len(query.nodes)
      BY <1>0, <1>1
    <3>2. \A j \in 1..(i + 1) : query.nodes[j] < NodeCount
      <4>1. \A j \in 1..(i + 1) : j \in 1..i \/ j = i + 1
        BY <1>0
      <4> QED BY <1>6, <1>9, <4>1 DEF Batching
    <3> QED BY <1>1, <1>6, <2>1, <3>1, <3>2 DEF Batching
  <2> QED BY <1>3, <1>5, <1>7, <2>6, <2>7, <2>8 DEF Inv, Queries
<1> QED BY <1>0, <1>6, <1>8, <1>9

\* The next query finds nothing of the last.
LEMMA NextQueryKeeps ==
    ASSUME Inv, NextQuery
    PROVE  Inv'
<1>1. /\ phase \in {"answered", "failed"} /\ phase' = "ready" /\ UNCHANGED index
      /\ i' = 0 /\ query' = NoQuery /\ frontiers' = <<>> /\ batch' = <<>>
  BY DEF NextQuery
<1>2. Build' /\ OffsetsPartition'
  BY <1>1, SameIndex DEF Indexed
<1>3. QueryOK'
  BY <1>1, CSRAssumption DEF QueryOK, NoQuery
<1>4. TypeOK'
  BY <1>1, <1>3 DEF Inv, TypeOK, index, QueryOK
<1>5. Queries' /\ FrontiersExact' /\ BatchExact'
  BY <1>1, <1>3
     DEF Queries, Unasked, Hopping, Batching, Asking, FrontiersExact, BatchExact, NoQuery
<1> QED BY <1>2, <1>4, <1>5 DEF Inv

\* Every step keeps the invariant.
LEMMA NextInv == Inv /\ [Next]_vars => Inv'
<1> SUFFICES ASSUME Inv, [Next]_vars PROVE Inv'
  OBVIOUS
<1>1. CASE NewTable \/ FromVecs \/ ToCsr \/ FromArrays
  BY <1>1, ConstructKeeps DEF NewTable, FromVecs, ToCsr, FromArrays
<1>2. CASE Validate
  BY <1>2, ValidateKeeps
<1>3. CASE SortRows
  BY <1>3, SortRowsKeeps
<1>4. CASE CountRow
  BY <1>4, CountRowKeeps
<1>5. CASE PrefixSum
  BY <1>5, PrefixSumKeeps
<1>6. CASE StartKhop \/ StartBatch
  BY <1>6, StartKeeps
<1>7. CASE Hop
  BY <1>7, HopKeeps
<1>8. CASE HopFails \/ KhopReturns \/ BatchReturns
  BY <1>8, EndKeeps
<1>9. CASE BatchSource
  BY <1>9, BatchSourceKeeps
<1>10. CASE NextQuery
  BY <1>10, NextQueryKeeps
<1>11. CASE UNCHANGED vars
  <2>1. /\ UNCHANGED <<given, table, rows, offsets, i, phase, query, frontiers, batch>>
        /\ UNCHANGED index
    BY <1>11 DEF vars, index, answer
  <2>2. TypeOK'
    BY <2>1 DEF Inv, TypeOK
  <2>3. Build'
    BY <2>1 DEF Inv, Build, Loading, Checked, Sorted, Counting, Summing, Indexed, OfSource, Before
  <2>4. OffsetsPartition'
    BY <2>1 DEF Inv, OffsetsPartition, Indexed
  <2>5. Seeds' = Seeds /\ Collected' = Collected /\ \A S, at : Step(S, at)' = Step(S, at)
    BY <2>1, SameMeasure
  <2>6. Queries'
    BY <2>1, <2>5 DEF Inv, Queries, QueryOK, Unasked, Hopping, Batching, Asking, Origin, Current
  <2>7. FrontiersExact' /\ BatchExact'
    BY <2>1, <2>5 DEF Inv, FrontiersExact, BatchExact
  <2> QED BY <2>2, <2>3, <2>4, <2>6, <2>7 DEF Inv
<1> QED BY <1>1, <1>2, <1>3, <1>4, <1>5, <1>6, <1>7, <1>8, <1>9, <1>10, <1>11 DEF Next, Rejected

\* The invariant of every behaviour.
LEMMA SpecInv == Spec => []Inv
BY InitInv, NextInv, PTL DEF Spec

\* Whatever table is handed over, in whatever order its rows come out of the
\* unstable sort, an index that is built partitions exactly the table's rows.
THEOREM IndexIsExact == Spec => []IndexExact
<1>1. Inv => IndexExact
  BY DEF Inv, Build, Checked, IndexExact, SameRows
<1> QED BY <1>1, SpecInv, PTL

\* What khop and neighbors_record_batch have put together is, at every point of
\* every query, what the table alone says.
THEOREM LookupsAreExact == Spec => []LookupsExact
<1>1. Inv => LookupsExact
  BY DEF Inv, LookupsExact
<1> QED BY <1>1, SpecInv, PTL

\* The nodes hop h starts from are those h - 1 edges away from the seeds.
LEMMA OriginsReached ==
    ASSUME Inv, Len(frontiers) <= query.k
    PROVE  \A h \in 0..Len(frontiers) : Origin(h + 1) = Reach[h]
<1> DEFINE m == Len(frontiers)
           Bad == {h \in 0..m : Origin(h + 1) # Reach[h]}
<1>0. m \in Nat /\ query.k \in 0..MaxHops /\ MaxHops \in Nat /\ DOMAIN frontiers = 1..m
  BY QueryParts
<1>1. ASSUME Bad # {} PROVE FALSE
  <2>1. Bad \in SUBSET Nat
    OBVIOUS
  <2>2. PICK h \in Bad : \A l \in Bad : h <= l
    <3> HIDE DEF Bad
    <3> QED BY <1>1, <2>1, LeastNatural
  <2>3. h \in 0..m /\ Origin(h + 1) # Reach[h] /\ h \in 0..MaxHops
    BY <1>0
  <2>4. CASE h = 0
    <3>1. Reach[0] = Seeds
      BY <2>3, <2>4, ReachUnfolds
    <3>2. Origin(0 + 1) = Seeds
      BY DEF Origin
    <3> QED BY <2>3, <2>4, <3>1, <3>2
  <2>5. CASE h # 0
    <3>1. h - 1 \in 0..m /\ ~(h <= h - 1) /\ h \in 1..m /\ h + 1 # 1 /\ h + 1 - 1 = h /\ h - 1 + 1 = h
      BY <1>0, <2>3, <2>5
    <3>2. h - 1 \notin Bad
      <4> HIDE DEF Bad
      <4> QED BY <2>2, <3>1
    <3>3. Origin(h) = Reach[h - 1]
      BY <3>1, <3>2
    <3>4. Reach[h] = Step(Reach[h - 1], query.at)
      BY <2>3, <2>5, ReachUnfolds
    <3>5. Origin(h + 1) = frontiers[h]
      BY <3>1 DEF Origin
    <3>6. frontiers[h] = Step(Origin(h), query.at)
      BY <1>0, <3>1 DEF Inv, FrontiersExact, Origin
    <3> QED BY <2>3, <3>3, <3>4, <3>5, <3>6
  <2> QED BY <2>4, <2>5
<1> QED BY <1>1

\* A query fails exactly when it has to expand an id that is no node.
THEOREM FailsExactlyOutOfRange == Spec => []FailsIffOutOfRange
<1>1. Inv => FailsIffOutOfRange
  <2> SUFFICES ASSUME Inv PROVE FailsIffOutOfRange
    OBVIOUS
  <2> DEFINE m == Len(frontiers)
             Expanded == IF query.op = "batch" THEN Seeds
                         ELSE UNION {Reach[h] : h \in 0..(query.k - 1)}
  <2>0. /\ query.nodes \in Seq(Nat) /\ Len(query.nodes) \in Nat /\ query.k \in Nat /\ m \in Nat
        /\ i \in Nat /\ NodeCount \in Nat /\ Current = Origin(m + 1) /\ DOMAIN frontiers = 1..m
    BY QueryParts
  <2>1. CASE ~(phase \in {"answered", "failed"})
    BY <2>1 DEF FailsIffOutOfRange
  <2>2. CASE phase \in {"answered", "failed"} /\ query.op = "batch"
    <3>1. Batching /\ Seeds = {query.nodes[j] : j \in 1..Len(query.nodes)} /\ Expanded = Seeds
      BY <2>0, <2>2 DEF Inv, Queries, Seeds
    <3>2. phase = "failed" => \E s \in Expanded : s >= NodeCount
      <4> SUFFICES ASSUME phase = "failed" PROVE \E s \in Expanded : s >= NodeCount
        OBVIOUS
      <4>1. i + 1 \in 1..Len(query.nodes) /\ query.nodes[i + 1] >= NodeCount
        BY <2>0, <2>2, <3>1 DEF Batching
      <4> QED BY <3>1, <4>1
    <3>3. phase = "answered" => (\A s \in Expanded : s < NodeCount) /\ m = query.k
      BY <2>0, <2>2, <3>1 DEF Batching
    <3> QED BY <3>2, <3>3 DEF FailsIffOutOfRange
  <2>3. CASE phase \in {"answered", "failed"} /\ query.op = "khop"
    <3>1. Hopping /\ Expanded = UNION {Reach[h] : h \in 0..(query.k - 1)}
      BY <2>3 DEF Inv, Queries
    <3>2. \A h \in 0..m : Origin(h + 1) = Reach[h]
      BY <2>3, <3>1, OriginsReached DEF Hopping
    <3>3. phase = "failed" => \E s \in Expanded : s >= NodeCount
      <4> SUFFICES ASSUME phase = "failed" PROVE \E s \in Expanded : s >= NodeCount
        OBVIOUS
      <4>1. m < query.k /\ \E s \in Current : s >= NodeCount
        BY <2>3, <3>1 DEF Hopping
      <4>2. m \in 0..m /\ m \in 0..(query.k - 1)
        BY <2>0, <4>1
      <4>3. Current = Reach[m]
        BY <2>0, <3>2, <4>2
      <4> HIDE DEF m
      <4> QED BY <3>1, <4>1, <4>2, <4>3
    <3>4. phase = "answered" => (\A s \in Expanded : s < NodeCount) /\ m = query.k
      <4> SUFFICES ASSUME phase = "answered" PROVE (\A s \in Expanded : s < NodeCount) /\ m = query.k
        OBVIOUS
      <4>1. m = query.k /\ \A h \in 1..m : \A s \in Origin(h) : s < NodeCount
        BY <2>0, <2>3, <3>1 DEF Hopping
      <4>2. ASSUME NEW h \in 0..(query.k - 1) PROVE \A s \in Reach[h] : s < NodeCount
        <5>1. h + 1 \in 1..m /\ h \in 0..m
          BY <2>0, <4>1
        <5> QED BY <3>2, <4>1, <5>1
      <4> QED BY <3>1, <4>1, <4>2
    <3> QED BY <3>3, <3>4 DEF FailsIffOutOfRange
  <2>4. phase \in {"answered", "failed"} => query.op \in {"khop", "batch"}
    BY DEF Inv, Queries, Asking
  <2> QED BY <2>1, <2>2, <2>3, <2>4
<1> QED BY <1>1, SpecInv, PTL
================================================================================
