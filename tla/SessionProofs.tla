----------------------------- MODULE SessionProofs -----------------------------
(***************************************************************************)
(* Session, proved for any paths, table names and statements: a save that  *)
(* returned Ok is durable through crashes and restarts, what is loaded is  *)
(* what was saved, the views of the graph agree, and knn() is exact.       *)
(***************************************************************************)
EXTENDS Session, FiniteSetTheorems, TLAPS

\* The fields of a GtvContext.
ContextShape == DOMAIN ctx = {"tables", "csr", "nodeCount", "asof", "knn"}

\* A save in progress is the running shell's, of a demo table to one of the paths.
SaveShape ==
    \/ saving = Idle
    \/ shell = "running" /\ saving \in [stage : {"created", "written"}, table : DemoTables, path : Paths]

\* A file with rows in it was written by a save that went through, and nothing
\* has opened it for writing since.
OnlySavesFill ==
    \A p \in Paths : files[p].kind = "complete" /\ files[p].rows # <<>> => saved[p] # None

\* Nothing is left of the last command when the shell is down.
DownIsQuiet == shell = "down" => answer = Nothing

Inv == SavedIsLoadable /\ ContextShape /\ SaveShape /\ OnlySavesFill /\ DownIsQuiet

--------------------------------------------------------------------------------
\* Registering a table sets that table and keeps the others.
LEMMA RegisterEffect ==
    ASSUME NEW c, DOMAIN c = {"tables", "csr", "nodeCount", "asof", "knn"},
           NEW name, NEW rows
    PROVE  LET d == RegisterBatches(c, name, rows)
           IN  /\ DOMAIN d = DOMAIN c
               /\ d.tables = With(c.tables, name, rows)
BY DEF RegisterBatches

\* register_tables builds a context that holds exactly the demo tables.
LEMMA ShellContextTables ==
    /\ DOMAIN ShellContext = {"tables", "csr", "nodeCount", "asof", "knn"}
    /\ DOMAIN ShellContext.tables = DemoTables
    /\ \A n \in DemoTables : ShellContext.tables[n] = DemoBatch(n)
<1> DEFINE Good(c) == DOMAIN c = {"tables", "csr", "nodeCount", "asof", "knn"}
           nodes  == RegisterBatches(EmptyContext, "nodes", NodeRows)
           edges  == RegisterBatches(nodes, "edges", EdgeRows)
           prices == RegisterBatches(edges, "prices", PriceRows)
           graph  == RegisterNeighbors(prices, EdgeRows, NodeCount)
           asof   == RegisterAsofJoin(graph, PriceRows)
<1>0. ShellContext = RegisterKnn(RegisterKnn(asof, "songs", Songs), "tss", Tss)
  BY DEF ShellContext, RegisterKnnCollections
<1>1. Good(EmptyContext) /\ EmptyContext.tables = <<>>
  BY DEF EmptyContext
<1>2. Good(nodes) /\ nodes.tables = With(<<>>, "nodes", NodeRows)
  BY <1>1, RegisterEffect
<1>3. Good(edges) /\ edges.tables = With(nodes.tables, "edges", EdgeRows)
  <2> HIDE DEF nodes
  <2> QED BY <1>2, RegisterEffect
<1>4. Good(prices) /\ prices.tables = With(edges.tables, "prices", PriceRows)
  <2> HIDE DEF nodes, edges
  <2> QED BY <1>3, RegisterEffect
<1>5. Good(asof) /\ asof.tables = prices.tables
  <2> HIDE DEF prices
  <2>1. Good(graph) /\ graph.tables = prices.tables
    BY <1>4 DEF RegisterNeighbors
  <2> HIDE DEF graph
  <2> QED BY <2>1 DEF RegisterAsofJoin
<1>6. ASSUME NEW c, Good(c), NEW name, NEW k
      PROVE  Good(RegisterKnn(c, name, k)) /\ RegisterKnn(c, name, k).tables = c.tables
  BY <1>6 DEF RegisterKnn
<1>7. Good(ShellContext) /\ ShellContext.tables = prices.tables
  <2> HIDE DEF asof, prices, Good
  <2> QED BY <1>0, <1>5, <1>6
<1>8. DOMAIN nodes.tables = {"nodes"} /\ nodes.tables["nodes"] = NodeRows
  <2> HIDE DEF nodes
  <2> QED BY <1>2 DEF With
<1>9. /\ DOMAIN edges.tables = {"nodes", "edges"}
      /\ edges.tables["nodes"] = NodeRows /\ edges.tables["edges"] = EdgeRows
  <2> HIDE DEF nodes, edges
  <2> QED BY <1>3, <1>8 DEF With
<1>10. /\ DOMAIN prices.tables = DemoTables
       /\ prices.tables["nodes"] = NodeRows /\ prices.tables["edges"] = EdgeRows
       /\ prices.tables["prices"] = PriceRows
  <2> HIDE DEF prices, edges
  <2> QED BY <1>4, <1>9 DEF With, DemoTables
<1> HIDE DEF prices
<1> QED BY <1>7, <1>10 DEF DemoTables, DemoBatch

--------------------------------------------------------------------------------
\* R, a set of pairs, orders S strictly and totally.
Orders(R, S) ==
    /\ \A x \in S : <<x, x>> \notin R
    /\ \A x, y \in S : x # y => <<x, y>> \in R \/ <<y, x>> \in R
    /\ \A x, y, z \in S : <<x, y>> \in R /\ <<y, z>> \in R => <<x, z>> \in R

\* The members of S in the order R.
Arranged(S, R) == [n \in 1..Cardinality(S) |->
                     CHOOSE x \in S : Cardinality({y \in S : <<y, x>> \in R}) = n - 1]

\* Sorting a finite set lists each of its members once, in ascending order.
LEMMA ArrangedIs ==
    ASSUME NEW S, IsFiniteSet(S), NEW R, Orders(R, S)
    PROVE  LET f == Arranged(S, R)
               n == Cardinality(S)
           IN  /\ n \in Nat /\ f \in [1..n -> S]
               /\ \A x \in S : \E i \in 1..n : f[i] = x
               /\ \A i, j \in 1..n : i < j => f[i] # f[j] /\ <<f[i], f[j]>> \in R
<1> DEFINE n == Cardinality(S)
           Below(x) == {y \in S : <<y, x>> \in R}
           T == 0..(n - 1)
           rank == [x \in S |-> Cardinality(Below(x))]
           f == Arranged(S, R)
<1>1. n \in Nat
  BY FS_CardinalityType
<1>2. ASSUME NEW x \in S PROVE IsFiniteSet(Below(x)) /\ Cardinality(Below(x)) \in T
  <2>1. Below(x) \in SUBSET S /\ Below(x) # S
    BY DEF Orders
  <2>2. IsFiniteSet(Below(x)) /\ Cardinality(Below(x)) <= n /\ Cardinality(Below(x)) # n
    <3> HIDE DEF Below
    <3> QED BY <2>1, FS_Subset
  <2>3. Cardinality(Below(x)) \in Nat
    BY <2>2, FS_CardinalityType
  <2> HIDE DEF Below, n
  <2> QED BY <1>1, <2>2, <2>3
<1>3. ASSUME NEW x \in S, NEW y \in S, <<x, y>> \in R PROVE Cardinality(Below(x)) < Cardinality(Below(y))
  <2>1. Below(x) \in SUBSET Below(y) /\ Below(x) # Below(y)
    BY <1>3 DEF Orders
  <2>2. Cardinality(Below(x)) \in Nat /\ Cardinality(Below(y)) \in Nat
    <3> HIDE DEF Below, n
    <3> QED BY <1>2
  <2>3. Cardinality(Below(x)) <= Cardinality(Below(y)) /\ Cardinality(Below(x)) # Cardinality(Below(y))
    <3> HIDE DEF Below
    <3> QED BY <1>2, <2>1, FS_Subset
  <2> HIDE DEF Below
  <2> QED BY <2>2, <2>3
<1>4. ASSUME NEW x \in S, NEW y \in S, x # y PROVE Cardinality(Below(x)) # Cardinality(Below(y))
  <2>0. Cardinality(Below(x)) \in Nat /\ Cardinality(Below(y)) \in Nat
    <3> HIDE DEF Below, n
    <3> QED BY <1>2
  <2>1. CASE <<x, y>> \in R
    <3>1. Cardinality(Below(x)) < Cardinality(Below(y))
      BY <1>3, <2>1
    <3> HIDE DEF Below
    <3> QED BY <2>0, <3>1
  <2>2. CASE <<y, x>> \in R
    <3>1. Cardinality(Below(y)) < Cardinality(Below(x))
      BY <1>3, <2>2
    <3> HIDE DEF Below
    <3> QED BY <2>0, <3>1
  <2> QED BY <1>4, <2>1, <2>2 DEF Orders
<1>5. rank \in Injection(S, T)
  <2> HIDE DEF Below, T
  <2> QED BY <1>2, <1>4 DEF Injection, IsInjective
<1>6. IsFiniteSet(T) /\ Cardinality(T) = Cardinality(S)
  <2> HIDE DEF n
  <2>1. IsFiniteSet(T) /\ Cardinality(T) = n
    BY <1>1, FS_Interval
  <2> QED BY <2>1 DEF n
<1>7. rank \in Surjection(S, T)
  <2> HIDE DEF T, rank
  <2> QED BY <1>5, <1>6, FS_Injection
<1>8. \A k \in T : \E x \in S : Cardinality(Below(x)) = k
  <2> HIDE DEF T, Below
  <2> QED BY <1>7 DEF Surjection
<1>9. f = [i \in 1..n |-> CHOOSE x \in S : Cardinality(Below(x)) = i - 1]
  BY DEF Arranged
<1> HIDE DEF f, Below, rank
<1>10. ASSUME NEW i \in 1..n PROVE f[i] \in S /\ Cardinality(Below(f[i])) = i - 1
  <2>1. i - 1 \in T
    <3> HIDE DEF n
    <3> QED BY <1>1
  <2>2. f[i] = CHOOSE x \in S : Cardinality(Below(x)) = i - 1
    BY <1>9
  <2> HIDE DEF T, n
  <2> QED BY <1>8, <2>1, <2>2
<1>11. f \in [1..n -> S]
  <2> HIDE DEF n
  <2> QED BY <1>9, <1>10
<1>12. ASSUME NEW x \in S PROVE \E i \in 1..n : f[i] = x
  <2>1. Cardinality(Below(x)) + 1 \in 1..n /\ Cardinality(Below(x)) \in Nat
    <3> HIDE DEF n
    <3> QED BY <1>1, <1>2
  <2> DEFINE i == Cardinality(Below(x)) + 1
  <2>2. f[i] \in S /\ Cardinality(Below(f[i])) = i - 1 /\ i - 1 = Cardinality(Below(x))
    <3>1. f[i] \in S /\ Cardinality(Below(f[i])) = i - 1
      <4> HIDE DEF i, n
      <4> QED BY <1>10, <2>1 DEF i
    <3> QED BY <2>1, <3>1
  <2>3. f[i] = x
    <3> HIDE DEF i
    <3> QED BY <1>4, <2>2
  <2> QED BY <2>1, <2>3
<1>13. ASSUME NEW i \in 1..n, NEW j \in 1..n, i < j PROVE f[i] # f[j] /\ <<f[i], f[j]>> \in R
  <2>0. i \in Int /\ j \in Int
    OBVIOUS
  <2>1. f[i] \in S /\ f[j] \in S /\ Cardinality(Below(f[i])) = i - 1 /\ Cardinality(Below(f[j])) = j - 1
    <3> HIDE DEF n
    <3> QED BY <1>10
  <2>2. f[i] # f[j]
    BY <1>13, <2>0, <2>1
  <2>3. ~(<<f[j], f[i]>> \in R)
    <3>1. ~(Cardinality(Below(f[j])) < Cardinality(Below(f[i])))
      BY <1>13, <2>0, <2>1
    <3> QED BY <1>3, <2>1, <3>1
  <2> QED BY <2>1, <2>2, <2>3 DEF Orders
<1> HIDE DEF n, f
<1> QED BY <1>1, <1>11, <1>12, <1>13 DEF n, f

--------------------------------------------------------------------------------
\* A row of the edge table.
IsRow(r) == r.src \in Int /\ r.from \in Int /\ r.to \in Int /\ r.dst \in Int

\* The order of the index is a strict one.
LEMMA RowOrder ==
    /\ \A r : IsRow(r) => ~RowBefore(r, r)
    /\ \A r, s, u : IsRow(r) /\ IsRow(s) /\ IsRow(u) /\ RowBefore(r, s) /\ RowBefore(s, u) => RowBefore(r, u)
<1>1. ASSUME NEW r, IsRow(r) PROVE ~RowBefore(r, r)
  BY <1>1 DEF IsRow, RowBefore
<1>2. ASSUME NEW r, NEW s, NEW u, IsRow(r), IsRow(s), IsRow(u), RowBefore(r, s), RowBefore(s, u)
      PROVE  RowBefore(r, u)
  BY <1>2 DEF IsRow, RowBefore
<1> QED BY <1>1, <1>2

\* The demo's edge table happens to be in the order of the index.
LEMMA EdgeTable ==
    /\ EdgeRows \in Seq(Range(EdgeRows)) /\ DOMAIN EdgeRows = 1..6
    /\ \A i \in 1..6 : IsRow(EdgeRows[i])
    /\ \A i, j \in 1..6 : i < j => RowBefore(EdgeRows[i], EdgeRows[j])
<1> DEFINE E == EdgeRows
<1>0. DOMAIN E = 1..6 /\ E \in Seq(Range(E))
  BY DEF EdgeRows, Range
<1>1. E[1].src = 0 /\ E[1].from = 0 /\ E[1].to = 100 /\ E[1].dst = 1
  BY DEF EdgeRows, Edge
<1>2. E[2].src = 0 /\ E[2].from = 50 /\ E[2].to = 200 /\ E[2].dst = 2
  BY DEF EdgeRows, Edge
<1>3. E[3].src = 1 /\ E[3].from = 0 /\ E[3].to = 100 /\ E[3].dst = 3
  BY DEF EdgeRows, Edge
<1>4. E[4].src = 1 /\ E[4].from = 100 /\ E[4].to = 300 /\ E[4].dst = 4
  BY DEF EdgeRows, Edge
<1>5. E[5].src = 2 /\ E[5].from = 0 /\ E[5].to = 300 /\ E[5].dst = 5
  BY DEF EdgeRows, Edge
<1>6. E[6].src = 3 /\ E[6].from = 150 /\ E[6].to = 400 /\ E[6].dst = 5
  BY DEF EdgeRows, Edge
<1> HIDE DEF E
<1>7. ASSUME NEW i \in 1..6 PROVE i = 1 \/ i = 2 \/ i = 3 \/ i = 4 \/ i = 5 \/ i = 6
  OBVIOUS
<1>8. \A i \in 1..6 : IsRow(E[i])
  BY <1>1, <1>2, <1>3, <1>4, <1>5, <1>6, <1>7 DEF IsRow
<1>9. ASSUME NEW i \in 1..6, NEW j \in 1..6, i < j PROVE RowBefore(E[i], E[j])
  BY <1>1, <1>2, <1>3, <1>4, <1>5, <1>6, <1>7, <1>9 DEF RowBefore
<1> QED BY <1>0, <1>8, <1>9 DEF E

\* Building the index loses no row of the table and invents none.
LEMMA GraphRows ==
    /\ \E n \in Nat : ShellGraph \in [1..n -> Range(EdgeRows)]
    /\ Range(ShellGraph) = Range(EdgeRows)
<1> DEFINE S == Range(EdgeRows)
           R == {e \in S \X S : RowBefore(e[1], e[2])}
           n == Cardinality(S)
<1>1. \A r \in S : IsRow(r)
  BY EdgeTable DEF Range
<1>2. \A r, s \in S : <<r, s>> \in R <=> RowBefore(r, s)
  OBVIOUS
<1>3. ASSUME NEW r \in S, NEW s \in S, r # s PROVE RowBefore(r, s) \/ RowBefore(s, r)
  <2>1. PICK i \in 1..6 : r = EdgeRows[i]
    BY EdgeTable DEF Range
  <2>2. PICK j \in 1..6 : s = EdgeRows[j]
    BY EdgeTable DEF Range
  <2>3. i < j \/ j < i
    BY <1>3, <2>1, <2>2
  <2> QED BY <2>1, <2>2, <2>3, EdgeTable
<1>4. IsFiniteSet(S)
  <2>1. EdgeRows \in Surjection(1..6, S)
    BY EdgeTable DEF Surjection, Range
  <2>2. IsFiniteSet(1..6)
    <3>1. 1 \in Int /\ 6 \in Int
      OBVIOUS
    <3> QED BY <3>1, FS_Interval
  <2> QED BY <2>1, <2>2, FS_Surjection
<1>5. ShellGraph = Arranged(S, R)
  <2> DEFINE A(x) == Cardinality({y \in S : RowBefore(y, x)})
             B(x) == Cardinality({y \in S : <<y, x>> \in R})
  <2>1. ASSUME NEW x \in S PROVE A(x) = B(x)
    <3>1. {y \in S : RowBefore(y, x)} = {y \in S : <<y, x>> \in R}
      OBVIOUS
    <3> QED BY <3>1
  <2>2. /\ ShellGraph = [i \in 1..n |-> CHOOSE x \in S : A(x) = i - 1]
        /\ Arranged(S, R) = [i \in 1..n |-> CHOOSE x \in S : B(x) = i - 1]
    BY DEF ShellGraph, Sorted, Arranged
  <2> HIDE DEF R, A, B, S, n
  <2>3. ASSUME NEW i \in 1..n PROVE (CHOOSE x \in S : A(x) = i - 1) = (CHOOSE x \in S : B(x) = i - 1)
    BY <2>1, Zenon
  <2> QED BY <2>2, <2>3, Zenon
<1> HIDE DEF S, R
<1>6. Orders(R, S)
  BY <1>1, <1>2, <1>3, RowOrder DEF Orders
<1>7. n \in Nat /\ ShellGraph \in [1..n -> S] /\ \A x \in S : \E i \in 1..n : ShellGraph[i] = x
  BY <1>4, <1>5, <1>6, ArrangedIs
<1>8. Range(ShellGraph) = S
  <2> HIDE DEF n
  <2> QED BY <1>7 DEF Range
<1> QED BY <1>7, <1>8 DEF S

\* neighbors lists the active rows of the source, all of them and no other.
LEMMA NeighborRows ==
    ASSUME NEW src \in Int, src < NodeCount, NEW t
    PROVE  LET r == Neighbors(ShellGraph, NodeCount, src, t)
           IN  r.ok /\ Range(r.rows) = {e \in Range(EdgeRows) : e.src = src /\ ActiveAt(e, t)}
<1> DEFINE g == ShellGraph
           P == {p \in DOMAIN g : g[p].src = src /\ ActiveAt(g[p], t)}
           R == {e \in P \X P : e[1] < e[2]}
           h == Hits(g, src, t)
           rows == [i \in DOMAIN h |-> g[h[i]]]
           m == Cardinality(P)
<1>1. PICK n \in Nat : g \in [1..n -> Range(EdgeRows)]
  BY GraphRows
<1>2. P \in SUBSET (1..n) /\ \A p \in P : p \in Int
  BY <1>1
<1>3. IsFiniteSet(P)
  <2>1. IsFiniteSet(1..n)
    BY FS_Interval
  <2> HIDE DEF P
  <2> QED BY <1>2, <2>1, FS_Subset
<1>4. h = Arranged(P, R)
  <2> DEFINE A(x) == Cardinality({y \in P : y < x})
             B(x) == Cardinality({y \in P : <<y, x>> \in R})
  <2>1. ASSUME NEW x \in P PROVE A(x) = B(x)
    <3>1. {y \in P : y < x} = {y \in P : <<y, x>> \in R}
      OBVIOUS
    <3> QED BY <3>1
  <2>2. /\ h = [i \in 1..m |-> CHOOSE x \in P : A(x) = i - 1]
        /\ Arranged(P, R) = [i \in 1..m |-> CHOOSE x \in P : B(x) = i - 1]
    BY DEF Hits, Sorted, Arranged
  <2> HIDE DEF R, A, B, P, h, m
  <2>3. ASSUME NEW i \in 1..m PROVE (CHOOSE x \in P : A(x) = i - 1) = (CHOOSE x \in P : B(x) = i - 1)
    BY <2>1, Zenon
  <2> QED BY <2>2, <2>3, Zenon
<1>5. Orders(R, P)
  <2>1. \A x, y \in P : <<x, y>> \in R <=> x < y
    OBVIOUS
  <2> HIDE DEF R, P
  <2> QED BY <1>2, <2>1 DEF Orders
<1>6. m \in Nat /\ h \in [1..m -> P] /\ \A x \in P : \E i \in 1..m : h[i] = x
  <2> HIDE DEF R, P, h
  <2> QED BY <1>3, <1>4, <1>5, ArrangedIs
<1>7. Range(rows) = {g[p] : p \in P}
  <2> HIDE DEF P, h, g, m
  <2> QED BY <1>6 DEF Range
<1>8. {g[p] : p \in P} = {e \in Range(g) : e.src = src /\ ActiveAt(e, t)}
  <2> HIDE DEF g
  <2> QED BY DEF Range
<1>9. Neighbors(g, NodeCount, src, t) = Ok(rows)
  BY DEF Neighbors, NodeCount
<1> HIDE DEF rows, P, g
<1> QED BY <1>7, <1>8, <1>9, GraphRows DEF Ok, g

\* register_neighbors gives the table function the graph of the demo, and the
\* collections are those of the demo that KnnCollection::new accepts.
LEMMA ShellContextGraph ==
    /\ ShellContext.csr = ShellGraph
    /\ ShellContext.nodeCount = NodeCount
    /\ \A name \in DOMAIN ShellContext.knn :
          Accepted(ShellContext.knn[name]) /\ ShellContext.knn[name] \in {Songs, Tss}
<1> DEFINE Good(c) == DOMAIN c = {"tables", "csr", "nodeCount", "asof", "knn"}
           Known(c) == \A name \in DOMAIN c.knn : Accepted(c.knn[name]) /\ c.knn[name] \in {Songs, Tss}
           nodes  == RegisterBatches(EmptyContext, "nodes", NodeRows)
           edges  == RegisterBatches(nodes, "edges", EdgeRows)
           prices == RegisterBatches(edges, "prices", PriceRows)
           graph  == RegisterNeighbors(prices, EdgeRows, NodeCount)
           asof   == RegisterAsofJoin(graph, PriceRows)
           songs  == RegisterKnn(asof, "songs", Songs)
<1>0. ShellContext = RegisterKnn(songs, "tss", Tss)
  BY DEF ShellContext, RegisterKnnCollections
<1>1. ASSUME NEW c, Good(c), NEW name, NEW rows
      PROVE  LET d == RegisterBatches(c, name, rows)
             IN  Good(d) /\ d.knn = c.knn
  BY <1>1 DEF RegisterBatches
<1>2. Good(EmptyContext) /\ EmptyContext.knn = <<>>
  BY DEF EmptyContext
<1>3. Good(nodes) /\ nodes.knn = <<>>
  <2> HIDE DEF Good
  <2> QED BY <1>1, <1>2
<1>4. Good(edges) /\ edges.knn = <<>>
  <2> HIDE DEF Good, nodes
  <2> QED BY <1>1, <1>3
<1>5. Good(prices) /\ prices.knn = <<>>
  <2> HIDE DEF Good, edges
  <2> QED BY <1>1, <1>4
<1>6. Good(graph) /\ graph.knn = <<>> /\ graph.nodeCount = NodeCount /\ graph.csr = ShellGraph
  <2> DEFINE X == {EdgeRows[i] : i \in 1..Len(EdgeRows)}
  <2>1. X = Range(EdgeRows)
    <3>1. Len(EdgeRows) = 6
      BY EdgeTable
    <3> QED BY <3>1, EdgeTable DEF Range
  <2>2. graph = [prices EXCEPT !.csr = Sorted(X, RowBefore), !.nodeCount = NodeCount]
    BY DEF RegisterNeighbors
  <2> HIDE DEF X, prices
  <2>3. Sorted(X, RowBefore) = ShellGraph
    BY <2>1 DEF ShellGraph, Sorted
  <2> DEFINE Y == Sorted(X, RowBefore)
  <2>4. graph = [prices EXCEPT !.csr = Y, !.nodeCount = NodeCount]
    BY <2>2
  <2> HIDE DEF graph, Y
  <2>5. Y = ShellGraph
    BY <2>3 DEF Y
  <2> QED BY <1>5, <2>4, <2>5
<1>7. ASSUME NEW c, Good(c), Known(c), NEW name, NEW k \in {Songs, Tss}
      PROVE  LET d == RegisterKnn(c, name, k)
             IN  Good(d) /\ Known(d) /\ d.csr = c.csr /\ d.nodeCount = c.nodeCount
  <2>1. CASE ~Accepted(k)
    BY <1>7, <2>1 DEF RegisterKnn
  <2>2. CASE Accepted(k)
    <3> DEFINE d == [c EXCEPT !.knn = With(@, name, k)]
    <3>1. RegisterKnn(c, name, k) = d
      BY <2>2 DEF RegisterKnn
    <3>2. Good(d) /\ d.csr = c.csr /\ d.nodeCount = c.nodeCount /\ d.knn = With(c.knn, name, k)
      BY <1>7
    <3> HIDE DEF d
    <3>3. Known(d)
      BY <1>7, <2>2, <3>2 DEF With
    <3> QED BY <3>1, <3>2, <3>3
  <2> QED BY <2>1, <2>2
<1>8. Good(asof) /\ Known(asof) /\ asof.csr = ShellGraph /\ asof.nodeCount = NodeCount
  <2> HIDE DEF graph
  <2>1. Good(asof) /\ asof.knn = <<>> /\ asof.csr = ShellGraph /\ asof.nodeCount = NodeCount
    BY <1>6 DEF RegisterAsofJoin
  <2> HIDE DEF asof
  <2>2. DOMAIN asof.knn = {}
    BY <2>1
  <2> QED BY <2>1, <2>2
<1>9. Good(songs) /\ Known(songs) /\ songs.csr = ShellGraph /\ songs.nodeCount = NodeCount
  <2> HIDE DEF Good, Known, asof
  <2> QED BY <1>7, <1>8
<1>10. Known(ShellContext) /\ ShellContext.csr = ShellGraph /\ ShellContext.nodeCount = NodeCount
  <2> HIDE DEF Good, Known, songs
  <2> QED BY <1>0, <1>7, <1>9
<1> QED BY <1>10

--------------------------------------------------------------------------------
\* What the tables of a context may be.
TablesOK(tables) ==
    /\ DOMAIN tables \subseteq DemoTables \cup Names \cup {q.name : q \in Asked("create")}
    /\ \A n \in DOMAIN tables :
          tables[n] \in Seq(Rows) /\ \E d \in DemoTables : StartsWith(tables[n], DemoBatch(d))

\* A demo table is one of them.
LEMMA DemoBatchOK ==
    ASSUME NEW d \in DemoTables
    PROVE  DemoBatch(d) \in Seq(Rows) /\ StartsWith(DemoBatch(d), DemoBatch(d))
<1>1. DemoBatch(d) \in Seq(Range(DemoBatch(d)))
  <2>1. CASE d = "nodes"
    <3>1. NodeRows = [i \in 1..6 |-> [id |-> i - 1, value |-> i]]
      BY DEF NodeRows, NodeCount
    <3>2. NodeRows \in Seq(Range(NodeRows))
      BY <3>1 DEF Range
    <3> QED BY <2>1, <3>2 DEF DemoBatch
  <2>2. CASE d = "edges"
    BY <2>2, EdgeTable DEF DemoBatch
  <2>3. CASE d = "prices"
    <3>1. Len(Times) = 6
      BY DEF Times
    <3>2. PriceRows = [i \in 1..6 |-> [t |-> Times[i], price |-> Prices[i]]]
      BY <3>1 DEF PriceRows
    <3>3. PriceRows \in Seq(Range(PriceRows))
      BY <3>2 DEF Range
    <3> QED BY <2>3, <3>3 DEF DemoBatch
  <2> QED BY <2>1, <2>2, <2>3 DEF DemoTables
<1>2. Range(DemoBatch(d)) \subseteq Rows
  <2> DEFINE R(e) == Range(DemoBatch(e))
  <2>1. R(d) \subseteq UNION {R(e) : e \in DemoTables}
    OBVIOUS
  <2> QED BY <2>1 DEF Rows
<1> DEFINE b == DemoBatch(d)
           S == Range(b)
<1>3. b \in Seq(S) /\ S \subseteq Rows
  BY <1>1, <1>2
<1> HIDE DEF b, S
<1>4. b \in Seq(Rows) /\ Len(b) \in Nat
  BY <1>3
<1> QED BY <1>4 DEF StartsWith, b

\* A statement changes the tables, to others that may be, and nothing else.
LEMMA EffectOnTables ==
    ASSUME NEW c, DOMAIN c = {"tables", "csr", "nodeCount", "asof", "knn"}, TablesOK(c.tables),
           NEW q \in Queries
    PROVE  LET d == SqlEffect(c, q)
           IN  /\ DOMAIN d = DOMAIN c /\ TablesOK(d.tables)
               /\ d.csr = c.csr /\ d.nodeCount = c.nodeCount /\ d.knn = c.knn
<1> DEFINE d == SqlEffect(c, q)
<1>1. q.kind = "create" => q.name \in {x.name : x \in Asked("create")}
  BY DEF Asked
<1>2. q.kind = "insert" => q.row \in Rows
  BY DEF Asked, Rows
<1>3. CASE q.kind = "create" /\ CanCreate(c, q)
  <2>1. d = RegisterBatches(c, q.name, c.tables[q.source]) /\ q.source \in DOMAIN c.tables
    BY <1>3 DEF SqlEffect, CanCreate
  <2>2. /\ DOMAIN d = DOMAIN c /\ d.tables = With(c.tables, q.name, c.tables[q.source])
        /\ d.csr = c.csr /\ d.nodeCount = c.nodeCount /\ d.knn = c.knn
    BY <2>1 DEF RegisterBatches
  <2> DEFINE ts == c.tables
             us == d.tables
  <2>3. /\ DOMAIN us = DOMAIN ts \cup {q.name} /\ q.name \in {x.name : x \in Asked("create")}
        /\ \A n \in DOMAIN us : (us[n] = ts[n] /\ n \in DOMAIN ts) \/ us[n] = ts[q.source]
    BY <1>1, <1>3, <2>2 DEF With
  <2> HIDE DEF d
  <2>4. TablesOK(us)
    BY <2>1, <2>3 DEF TablesOK
  <2> QED BY <2>2, <2>4 DEF d
<1>4. CASE q.kind = "drop" /\ CanDrop(c, q)
  <2>1. d = [c EXCEPT !.tables = [n \in DOMAIN c.tables \ {q.name} |-> c.tables[n]]]
    BY <1>4 DEF SqlEffect
  <2>2. /\ DOMAIN d = DOMAIN c /\ d.tables = [n \in DOMAIN c.tables \ {q.name} |-> c.tables[n]]
        /\ d.csr = c.csr /\ d.nodeCount = c.nodeCount /\ d.knn = c.knn
    BY <2>1
  <2> HIDE DEF d
  <2>3. TablesOK(d.tables)
    BY <2>2 DEF TablesOK
  <2> QED BY <2>2, <2>3 DEF d
<1>5. CASE q.kind = "insert" /\ CanInsert(c, q)
  <2> DEFINE ts == c.tables
             us == [ts EXCEPT ![q.name] = Append(ts[q.name], q.row)]
  <2>1. d = [c EXCEPT !.tables = us] /\ q.name \in DOMAIN ts /\ q.row \in Rows
    BY <1>2, <1>5 DEF SqlEffect, CanInsert
  <2>2. /\ DOMAIN d = DOMAIN c /\ d.tables = us
        /\ d.csr = c.csr /\ d.nodeCount = c.nodeCount /\ d.knn = c.knn
    <3> HIDE DEF us, d
    <3> QED BY <2>1
  <2>3. PICK b \in DemoTables : StartsWith(ts[q.name], DemoBatch(b))
    BY <2>1 DEF TablesOK
  <2>4. ts[q.name] \in Seq(Rows)
    BY <2>1 DEF TablesOK
  <2>5. Append(ts[q.name], q.row) \in Seq(Rows) /\ StartsWith(Append(ts[q.name], q.row), DemoBatch(b))
    <3> DEFINE x == ts[q.name]
               y == DemoBatch(b)
    <3>1. x \in Seq(Rows) /\ y \in Seq(Rows) /\ Len(y) <= Len(x) /\ \A i \in 1..Len(y) : x[i] = y[i]
      BY <2>3, <2>4, DemoBatchOK DEF StartsWith
    <3> HIDE DEF x, y
    <3>2. Append(x, q.row) \in Seq(Rows) /\ Len(Append(x, q.row)) = Len(x) + 1
      BY <2>1, <3>1
    <3>3. \A i \in 1..Len(y) : i \in 1..Len(x) /\ Append(x, q.row)[i] = x[i]
      BY <3>1
    <3> QED BY <3>1, <3>2, <3>3 DEF StartsWith, x, y
  <2>6. DOMAIN us = DOMAIN ts /\ us[q.name] = Append(ts[q.name], q.row)
        /\ \A n \in DOMAIN ts : n # q.name => us[n] = ts[n]
    BY <2>1
  <2> HIDE DEF us
  <2>7. TablesOK(us)
    <3>1. \A n \in DOMAIN us : us[n] \in Seq(Rows) /\ \E e \in DemoTables : StartsWith(us[n], DemoBatch(e))
      BY <2>5, <2>6 DEF TablesOK
    <3> QED BY <2>6, <3>1 DEF TablesOK
  <2> QED BY <2>2, <2>7
<1>6. CASE /\ ~(q.kind = "create" /\ CanCreate(c, q)) /\ ~(q.kind = "drop" /\ CanDrop(c, q))
           /\ ~(q.kind = "insert" /\ CanInsert(c, q))
  BY <1>6 DEF SqlEffect
<1> QED BY <1>3, <1>4, <1>5, <1>6

\* The state the shell starts in.
LEMMA InitInv == Init => Inv
<1> SUFFICES ASSUME Init PROVE Inv
  OBVIOUS
<1>1. TypeOK
  <2>1. DOMAIN ctx.tables = DemoTables /\ \A n \in DemoTables : ctx.tables[n] = DemoBatch(n)
    BY ShellContextTables DEF Init
  <2>2. TablesOK(ctx.tables)
    BY <2>1, DemoBatchOK DEF TablesOK
  <2> QED BY <2>2 DEF Init, TypeOK, TablesOK, Idle, Nothing, Result
<1>2. ContextShape
  BY ShellContextTables DEF Init, ContextShape
<1>3. OnlySavesFill
  BY DEF Init, OnlySavesFill, Absent, NoBatches, Partial
<1> QED BY <1>1, <1>2, <1>3 DEF Init, Inv, SavedIsLoadable, SaveShape, DownIsQuiet

\* Every statement is answered or refused.
LEMMA SqlAnswers ==
    ASSUME NEW q \in Queries PROVE Sql(ctx, q).ok \in BOOLEAN
<1>1. q.kind \in {"table", "neighbors", "asof", "knn", "create", "drop", "insert"}
  BY QueriesAssumption
<1>2. Err.ok \in BOOLEAN /\ \A rows : Ok(rows).ok \in BOOLEAN
  BY DEF Err, Ok
<1>3. CallNeighbors(ctx, q).ok \in BOOLEAN
  BY <1>2 DEF CallNeighbors, Neighbors
<1>4. CallKnn(ctx, q).ok \in BOOLEAN
  BY <1>2 DEF CallKnn
<1>5. CallAsof(ctx, q).ok \in BOOLEAN
  BY <1>2 DEF CallAsof
<1>6. CASE q.kind \in {"table", "create", "drop", "insert"}
  BY <1>2, <1>6 DEF Sql
<1>7. CASE q.kind \in {"neighbors", "asof", "knn"}
  BY <1>3, <1>4, <1>5, <1>7 DEF Sql
<1> QED BY <1>1, <1>6, <1>7

\* A command, or a step of one, that only computes and prints.
Prints ==
    /\ shell = "running" /\ UNCHANGED <<shell, ctx, lsm, files, saving, saved>>
    /\ answer'.ok \in BOOLEAN
    /\ answer'.ok => answer'.cmd # "load"

\* The commands that read and report only print.
LEMMA ReadersPrint ==
    ASSUME TypeOK, NEW name, NEW p, NEW t \in Int, NEW node \in Int, NEW k
    PROVE  /\ NeighborsCommand(node, t) => Prints
           /\ KhopCommand(node, k, t) => Prints
           /\ TimeTravel(name, t) => Prints
           /\ SaveRefused(name, p) \/ LoadRefused(name, p) \/ LoadTaken(name, p) => Prints
           /\ Printed => Prints
<1> USE DEF Prints, Prompt, state, Result
<1>1. ASSUME NeighborsCommand(node, t) PROVE Prints
  <2>1. Neighbors(ShellGraph, NodeCount, node, t).ok \in BOOLEAN
    BY DEF Neighbors, Err, Ok
  <2>2. NeighborsRecordBatch(ShellGraph, node, t).ok = Neighbors(ShellGraph, NodeCount, node, t).ok
    BY DEF NeighborsRecordBatch, Neighbors, Err, Ok
  <2> QED BY <1>1, <2>1, <2>2 DEF NeighborsCommand
<1>2. ASSUME KhopCommand(node, k, t) PROVE Prints
  <2>1. (k = 0 \/ node < NodeCount) \in BOOLEAN
    OBVIOUS
  <2> QED BY <1>2, <2>1 DEF KhopCommand
<1>3. ASSUME TimeTravel(name, t) PROVE Prints
  BY <1>3 DEF TimeTravel
<1>5. ASSUME SaveRefused(name, p) \/ LoadRefused(name, p) \/ LoadTaken(name, p) PROVE Prints
  <2>1. CASE SaveRefused(name, p)
    BY <2>1 DEF SaveRefused
  <2>2. CASE LoadRefused(name, p)
    BY <2>2 DEF LoadRefused
  <2>3. CASE LoadTaken(name, p)
    BY <2>3 DEF LoadTaken
  <2> QED BY <1>5, <2>1, <2>2, <2>3
<1>6. ASSUME Printed PROVE Prints
  BY <1>6 DEF Printed, Nothing
<1> QED BY <1>1, <1>2, <1>3, <1>5, <1>6

\* Commands that only print.
Reports == {"help", "tables", "deltas", "usage", "mavg", "msum", "knn", "asof", "pattern", "udf", "remote"}

\* So do the commands whose computation is left out.
LEMMA ReportPrints ==
    ASSUME NEW cmd \in Reports, NEW arg \in Arguments, Report(cmd, arg)
    PROVE  Prints
<1>1. PICK ok \in Succeeds(cmd, arg) : answer' = Result(cmd, [arg |-> arg], ok, <<>>)
  BY DEF Report
<1>2. Succeeds(cmd, arg) \subseteq BOOLEAN
  BY DEF Succeeds, Reports
<1>3. shell = "running" /\ UNCHANGED <<shell, ctx, lsm, files, saving, saved>>
  BY DEF Report, Prompt, state
<1>4. answer'.ok = ok /\ answer'.cmd = cmd
  BY <1>1 DEF Result
<1> QED BY <1>2, <1>3, <1>4 DEF Prints, Reports

\* Every step prints, or is one of those that do something to the state.
LEMMA StepKinds ==
    ASSUME TypeOK, Next
    PROVE  \/ Prints
           \/ \E name \in Names, p \in Paths : SaveCreate(name, p) \/ Load(name, p)
           \/ \E q \in Queries : RunSql(q)
           \/ Delta \/ SaveWrite \/ SaveClose \/ SaveFails \/ Quit \/ WindowOfZero \/ Crash \/ Restart
<1>1. CASE \E node \in {0, 3, NodeCount}, t \in {0, 100} :
              NeighborsCommand(node, t) \/ \E k \in 0..2 : KhopCommand(node, k, t)
  <2>1. PICK node \in {0, 3, NodeCount}, t \in {0, 100} :
              NeighborsCommand(node, t) \/ \E k \in 0..2 : KhopCommand(node, k, t)
    BY <1>1
  <2>2. node \in Int /\ t \in Int
    BY DEF NodeCount
  <2> QED BY <2>1, <2>2, ReadersPrint
<1>2. CASE \E name \in Names, t \in {-1, 150} : TimeTravel(name, t)
  <2>1. PICK name \in Names, t \in {-1, 150} : TimeTravel(name, t)
    BY <1>2
  <2>2. t \in Int
    OBVIOUS
  <2> QED BY <2>1, <2>2, ReadersPrint
<1>3. CASE \E cmd \in Reports, arg \in Arguments : Report(cmd, arg)
  BY <1>3, ReportPrints
<1>5. ASSUME NEW name \in Names, NEW p \in Paths,
             SaveRefused(name, p) \/ LoadRefused(name, p) \/ LoadTaken(name, p)
      PROVE  Prints
  BY <1>5, ReadersPrint
<1>6. CASE Printed
  BY <1>6, ReadersPrint
<1> QED BY <1>1, <1>2, <1>3, <1>5, <1>6 DEF Next, SaveStep, Reports

--------------------------------------------------------------------------------
\* Every step keeps the invariant.
LEMMA NextInv == Inv /\ [Next]_vars => Inv'
<1> SUFFICES ASSUME Inv, [Next]_vars PROVE Inv'
  OBVIOUS
<1> USE DEF Inv, SavedIsLoadable, ContextShape, SaveShape, OnlySavesFill, DownIsQuiet
<1>1. CASE Prints
  <2>1. TypeOK'
    BY <1>1 DEF Prints, TypeOK
  <2> QED BY <1>1, <2>1 DEF Prints
<1>2. ASSUME NEW name \in Names, NEW p \in Paths, SaveCreate(name, p) PROVE Inv'
  <2>1. TypeOK'
    BY <1>2 DEF SaveCreate, TypeOK, state, Partial
  <2>2. Partial.kind = "partial"
    BY DEF Partial
  <2>3. files' = [files EXCEPT ![p] = Partial] /\ saved' = [saved EXCEPT ![p] = None]
    BY <1>2 DEF SaveCreate
  <2>4. SavedIsLoadable'
    BY <2>1, <2>3 DEF TypeOK
  <2>5. OnlySavesFill'
    BY <2>2, <2>3 DEF TypeOK
  <2>6. SaveShape'
    BY <1>2 DEF SaveCreate, Prompt
  <2> QED BY <1>2, <2>4, <2>5, <2>6 DEF SaveCreate, state, Prompt
<1>3. ASSUME NEW name \in Names, NEW p \in Paths, Load(name, p) PROVE Inv'
  <2>1. PICK d \in DemoTables : files[p].rows = DemoBatch(d)
    BY <1>3 DEF Load, Readable, Complete, TypeOK, Absent, NoBatches, Partial
  <2>2. ContextShape' /\ ctx'.tables = With(ctx.tables, name, files[p].rows)
    BY <1>3, RegisterEffect DEF Load
  <2>3. /\ DOMAIN ctx'.tables = DOMAIN ctx.tables \cup {name}
        /\ \A n \in DOMAIN ctx'.tables :
              (n \in DOMAIN ctx.tables /\ ctx'.tables[n] = ctx.tables[n]) \/ ctx'.tables[n] = DemoBatch(d)
    BY <2>1, <2>2 DEF With
  <2>5. TablesOK(ctx'.tables)
    <3>1. DemoBatch(d) \in Seq(Rows) /\ StartsWith(DemoBatch(d), DemoBatch(d))
      BY DemoBatchOK
    <3>2. TablesOK(ctx.tables)
      BY DEF TypeOK, TablesOK
    <3> QED BY <2>3, <3>1, <3>2 DEF TablesOK
  <2>4. TypeOK'
    BY <1>3, <2>5 DEF Load, TypeOK, TablesOK, Result
  <2> QED BY <1>3, <2>2, <2>4 DEF Load, Prompt
<1>4. CASE Delta
  <2>1. TypeOK'
    BY <1>4 DEF Delta, TypeOK, Result
  <2> QED BY <1>4, <2>1 DEF Delta, Prompt
<1>5. CASE SaveWrite
  <2>1. saving # Idle /\ shell = "running"
    <3>1. saving.stage = "created" /\ Idle.stage = "idle"
      BY <1>5 DEF SaveWrite, Idle
    <3> QED BY <3>1
  <2>2. saving' \in [stage : {"created", "written"}, table : DemoTables, path : Paths]
    BY <1>5, <2>1 DEF SaveWrite
  <2>3. TypeOK'
    BY <1>5, <2>2 DEF SaveWrite, TypeOK, state
  <2> QED BY <1>5, <2>1, <2>2, <2>3 DEF SaveWrite, state
<1>6. CASE SaveClose
  <2>1. shell = "running" /\ saving \in [stage : {"created", "written"}, table : DemoTables, path : Paths]
    <3>1. saving.stage = "written" /\ Idle.stage = "idle"
      BY <1>6 DEF SaveClose, Idle
    <3> QED BY <3>1
  <2> DEFINE p == saving.path
             d == saving.table
  <2>2. p \in Paths /\ d \in DemoTables
    BY <2>1
  <2>3. files' = [files EXCEPT ![p] = Complete(DemoBatch(d))] /\ saved' = [saved EXCEPT ![p] = d]
    BY <1>6 DEF SaveClose, FinishedFile
  <2>4. TypeOK'
    <3>1. files' \in [Paths -> {Absent, NoBatches, Partial} \cup {Complete(DemoBatch(e)) : e \in DemoTables}]
      BY <2>2, <2>3 DEF TypeOK
    <3>2. saved' \in [Paths -> DemoTables \cup {None}]
      BY <2>2, <2>3 DEF TypeOK
    <3> QED BY <1>6, <3>1, <3>2 DEF SaveClose, TypeOK, state, Idle, Result
  <2>5. d # None
    BY <2>2 DEF DemoTables, None
  <2> HIDE DEF p, d
  <2>6. SavedIsLoadable'
    BY <2>2, <2>3, <2>4, <2>5 DEF TypeOK
  <2>7. OnlySavesFill'
    BY <2>2, <2>3, <2>5 DEF TypeOK
  <2> QED BY <1>6, <2>1, <2>6, <2>7 DEF SaveClose, state
<1>7. CASE SaveFails
  <2>1. TypeOK'
    BY <1>7 DEF SaveFails, TypeOK, state, Idle, Result
  <2> QED BY <1>7, <2>1 DEF SaveFails, state
<1>8. CASE Quit \/ WindowOfZero
  <2>1. TypeOK'
    BY <1>8 DEF Quit, WindowOfZero, TypeOK, state
  <2> QED BY <1>8, <2>1 DEF Quit, WindowOfZero, state, Prompt
<1>9. CASE Crash
  <2>1. TypeOK'
    BY <1>9 DEF Crash, TypeOK, state, Idle, Nothing, Result
  <2> QED BY <1>9, <2>1 DEF Crash, state
<1>10. CASE Restart
  <2>1. DOMAIN ctx'.tables = DemoTables /\ \A n \in DemoTables : ctx'.tables[n] = DemoBatch(n)
    BY <1>10, ShellContextTables DEF Restart
  <2>4. TablesOK(ctx'.tables)
    BY <2>1, DemoBatchOK DEF TablesOK
  <2>2. TypeOK'
    BY <1>10, <2>4 DEF Restart, TypeOK, TablesOK
  <2>3. ContextShape'
    BY <1>10, ShellContextTables DEF Restart
  <2> QED BY <1>10, <2>2, <2>3 DEF Restart
<1>11. CASE UNCHANGED vars
  BY <1>11 DEF vars, TypeOK
<1>12. ASSUME NEW q \in Queries, RunSql(q) PROVE Inv'
  <2>1. ContextShape' /\ TablesOK(ctx'.tables)
    <3>1. TablesOK(ctx.tables)
      BY DEF TypeOK, TablesOK
    <3> QED BY <1>12, <3>1, EffectOnTables DEF RunSql
  <2>2. TypeOK'
    BY <1>12, <2>1, SqlAnswers DEF RunSql, TypeOK, TablesOK, Result
  <2> QED BY <1>12, <2>1, <2>2 DEF RunSql, Prompt
<1> QED BY <1>1, <1>2, <1>3, <1>4, <1>5, <1>6, <1>7, <1>8, <1>9, <1>10, <1>11, <1>12, StepKinds

\* Hence it always holds.
LEMMA SpecInv == Spec => []Inv
BY InitInv, NextInv, PTL DEF Spec

\* A save that returned Ok is durable: until the path is opened for writing
\* again it holds exactly the demo table, through crashes and restarts.
THEOREM SavesAreDurable == Spec => []SavedIsLoadable
<1>1. Inv => SavedIsLoadable
  BY DEF Inv
<1> QED BY <1>1, SpecInv, PTL

\* A load that succeeds registers what a save that succeeded wrote, and nothing else.
THEOREM SaveLoadRoundTrip == Spec => RoundTrip
<1> DEFINE Trip ==
             answer'.cmd = "load" /\ answer'.ok =>
                LET name == answer'.args.table
                    p    == answer'.args.path
                IN  /\ saved[p] # None
                    /\ ctx'.tables = [n \in DOMAIN ctx.tables \cup {name} |->
                                        IF n = name THEN DemoBatch(saved[p]) ELSE ctx.tables[n]]
<1>1. Inv /\ [Next]_vars => [Trip]_answer
  <2> SUFFICES ASSUME Inv, Next, answer' # answer, answer'.cmd = "load", answer'.ok
               PROVE  Trip
    BY DEF vars
  <2>1. ~Prints
    BY DEF Prints
  <2>2. ~Delta /\ ~SaveClose /\ ~SaveFails /\ ~Crash
    BY DEF Delta, SaveClose, SaveFails, Crash, Result, Nothing
  <2>3. ~SaveWrite /\ ~Quit /\ ~WindowOfZero /\ ~Restart
    BY DEF SaveWrite, Quit, WindowOfZero, Restart
  <2>4. PICK name \in Names, p \in Paths : Load(name, p)
    <3>1. \A name \in Names, p \in Paths : ~SaveCreate(name, p)
      BY DEF SaveCreate
    <3>2. \A q \in Queries : ~RunSql(q)
      BY DEF RunSql, Result
    <3> QED BY <2>1, <2>2, <2>3, <3>1, <3>2, StepKinds DEF Inv, SavedIsLoadable
  <2>5. answer'.args.table = name /\ answer'.args.path = p
    BY <2>4 DEF Load, Result
  <2>6. saved[p] # None /\ files[p].rows = DemoBatch(saved[p])
    <3>1. files[p].kind = "complete" /\ files[p].rows # <<>>
      BY <2>4 DEF Load, Readable
    <3>2. saved[p] # None
      BY <3>1 DEF Inv, OnlySavesFill
    <3>3. files[p] = Complete(DemoBatch(saved[p]))
      BY <3>2 DEF Inv, SavedIsLoadable
    <3> QED BY <3>2, <3>3 DEF Complete
  <2>7. ctx'.tables = With(ctx.tables, name, files[p].rows)
    BY <2>4, RegisterEffect DEF Load, Inv, ContextShape
  <2> QED BY <2>5, <2>6, <2>7 DEF With
<1> QED BY <1>1, SpecInv, PTL DEF Spec, RoundTrip

--------------------------------------------------------------------------------
\* What the table functions look up is what register_tables registered: no
\* command changes it.
Registered ==
    ctx.csr = ShellContext.csr /\ ctx.nodeCount = ShellContext.nodeCount /\ ctx.knn = ShellContext.knn

\* Every step keeps the registrations.
LEMMA NextRegistered == Inv /\ Registered /\ [Next]_vars => Registered'
<1> SUFFICES ASSUME Inv, Registered, [Next]_vars PROVE Registered'
  OBVIOUS
<1> USE DEF Registered
<1>1. CASE Prints
  BY <1>1 DEF Prints
<1>2. ASSUME NEW name \in Names, NEW p \in Paths, SaveCreate(name, p) PROVE Registered'
  BY <1>2 DEF SaveCreate, state
<1>3. ASSUME NEW name \in Names, NEW p \in Paths, Load(name, p) PROVE Registered'
  <2>1. ctx' = RegisterBatches(ctx, name, files[p].rows)
    BY <1>3 DEF Load
  <2> QED BY <2>1 DEF RegisterBatches, Inv, ContextShape
<1>4. CASE Delta \/ SaveWrite \/ SaveClose \/ SaveFails \/ Quit \/ WindowOfZero \/ Crash
  BY <1>4 DEF Delta, SaveWrite, SaveClose, SaveFails, Quit, WindowOfZero, Crash, state
<1>5. CASE Restart
  BY <1>5 DEF Restart
<1>6. CASE UNCHANGED vars
  BY <1>6 DEF vars
<1>7. ASSUME NEW q \in Queries, RunSql(q) PROVE Registered'
  <2>1. TablesOK(ctx.tables) /\ ContextShape
    BY DEF Inv, SavedIsLoadable, TypeOK, TablesOK
  <2> QED BY <1>7, <2>1, EffectOnTables DEF RunSql, ContextShape
<1> QED BY <1>1, <1>2, <1>3, <1>4, <1>5, <1>6, <1>7, StepKinds DEF Inv, SavedIsLoadable

\* Hence they always hold.
LEMMA SpecRegistered == Spec => [](Inv /\ Registered)
<1>1. Init => Registered
  BY DEF Init, Registered
<1> QED BY <1>1, SpecInv, NextRegistered, PTL DEF Spec

\* The commands whose answers the next two theorems are about, and all others.
LEMMA AnswerKinds ==
    ASSUME Inv, [Next]_vars
    PROVE  \/ UNCHANGED <<ctx, answer>>
           \/ answer'.cmd \notin {"neighbors", "khop", "sql"}
           \/ \E node \in {0, 3, NodeCount}, t \in {0, 100} :
                 NeighborsCommand(node, t) \/ \E k \in 0..2 : KhopCommand(node, k, t)
           \/ \E q \in Queries : RunSql(q)
<1> DEFINE Other == UNCHANGED <<ctx, answer>> \/ answer'.cmd \notin {"neighbors", "khop", "sql"}
<1> USE DEF Result
<1>1. ASSUME NEW name \in Names, NEW t \in {-1, 150}, TimeTravel(name, t) PROVE Other
  BY <1>1 DEF TimeTravel
<1>2. ASSUME NEW cmd \in Reports, NEW arg \in Arguments, Report(cmd, arg) PROVE Other
  <2>1. answer'.cmd = cmd
    BY <1>2 DEF Report
  <2> QED BY <2>1 DEF Reports
<1>3. ASSUME NEW name \in Names, NEW p \in Paths,
             SaveRefused(name, p) \/ SaveCreate(name, p) \/ LoadRefused(name, p)
                \/ Load(name, p) \/ LoadTaken(name, p)
      PROVE  Other
  <2>1. CASE SaveRefused(name, p)
    BY <2>1 DEF SaveRefused
  <2>2. CASE SaveCreate(name, p)
    BY <2>2 DEF SaveCreate, state
  <2>3. CASE LoadRefused(name, p)
    BY <2>3 DEF LoadRefused
  <2>4. CASE Load(name, p)
    BY <2>4 DEF Load
  <2>5. CASE LoadTaken(name, p)
    BY <2>5 DEF LoadTaken
  <2> QED BY <1>3, <2>1, <2>2, <2>3, <2>4, <2>5
<1>4. CASE Delta
  BY <1>4 DEF Delta
<1>5. CASE Printed
  BY <1>5 DEF Printed, Nothing
<1>6. CASE SaveWrite \/ Quit \/ WindowOfZero
  BY <1>6 DEF SaveWrite, Quit, WindowOfZero, state
<1>7. CASE SaveClose \/ SaveFails
  BY <1>7 DEF SaveClose, SaveFails
<1>8. CASE Crash
  BY <1>8 DEF Crash, Nothing
<1>9. CASE Restart
  BY <1>9 DEF Restart, Inv, DownIsQuiet, Nothing
<1>10. CASE UNCHANGED vars
  BY <1>10 DEF vars
<1> HIDE DEF Other
<1> DEFINE Said == \/ \E node \in {0, 3, NodeCount}, t \in {0, 100} :
                          NeighborsCommand(node, t) \/ \E k \in 0..2 : KhopCommand(node, k, t)
                   \/ \E q \in Queries : RunSql(q)
<1>11. Next => \/ Said
               \/ \E name \in Names, t \in {-1, 150} : TimeTravel(name, t)
               \/ \E cmd \in Reports, arg \in Arguments : Report(cmd, arg)
               \/ \E name \in Names, p \in Paths :
                     SaveRefused(name, p) \/ SaveCreate(name, p) \/ LoadRefused(name, p)
                        \/ Load(name, p) \/ LoadTaken(name, p)
               \/ Delta \/ Printed \/ SaveStep \/ Quit \/ WindowOfZero \/ Crash \/ Restart
  BY DEF Next, Reports
<1> HIDE DEF Said
<1>12. CASE Next
  <2>1. CASE \E name \in Names, t \in {-1, 150} : TimeTravel(name, t)
    BY <1>1, <2>1 DEF Other
  <2>2. CASE \E cmd \in Reports, arg \in Arguments : Report(cmd, arg)
    BY <1>2, <2>2 DEF Other
  <2>3. CASE \E name \in Names, p \in Paths :
                SaveRefused(name, p) \/ SaveCreate(name, p) \/ LoadRefused(name, p)
                   \/ Load(name, p) \/ LoadTaken(name, p)
    BY <1>3, <2>3 DEF Other
  <2> QED BY <1>4, <1>5, <1>6, <1>7, <1>8, <1>9, <1>11, <1>12, <2>1, <2>2, <2>3 DEF SaveStep, Said, Other
<1> QED BY <1>10, <1>12 DEF Said, Other

\* A row of the edge table under its own source is the row.
LEMMA SameSource == \A r \in Range(EdgeRows) : [r EXCEPT !.src = r.src] = r
<1> SUFFICES ASSUME NEW r \in Range(EdgeRows) PROVE [r EXCEPT !.src = r.src] = r
  OBVIOUS
<1>1. PICK i \in 1..6 : r = EdgeRows[i]
  BY EdgeTable DEF Range
<1>2. \E a, b, c, d, e : r = Edge(a, b, c, d, e)
  <2>1. i = 1 \/ i = 2 \/ i = 3 \/ i = 4 \/ i = 5 \/ i = 6
    OBVIOUS
  <2> QED BY <1>1, <2>1 DEF EdgeRows
<1> QED BY <1>2 DEF Edge

\* neighbors_record_batch copies the source it was asked for into rows that have
\* it already.
LEMMA BatchRows ==
    ASSUME NEW src \in Int, NEW t
    PROVE  LET found == Neighbors(ShellGraph, NodeCount, src, t)
               batch == NeighborsRecordBatch(ShellGraph, src, t)
           IN  /\ batch.ok = found.ok
               /\ batch.rows = [n \in DOMAIN found.rows |-> [found.rows[n] EXCEPT !.src = src]]
               /\ found.ok => batch = Ok(batch.rows)
               /\ src < NodeCount => Range(batch.rows) = {e \in Range(EdgeRows) : e.src = src /\ ActiveAt(e, t)}
<1> DEFINE found  == Neighbors(ShellGraph, NodeCount, src, t)
           batch  == NeighborsRecordBatch(ShellGraph, src, t)
           copied == [n \in DOMAIN found.rows |-> [found.rows[n] EXCEPT !.src = src]]
           Active == {e \in Range(EdgeRows) : e.src = src /\ ActiveAt(e, t)}
<1>1. found = [ok |-> found.ok, rows |-> found.rows]
  BY DEF Neighbors, Err, Ok
<1>2. batch = [found EXCEPT !.rows = copied]
  BY DEF NeighborsRecordBatch
<1> HIDE DEF copied, found, batch
<1>3. batch = [ok |-> found.ok, rows |-> copied]
  BY <1>1, <1>2
<1>4. found.ok => batch = Ok(copied)
  <2>1. found.ok => found.ok = TRUE
    BY DEF found, Neighbors, Err, Ok
  <2> QED BY <1>3, <2>1 DEF Ok
<1>5. ASSUME src < NodeCount PROVE Range(copied) = Active
  <2> DEFINE rows == found.rows
  <2>1. Range(rows) = Active
    BY <1>5, NeighborRows DEF found
  <2> HIDE DEF rows
  <2>2. ASSUME NEW n \in DOMAIN rows PROVE [rows[n] EXCEPT !.src = src] = rows[n]
    <3>1. rows[n] \in Active
      BY <2>1 DEF Range
    <3> QED BY <3>1, SameSource
  <2>3. copied = [n \in DOMAIN rows |-> [rows[n] EXCEPT !.src = src]]
    BY DEF copied, rows
  <2>4. DOMAIN copied = DOMAIN rows /\ \A n \in DOMAIN rows : copied[n] = rows[n]
    BY <2>2, <2>3
  <2> QED BY <2>1, <2>4 DEF Range
<1> QED BY <1>3, <1>4, <1>5 DEF found, batch, copied

\* The neighbors() table function is the neighbors command.
LEMMA FunctionIsCommand ==
    ASSUME Registered, NEW node \in Nat, NEW t,
           Neighbors(ShellGraph, NodeCount, node, t).ok
    PROVE  Sql(ctx, FromNeighbors(Num(node), Num(t))) = NeighborsRecordBatch(ShellGraph, node, t)
<1>1. ctx.csr = ShellGraph /\ ctx.nodeCount = NodeCount
  BY ShellContextGraph DEF Registered
<1> DEFINE q == FromNeighbors(Num(node), Num(t))
           found == Neighbors(ShellGraph, NodeCount, node, t)
           batch == NeighborsRecordBatch(ShellGraph, node, t)
<1>2. q.kind = "neighbors" /\ q.src = Num(node) /\ q.at = Num(t)
  BY DEF FromNeighbors
<1>3. IsU64(Num(node)) /\ IsI64(Num(t)) /\ Num(node).value = node /\ Num(t).value = t
  BY DEF IsU64, IsI64, Num
<1>4. batch = Ok([n \in DOMAIN found.rows |-> [found.rows[n] EXCEPT !.src = node]])
  <2>1. node \in Int
    OBVIOUS
  <2> HIDE DEF batch, found
  <2> QED BY <2>1, BatchRows DEF batch, found
<1> HIDE DEF q, batch
<1>5. CallNeighbors(ctx, q) = Ok([n \in DOMAIN found.rows |-> [found.rows[n] EXCEPT !.src = node]])
  BY <1>1, <1>2, <1>3 DEF CallNeighbors
<1> QED BY <1>2, <1>4, <1>5 DEF Sql, q, batch

\* What an answer says of the graph depends on the registrations, which a step
\* leaves alone.
LEMMA NextViews == Inv /\ Registered /\ GraphViewsAgree /\ [Next]_vars => GraphViewsAgree'
<1> SUFFICES ASSUME Inv, Registered, GraphViewsAgree, [Next]_vars, answer'.ok,
                    answer'.cmd = "neighbors" \/ (answer'.cmd = "khop" /\ answer'.rows # <<>>)
             PROVE  GraphViewsAgree'
  BY DEF GraphViewsAgree
<1>1. CASE UNCHANGED <<ctx, answer>>
  BY <1>1 DEF GraphViewsAgree
<1>2. ASSUME NEW node \in {0, 3, NodeCount}, NEW t \in {0, 100},
             NeighborsCommand(node, t) \/ \E k \in 0..2 : KhopCommand(node, k, t)
      PROVE  GraphViewsAgree'
  <2> DEFINE found == Neighbors(ShellGraph, NodeCount, node, t)
             fn == NeighborsRecordBatch(ShellGraph, node, t)
             Active == {e \in Range(EdgeRows) : e.src = node /\ ActiveAt(e, t)}
  <2>1. node \in Nat /\ node \in Int
    BY DEF NodeCount
  <2>2. ctx' = ctx /\ answer'.args.node = node /\ answer'.args.t = t
    BY <1>2 DEF NeighborsCommand, KhopCommand, state, Result
  <2>3. ASSUME NEW k \in 0..2, KhopCommand(node, k, t), answer'.rows # <<>>
        PROVE  k # 0 /\ node < NodeCount /\ answer'.rows[1].hop = Frontier({node}, t)
    <3> DEFINE one  == Frontier({node}, t)
               hops == << [hop |-> one], [hop |-> Frontier(one, t)] >>
    <3>1. (k = 0 \/ node < NodeCount) /\ answer'.rows = SubSeq(hops, 1, k)
      BY <2>3 DEF KhopCommand, Result
    <3>2. Len(hops) = 2 /\ hops[1].hop = one
      OBVIOUS
    <3> HIDE DEF hops, one
    <3>3. SubSeq(hops, 1, 0) = <<>>
      OBVIOUS
    <3>4. k # 0
      BY <2>3, <3>1, <3>3
    <3>5. SubSeq(hops, 1, k)[1] = hops[1]
      BY <3>4
    <3> QED BY <3>1, <3>2, <3>4, <3>5 DEF one
  <2>4. node < NodeCount
    <3>1. CASE NeighborsCommand(node, t)
      <4>1. fn.ok
        BY <3>1 DEF NeighborsCommand, Result
      <4>2. found.ok
        <5> HIDE DEF fn, found
        <5> QED BY <2>1, <4>1, BatchRows DEF fn, found
      <4>3. node \in Int /\ NodeCount \in Int
        BY <2>1 DEF NodeCount
      <4> QED BY <4>2, <4>3 DEF Neighbors, Err
    <3>2. ASSUME NEW k \in 0..2, KhopCommand(node, k, t) PROVE node < NodeCount
      <4>1. answer'.cmd = "khop"
        BY <3>2 DEF KhopCommand, Result
      <4> QED BY <2>3, <3>2, <4>1
    <3> QED BY <1>2, <3>1, <3>2
  <2>5. found.ok /\ fn.ok /\ Range(fn.rows) = Active
    <3>1. found.ok
      BY <2>1, <2>4, NeighborRows
    <3> HIDE DEF fn, found, Active
    <3> QED BY <2>1, <2>4, <3>1, BatchRows DEF fn, found, Active
  <2>6. Sql(ctx, FromNeighbors(Num(node), Num(t))) = fn
    BY <2>1, <2>5, FunctionIsCommand
  <2>7. answer'.cmd = "neighbors" => answer'.rows = fn.rows
    BY <1>2 DEF NeighborsCommand, KhopCommand, Result
  <2>8. answer'.cmd = "khop" => answer'.rows[1].hop = {r.dst : r \in Active}
    <3> SUFFICES ASSUME answer'.cmd = "khop" PROVE answer'.rows[1].hop = {r.dst : r \in Active}
      OBVIOUS
    <3>1. PICK k \in 0..2 : KhopCommand(node, k, t)
      BY <1>2 DEF NeighborsCommand, Result
    <3>2. answer'.rows # <<>>
      OBVIOUS
    <3>3. answer'.rows[1].hop = Frontier({node}, t)
      BY <2>3, <3>1, <3>2
    <3>4. Frontier({node}, t) = {r.dst : r \in Active}
      BY GraphRows DEF Frontier
    <3> QED BY <3>3, <3>4
  <2>9. \/ answer'.args.node # node \/ answer'.args.t # t
        \/ LET now == Sql(ctx', FromNeighbors(Num(answer'.args.node), Num(answer'.args.t))) IN now = fn
    BY <2>2, <2>6
  <2> HIDE DEF fn, found
  <2> QED BY <2>2, <2>5, <2>7, <2>8, <2>9 DEF GraphViewsAgree
<1>3. ASSUME NEW q \in Queries, RunSql(q) PROVE FALSE
  BY <1>3 DEF RunSql, Result
<1> QED BY <1>1, <1>2, <1>3, AnswerKinds

\* The neighbors command, the neighbors() table function, a slice of the edges
\* table as it was registered and the first hop of khop show the same edges,
\* whatever was loaded, saved, created, dropped, inserted, written to the LSM
\* store or restarted before.
THEOREM ViewsAgree == Spec => []GraphViewsAgree
<1>1. Init => GraphViewsAgree
  BY DEF Init, GraphViewsAgree, Nothing, Result
<1> QED BY <1>1, SpecRegistered, NextViews, PTL DEF Spec
--------------------------------------------------------------------------------
\* A set of naturals that is not empty has a least member.
LEMMA LeastNatural ==
    ASSUME NEW T \in SUBSET Nat, T # {}
    PROVE  \E m \in T : \A k \in T : m <= k
<1> DEFINE F == {0..n : n \in T}
<1>1. F \subseteq FiniteSubsetsOf(Nat) /\ F # {}
  <2> SUFFICES ASSUME NEW n \in T PROVE 0..n \in SUBSET Nat /\ IsFiniteSet(0..n)
    BY DEF FiniteSubsetsOf
  <2> QED BY FS_Interval
<1>2. PICK x \in F : \A y \in F : ~(<<y, x>> \in StrictSubsetOrdering(Nat))
  <2> HIDE DEF F
  <2> QED BY <1>1, FS_StrictSubsetOrderingWellFounded, WFMin
<1>3. PICK m \in T : x = 0..m
  OBVIOUS
<1>4. ASSUME NEW k \in T, k < m PROVE FALSE
  <2>1. 0..k \in F /\ 0..k \subseteq x /\ 0..k # x
    <3>1. m \in x /\ m \notin 0..k
      BY <1>3, <1>4
    <3> QED BY <1>3, <1>4, <3>1
  <2>2. <<0..k, x>> \in StrictSubsetOrdering(Nat)
    BY <1>3, <2>1 DEF StrictSubsetOrdering
  <2> QED BY <1>2, <2>1, <2>2
<1> QED BY <1>4

\* The distance of two vectors of one length is a number.
LEMMA DistanceType ==
    ASSUME NEW a \in Seq(Int), NEW b \in Seq(Int), Len(a) = Len(b)
    PROVE  SquaredL2(a, b) \in Int
<1> DEFINE n == Len(a)
           Term(i) == (a[i] - b[i]) * (a[i] - b[i])
           Of(g, i) == IF i = 0 THEN 0 ELSE g[i - 1] + Term(i)
           sum == CHOOSE g : g = [i \in 0..n |-> Of(g, i)]
           Bad == {m \in 0..n : ~\E g : g = [i \in 0..m |-> Of(g, i)]}
           Odd == {m \in 0..n : sum[m] \notin Int}
<1>0. n \in Nat
  OBVIOUS
<1>1. SquaredL2(a, b) = sum[n]
  BY DEF SquaredL2
<1>2. \A i \in 1..n : Term(i) \in Int
  OBVIOUS
<1> HIDE DEF n, Term
<1>3. ASSUME Bad # {} PROVE FALSE
  <2>1. Bad \in SUBSET Nat
    BY <1>0
  <2>2. PICK m \in Bad : \A j \in Bad : m <= j
    <3> HIDE DEF Bad
    <3> QED BY <1>3, <2>1, LeastNatural
  <2>3. m \in 0..n /\ ~\E g : g = [i \in 0..m |-> Of(g, i)]
    OBVIOUS
  <2>4. CASE m = 0
    <3> DEFINE g == [i \in 0..0 |-> 0]
    <3>1. g = [i \in 0..0 |-> Of(g, i)]
      OBVIOUS
    <3> HIDE DEF g
    <3> QED BY <2>3, <2>4, <3>1
  <2>5. CASE m # 0
    <3>1. m - 1 \in 0..n /\ ~(m <= m - 1)
      BY <1>0, <2>3, <2>5
    <3>2. m - 1 \notin Bad
      <4> HIDE DEF Bad
      <4> QED BY <2>2, <3>1
    <3>3. PICK g : g = [i \in 0..(m - 1) |-> Of(g, i)]
      BY <3>1, <3>2
    <3> DEFINE f == [i \in 0..m |-> Of(g, i)]
    <3>4. ASSUME NEW i \in 0..m PROVE Of(g, i) = Of(f, i)
      <4>1. CASE i = 0
        BY <4>1
      <4>2. CASE i # 0
        <5>1. i - 1 \in 0..(m - 1) /\ i - 1 \in 0..m
          BY <1>0, <2>3, <4>2
        <5>2. g[i - 1] = Of(g, i - 1)
          <6> HIDE DEF Of
          <6> QED BY <3>3, <5>1
        <5>3. f[i - 1] = Of(g, i - 1)
          <6> HIDE DEF Of
          <6> QED BY <5>1
        <5> HIDE DEF f
        <5> QED BY <4>2, <5>2, <5>3
      <4> QED BY <4>1, <4>2
    <3>5. f = [i \in 0..m |-> Of(f, i)]
      <4> HIDE DEF Of
      <4>1. [i \in 0..m |-> Of(g, i)] = [i \in 0..m |-> Of(f, i)]
        BY <3>4
      <4> QED BY <4>1
    <3> HIDE DEF f, Of
    <3> QED BY <2>3, <3>5
  <2> QED BY <2>4, <2>5
<1>4. sum = [i \in 0..n |-> Of(sum, i)]
  <2>1. \E g : g = [i \in 0..n |-> Of(g, i)]
    <3>1. n \in 0..n
      BY <1>0
    <3> QED BY <1>3, <3>1
  <2> HIDE DEF Of
  <2> QED BY <2>1
<1>5. \A i \in 0..n : sum[i] = Of(sum, i)
  <2> HIDE DEF Of, sum
  <2> QED BY <1>4
<1> HIDE DEF sum
<1>6. ASSUME Odd # {} PROVE FALSE
  <2>1. Odd \in SUBSET Nat
    BY <1>0
  <2>2. PICK m \in Odd : \A j \in Odd : m <= j
    <3> HIDE DEF Odd
    <3> QED BY <1>6, <2>1, LeastNatural
  <2>3. m \in 0..n /\ sum[m] \notin Int
    OBVIOUS
  <2>4. m # 0
    BY <1>5, <2>3
  <2>5. m - 1 \in 0..n /\ ~(m <= m - 1) /\ m \in 1..n
    BY <1>0, <2>3, <2>4
  <2>6. sum[m - 1] \in Int
    BY <2>2, <2>5
  <2>7. sum[m] = sum[m - 1] + Term(m)
    BY <1>5, <2>3, <2>4
  <2> QED BY <1>2, <2>3, <2>5, <2>6, <2>7
<1>7. sum[n] \in Int
  <2>1. n \in 0..n
    BY <1>0
  <2> QED BY <1>6, <2>1
<1> QED BY <1>1, <1>7
\* A size no collection reaches.
LEMMA HugeType == Huge \in Nat /\ 10 <= Huge
BY SMT DEF Huge

\* A collection KnnCollection::new accepted, of integer vectors under distinct ids.
IsCollection(c) ==
    /\ Len(c.ids) \in 0..Huge /\ Len(c.vectors) = Len(c.ids)
    /\ \A i \in 1..Len(c.ids) :
          c.ids[i] \in Int /\ c.vectors[i] \in Seq(Int) /\ Len(c.vectors[i]) = Len(c.vectors[1])
    /\ \A i, j \in 1..Len(c.ids) : c.ids[i] = c.ids[j] => i = j

\* The checks of KnnCollection::new give the lengths; ids that count from 0 are
\* distinct.
LEMMA CountedIds ==
    ASSUME NEW c, Accepted(c), NEW n \in 0..Huge, Len(c.ids) = n,
           \A i \in 1..n : c.ids[i] = i - 1 /\ c.vectors[i] \in Seq(Int)
    PROVE  IsCollection(c)
<1>0. n \in Int
  OBVIOUS
<1>1. Len(c.vectors) = n /\ \A i \in 1..n : Len(c.vectors[i]) = Len(c.vectors[1])
  BY DEF Accepted
<1>2. \A i, j \in 1..n : i - 1 \in Int /\ (i - 1 = j - 1 => i = j)
  BY <1>0
<1> QED BY <1>1, <1>2 DEF IsCollection

\* So are the two collections of the demo.
LEMMA DemoCollections ==
    ASSUME NEW c \in {Songs, Tss}, Accepted(c)
    PROVE  IsCollection(c)
<1>0. 10 \in 0..Huge /\ 4 \in 0..Huge
  BY HugeType
<1>1. CASE c = Songs
  <2>1. c.ids = [i \in 1..10 |-> i - 1]
    BY <1>1 DEF Songs, Collection
  <2>2. c.vectors = << <<0, 0>>, <<5, 5>>, <<50, 50>>, <<52, 51>>, <<10, 10>>,
                       <<11, 10>>, <<90, 90>>, <<91, 90>>, <<2, 1>>, <<49, 50>> >>
    BY <1>1 DEF Songs, Collection
  <2>3. Len(c.ids) = 10 /\ \A i \in 1..10 : c.ids[i] = i - 1
    BY <2>1
  <2>4. ASSUME NEW i \in 1..10 PROVE c.vectors[i] \in Seq(Int)
    <3>1. \A x, y \in Int : <<x, y>> \in Seq(Int)
      OBVIOUS
    <3>2. i = 1 \/ i = 2 \/ i = 3 \/ i = 4 \/ i = 5 \/ i = 6 \/ i = 7 \/ i = 8 \/ i = 9 \/ i = 10
      OBVIOUS
    <3>3. \E x, y \in Int : c.vectors[i] = <<x, y>>
      BY <2>2, <3>2
    <3> QED BY <3>1, <3>3
  <2> QED BY <1>0, <2>3, <2>4, CountedIds
<1>2. CASE c = Tss
  <2>1. c.ids = [i \in 1..4 |-> i - 1]
    BY <1>2 DEF Tss, Collection
  <2>2. c.vectors = << <<10, 20, 30, 40, 50, 60>>, <<50, 40, 20, 20, 40, 50>>,
                       <<30, 30, 30, 30, 30, 30>>, <<60, 50, 40, 30, 20, 10>> >>
    BY <1>2 DEF Tss, Collection
  <2>3. Len(c.ids) = 4 /\ \A i \in 1..4 : c.ids[i] = i - 1
    BY <2>1
  <2>4. ASSUME NEW i \in 1..4 PROVE c.vectors[i] \in Seq(Int)
    <3>1. c.vectors[1] = <<10, 20, 30, 40, 50, 60>> /\ c.vectors[2] = <<50, 40, 20, 20, 40, 50>>
      BY <2>2
    <3>2. c.vectors[3] = <<30, 30, 30, 30, 30, 30>> /\ c.vectors[4] = <<60, 50, 40, 30, 20, 10>>
      BY <2>2
    <3>3. c.vectors[1] \in Seq(Int) /\ c.vectors[2] \in Seq(Int)
      BY <3>1
    <3>4. c.vectors[3] \in Seq(Int) /\ c.vectors[4] \in Seq(Int)
      BY <3>2
    <3>5. i = 1 \/ i = 2 \/ i = 3 \/ i = 4
      OBVIOUS
    <3> QED BY <3>3, <3>4, <3>5
  <2> QED BY <1>0, <2>3, <2>4, CountedIds
<1> QED BY <1>1, <1>2

\* The rows are the k nearest of the pool, or all of it, nearest first and ties by id.
KNearest(c, v, k, pool, rows) ==
    LET given == {i \in pool : \E r \in Range(rows) : r.id = c.ids[i]}
        n     == Cardinality(pool)
    IN  /\ n \in 0..Huge /\ Len(rows) = IF k < n THEN k ELSE n
        /\ Cardinality(given) = Len(rows)
        /\ \A i \in given, j \in pool \ given : Nearer(c, v, i, j)
        /\ \A a, b \in 1..Len(rows) : a < b =>
              \/ rows[a].d2 < rows[b].d2
              \/ rows[a].d2 = rows[b].d2 /\ rows[a].id < rows[b].id

\* KnnCollection::search sorts what the label leaves and truncates it to k.
LEMMA SearchIs ==
    ASSUME NEW c, IsCollection(c), NEW v \in Seq(Int), Len(v) = Len(c.vectors[1]), NEW k \in Nat, NEW label
    PROVE  KNearest(c, v, k, Restricted(c, label), Search(c, v, k, label))
<1> DEFINE P == Restricted(c, label)
           R == {e \in P \X P : Nearer(c, v, e[1], e[2])}
           n == Cardinality(P)
           D(i) == SquaredL2(v, c.vectors[i])
           sorted == [m \in 1..n |-> CHOOSE x \in P : Cardinality({y \in P : Nearer(c, v, y, x)}) = m - 1]
           q == IF k < n THEN k ELSE n
           rows == Search(c, v, k, label)
           given == {i \in P : \E r \in Range(rows) : r.id = c.ids[i]}
<1>1. P \in SUBSET (1..Len(c.ids)) /\ Len(c.ids) \in 0..Huge
  BY DEF Restricted, IsCollection
<1>2. ASSUME NEW i \in P PROVE D(i) \in Int /\ c.ids[i] \in Int
  <2>1. c.vectors[i] \in Seq(Int) /\ Len(c.vectors[i]) = Len(v) /\ c.ids[i] \in Int
    BY <1>1 DEF IsCollection
  <2> QED BY <2>1, DistanceType
<1>3. \A i, j \in P : c.ids[i] = c.ids[j] => i = j
  BY <1>1 DEF IsCollection
<1>4. \A i, j \in P : Nearer(c, v, i, j) <=> D(i) < D(j) \/ (D(i) = D(j) /\ c.ids[i] < c.ids[j])
  BY DEF Nearer
<1>5. \A i, j \in P : <<i, j>> \in R <=> Nearer(c, v, i, j)
  OBVIOUS
<1>6. Orders(R, P)
  <2> HIDE DEF P, R, D
  <2>1. \A x \in P : ~Nearer(c, v, x, x)
    BY <1>2, <1>4
  <2>2. ASSUME NEW x \in P, NEW y \in P, x # y PROVE Nearer(c, v, x, y) \/ Nearer(c, v, y, x)
    <3>1. D(x) \in Int /\ D(y) \in Int /\ c.ids[x] \in Int /\ c.ids[y] \in Int /\ c.ids[x] # c.ids[y]
      BY <1>2, <1>3, <2>2
    <3>2. D(x) < D(y) \/ D(y) < D(x) \/ (D(x) = D(y) /\ (c.ids[x] < c.ids[y] \/ c.ids[y] < c.ids[x]))
      BY <3>1
    <3> QED BY <1>4, <3>2
  <2>3. ASSUME NEW x \in P, NEW y \in P, NEW z \in P, Nearer(c, v, x, y), Nearer(c, v, y, z)
        PROVE  Nearer(c, v, x, z)
    <3>1. D(x) \in Int /\ D(y) \in Int /\ D(z) \in Int /\ c.ids[x] \in Int /\ c.ids[y] \in Int /\ c.ids[z] \in Int
      BY <1>2
    <3>2. /\ D(x) < D(y) \/ (D(x) = D(y) /\ c.ids[x] < c.ids[y])
          /\ D(y) < D(z) \/ (D(y) = D(z) /\ c.ids[y] < c.ids[z])
      BY <1>4, <2>3
    <3>3. D(x) < D(z) \/ (D(x) = D(z) /\ c.ids[x] < c.ids[z])
      BY <3>1, <3>2
    <3> QED BY <1>4, <3>3
  <2> QED BY <1>5, <2>1, <2>2, <2>3 DEF Orders
<1>7. IsFiniteSet(P) /\ n \in 0..Huge
  <2>1. Huge \in Nat
    BY HugeType
  <2>2. Len(c.ids) \in Nat /\ 1 \in Int /\ Len(c.ids) \in Int
    BY <1>1, <2>1
  <2>3. IsFiniteSet(1..Len(c.ids)) /\ Cardinality(1..Len(c.ids)) = Len(c.ids)
    <3>1. IsFiniteSet(1..Len(c.ids)) /\ Cardinality(1..Len(c.ids)) = IF 1 > Len(c.ids) THEN 0 ELSE Len(c.ids) - 1 + 1
      BY <2>2, FS_Interval
    <3> QED BY <2>2, <3>1
  <2> HIDE DEF P
  <2>4. IsFiniteSet(P) /\ Cardinality(P) <= Len(c.ids)
    BY <1>1, <2>3, FS_Subset
  <2>5. Cardinality(P) \in Nat
    BY <2>4, FS_CardinalityType
  <2> QED BY <1>1, <2>1, <2>2, <2>4, <2>5
<1>8. sorted = Arranged(P, R)
  <2> DEFINE A(x) == Cardinality({y \in P : Nearer(c, v, y, x)})
             B(x) == Cardinality({y \in P : <<y, x>> \in R})
  <2>1. ASSUME NEW x \in P PROVE A(x) = B(x)
    <3>1. {y \in P : Nearer(c, v, y, x)} = {y \in P : <<y, x>> \in R}
      BY <1>5
    <3> QED BY <3>1
  <2>2. /\ sorted = [i \in 1..n |-> CHOOSE x \in P : A(x) = i - 1]
        /\ Arranged(P, R) = [i \in 1..n |-> CHOOSE x \in P : B(x) = i - 1]
    BY DEF Arranged
  <2> HIDE DEF R, A, B, P, n, sorted
  <2>3. ASSUME NEW i \in 1..n PROVE (CHOOSE x \in P : A(x) = i - 1) = (CHOOSE x \in P : B(x) = i - 1)
    BY <2>1, Zenon
  <2> QED BY <2>2, <2>3, Zenon
<1> DEFINE f == sorted
<1>9. /\ f \in [1..n -> P] /\ \A x \in P : \E i \in 1..n : f[i] = x
      /\ \A i, j \in 1..n : i < j => f[i] # f[j] /\ Nearer(c, v, f[i], f[j])
  <2> HIDE DEF P, R, sorted
  <2>1. /\ f \in [1..n -> P] /\ \A x \in P : \E i \in 1..n : f[i] = x
        /\ \A i, j \in 1..n : i < j => f[i] # f[j] /\ <<f[i], f[j]>> \in R
    BY <1>6, <1>7, <1>8, ArrangedIs
  <2> HIDE DEF f, n
  <2> QED BY <1>5, <2>1
<1>10. Len(sorted) = n
  <2> HIDE DEF sorted, n, P
  <2> QED BY <1>7, <1>9
<1>11. rows = [m \in 1..q |-> [id |-> c.ids[f[m]], d2 |-> D(f[m])]]
  <2> DEFINE l == Len(sorted)
  <2>1. rows = [m \in 1..(IF k < l THEN k ELSE l) |-> [id |-> c.ids[sorted[m]], d2 |-> SquaredL2(v, c.vectors[sorted[m]])]]
    BY DEF Search, Sorted
  <2>2. l = n
    BY <1>10
  <2> HIDE DEF l, sorted, n, rows
  <2> QED BY <2>1, <2>2
<1>12. q \in 0..n /\ 1..q \subseteq 1..n
  <2> HIDE DEF n
  <2> QED BY <1>7
<1> HIDE DEF P, R, n, D, f, sorted, rows, q
<1>13. DOMAIN rows = 1..q /\ Len(rows) = q
  BY <1>7, <1>11, <1>12
<1>14. \A m \in 1..q : rows[m].id = c.ids[f[m]] /\ rows[m].d2 = D(f[m]) /\ f[m] \in P
  BY <1>9, <1>11, <1>12
<1>15. given = {f[m] : m \in 1..q}
  <2>1. ASSUME NEW i \in given PROVE \E m \in 1..q : i = f[m]
    <3>1. PICK m \in 1..q : rows[m].id = c.ids[i]
      BY <1>13 DEF Range
    <3> QED BY <1>3, <1>14, <3>1
  <2>2. ASSUME NEW m \in 1..q PROVE f[m] \in given
    BY <1>13, <1>14 DEF Range
  <2> HIDE DEF given
  <2> QED BY <2>1, <2>2
<1> HIDE DEF given
<1>16. Cardinality(given) = q
  <2> DEFINE h == [m \in 1..q |-> f[m]]
  <2>1. ASSUME NEW a \in 1..q, NEW b \in 1..q, f[a] = f[b] PROVE a = b
    <3>1. a \in 1..n /\ b \in 1..n /\ a \in Int /\ b \in Int
      BY <1>12
    <3>2. ~(a < b) /\ ~(b < a)
      BY <1>9, <2>1, <3>1
    <3> QED BY <3>1, <3>2
  <2>2. h \in Bijection(1..q, given)
    BY <1>15, <2>1 DEF Bijection, Injection, IsInjective, Surjection
  <2>3. q \in Nat
    BY <1>7, <1>12
  <2> HIDE DEF h
  <2>4. ExistsBijection(1..q, given)
    BY <2>2 DEF ExistsBijection
  <2> QED BY <2>3, <2>4, FS_CountingElements
<1>17. ASSUME NEW i \in given, NEW j \in P \ given PROVE Nearer(c, v, i, j)
  <2>1. PICK a \in 1..q : i = f[a]
    BY <1>15
  <2>2. PICK b \in 1..n : j = f[b]
    BY <1>9
  <2>3. b \notin 1..q
    BY <1>15, <2>2
  <2>4. a \in 1..n /\ a < b
    BY <1>7, <1>12, <2>3
  <2> QED BY <1>9, <2>1, <2>2, <2>4
<1>18. ASSUME NEW a \in 1..q, NEW b \in 1..q, a < b
       PROVE  \/ rows[a].d2 < rows[b].d2
              \/ rows[a].d2 = rows[b].d2 /\ rows[a].id < rows[b].id
  <2>1. Nearer(c, v, f[a], f[b])
    BY <1>9, <1>12, <1>18
  <2> QED BY <1>4, <1>14, <2>1
<1>19. KNearest(c, v, k, P, rows)
  BY <1>7, <1>13, <1>16, <1>17, <1>18 DEF KNearest, n, given, q
<1> QED BY <1>19 DEF P, rows
\* A call of knn() that is answered.
LEMMA KnnAnswered ==
    ASSUME Registered, NEW q \in Queries, q.kind = "knn", Sql(ctx, q).ok
    PROVE  LET c == ctx.knn[q.name.text]
           IN  /\ IsCollection(c)
               /\ q.query.vector \in Seq(Int) /\ Len(q.query.vector) = Len(c.vectors[1])
               /\ q.k.value \in Int
               /\ q.label = Missing \/ IsString(q.label)
               /\ Sql(ctx, q).rows = Search(c, q.query.vector, AsUsize(q.k.value), q.label)
<1> DEFINE c == ctx.knn[q.name.text]
<1>1. Sql(ctx, q) = CallKnn(ctx, q)
  BY DEF Sql
<1>2. /\ IsString(q.name) /\ IsString(q.query) /\ IsI64(q.k)
      /\ q.label = Missing \/ IsString(q.label)
      /\ q.name.text \in DOMAIN ctx.knn
      /\ Len(q.query.vector) = Len(c.vectors[1])
  BY <1>1 DEF CallKnn, Err
<1>3. CallKnn(ctx, q).rows = Search(c, q.query.vector, AsUsize(q.k.value), q.label)
  BY <1>1 DEF CallKnn, Err, Ok
<1>4. IsCollection(c)
  BY <1>2, ShellContextGraph, DemoCollections DEF Registered
<1>5. q.query.vector \in Seq(Int) /\ q.k.value \in Int
  BY <1>2, QueriesAssumption
<1> HIDE DEF c
<1> QED BY <1>1, <1>2, <1>3, <1>4, <1>5 DEF c

\* k as usize, for a k that fits: all of the rows when there are no more than k.
LEMMA Kept ==
    ASSUME NEW k \in Nat, NEW n \in 0..Huge
    PROVE  /\ AsUsize(k) \in Nat
           /\ (IF AsUsize(k) < n THEN AsUsize(k) ELSE n) = IF k > n THEN n ELSE k
BY HugeType DEF AsUsize

\* An answered call of knn() returns the nearest rows.
LEMMA SearchIsNearest ==
    ASSUME NEW c, IsCollection(c), NEW args, args.query.vector \in Seq(Int), args.k.value \in Nat,
           Len(args.query.vector) = Len(c.vectors[1]),
           args.label = Missing \/ (IsString(args.label) /\ c.hasLabels)
    PROVE  Nearest(c, args, Search(c, args.query.vector, AsUsize(args.k.value), args.label))
<1> DEFINE v     == args.query.vector
           k     == args.k.value
           m     == AsUsize(k)
           rows  == Search(c, v, m, args.label)
           pool  == {i \in 1..Len(c.ids) : \/ args.label = Missing
                                           \/ c.labels[i] = args.label.text}
           given == {i \in pool : \E r \in Range(rows) : r.id = c.ids[i]}
           dist  == [i \in 1..Len(c.ids) |-> SquaredL2(v, c.vectors[i])]
           n     == Cardinality(pool)
<1>1. m \in Nat
  <2>1. 0 \in 0..Huge
    BY HugeType
  <2> HIDE DEF k
  <2> QED BY <2>1, Kept DEF k
<1>2. pool = Restricted(c, args.label)
  <2>1. args.label = Missing => ~IsString(args.label)
    BY DEF Missing, IsString
  <2>2. Len(c.ids) = Len(c.vectors)
    BY DEF IsCollection
  <2> QED BY <2>1, <2>2 DEF Restricted
<1>3. /\ n \in 0..Huge /\ Len(rows) = IF m < n THEN m ELSE n
      /\ Cardinality(given) = Len(rows)
      /\ \A i \in given, j \in pool \ given : Nearer(c, v, i, j)
      /\ \A a, b \in 1..Len(rows) : a < b =>
            \/ rows[a].d2 < rows[b].d2
            \/ rows[a].d2 = rows[b].d2 /\ rows[a].id < rows[b].id
  <2>1. v \in Seq(Int) /\ Len(v) = Len(c.vectors[1])
    OBVIOUS
  <2> HIDE DEF v, m
  <2>2. KNearest(c, v, m, Restricted(c, args.label), rows)
    BY <1>1, <2>1, SearchIs
  <2>3. KNearest(c, v, m, pool, rows)
    <3> HIDE DEF pool, rows
    <3> QED BY <1>2, <2>2
  <2> HIDE DEF pool, rows
  <2> QED BY <2>3 DEF KNearest
<1>4. Cardinality(given) = IF k > n THEN n ELSE k
  <2>1. (IF m < n THEN m ELSE n) = IF k > n THEN n ELSE k
    <3> HIDE DEF k, n
    <3> QED BY <1>3, Kept DEF k
  <2> HIDE DEF k, n, m, given, rows
  <2> QED BY <1>3, <2>1
<1>5. \A i \in given, j \in pool \ given : dist[i] < dist[j] \/ (dist[i] = dist[j] /\ c.ids[i] < c.ids[j])
  <2>1. given \subseteq 1..Len(c.ids) /\ pool \subseteq 1..Len(c.ids)
    OBVIOUS
  <2>2. \A i \in 1..Len(c.ids) : dist[i] = SquaredL2(v, c.vectors[i])
    OBVIOUS
  <2> HIDE DEF dist, given, pool, v
  <2> QED BY <1>3, <2>1, <2>2 DEF Nearer
<1>6. Nearest(c, args, rows) <=>
        /\ Len(rows) = Cardinality(given)
        /\ Cardinality(given) = IF k > n THEN n ELSE k
        /\ \A i \in given, j \in pool \ given :
              dist[i] < dist[j] \/ (dist[i] = dist[j] /\ c.ids[i] < c.ids[j])
        /\ \A a, b \in 1..Len(rows) : a < b =>
              \/ rows[a].d2 < rows[b].d2
              \/ rows[a].d2 = rows[b].d2 /\ rows[a].id < rows[b].id
  BY DEF Nearest
<1> HIDE DEF given, pool, dist, rows, n, k
<1>7. Nearest(c, args, rows)
  BY <1>3, <1>4, <1>5, <1>6
<1> QED BY <1>7 DEF rows, k

\* Every answer of knn() is exact when it is given and stays so.
LEMMA NextKnn == Inv /\ Registered /\ KnnExact /\ [Next]_vars => KnnExact'
<1> SUFFICES ASSUME Inv, Registered, KnnExact, [Next]_vars,
                    answer'.cmd = "sql", answer'.ok, answer'.args.kind = "knn",
                    answer'.args.k.value >= 0,
                    answer'.args.label # Missing => ctx'.knn[answer'.args.name.text].hasLabels
             PROVE  Nearest(ctx'.knn[answer'.args.name.text], answer'.args, answer'.rows)
  BY DEF KnnExact
<1>1. CASE UNCHANGED <<ctx, answer>>
  BY <1>1 DEF KnnExact
<1>2. ASSUME NEW node \in {0, 3, NodeCount}, NEW t \in {0, 100},
             NeighborsCommand(node, t) \/ \E k \in 0..2 : KhopCommand(node, k, t)
      PROVE  FALSE
  BY <1>2 DEF NeighborsCommand, KhopCommand, Result
<1>3. ASSUME NEW q \in Queries, RunSql(q)
      PROVE  Nearest(ctx'.knn[answer'.args.name.text], answer'.args, answer'.rows)
  <2> DEFINE c == ctx.knn[q.name.text]
  <2>1. /\ ctx' = SqlEffect(ctx, q) /\ answer'.args = q
        /\ answer'.rows = Sql(ctx, q).rows /\ Sql(ctx, q).ok
    BY <1>3 DEF RunSql, Result
  <2>2. /\ IsCollection(c) /\ q.query.vector \in Seq(Int) /\ q.k.value \in Int
        /\ Len(q.query.vector) = Len(c.vectors[1])
        /\ q.label = Missing \/ IsString(q.label)
        /\ answer'.rows = Search(c, q.query.vector, AsUsize(q.k.value), q.label)
    BY <2>1, KnnAnswered
  <2>3. ctx'.knn = ctx.knn
    BY <2>1 DEF SqlEffect
  <2>4. ctx'.knn[answer'.args.name.text] = c
    BY <2>1, <2>3
  <2> HIDE DEF c
  <2>5. q.k.value \in Nat /\ (q.label = Missing \/ (IsString(q.label) /\ c.hasLabels))
    BY <2>1, <2>2, <2>4
  <2>6. Nearest(c, q, answer'.rows)
    BY <2>2, <2>5, SearchIsNearest
  <2> QED BY <2>1, <2>4, <2>6
<1> QED BY <1>1, <1>2, <1>3, AnswerKinds

\* knn() is exact for any statement over the demo's collections, with a k that is
\* not negative and a label only where there are labels: the k nearest rows, of
\* those with the label if one is given, nearest first and ties by id.
THEOREM KnnIsExact == Spec => []KnnExact
<1>1. Init => KnnExact
  <2>1. Init => answer.cmd # "sql"
    BY DEF Init, Nothing, Result
  <2> QED BY <2>1 DEF KnnExact
<1> QED BY <1>1, SpecRegistered, NextKnn, PTL DEF Spec
================================================================================
