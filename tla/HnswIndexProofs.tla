---------------------------- MODULE HnswIndexProofs ----------------------------
(***************************************************************************)
(* HnswIndex, proved for any vectors, beam widths and numbers of nodes and *)
(* layers: everything indexed is there, no list outgrows its bound, and a  *)
(* search under a mask returns as many nodes as it can, exactly the        *)
(* nearest ones when the beam is as wide as the index.                     *)
(***************************************************************************)
EXTENDS HnswIndex, FiniteSetTheorems, TLAPS

\* While a node is being inserted it has the layers drawn for it, and its lists
\* are still empty where it has not been linked yet.
Inserting ==
    op = "insert" /\ pc \in {"descend", "beam"} =>
        /\ NewIdx \in Nodes /\ DOMAIN layers[NewIdx] = 0..floor
        /\ \A l \in 0..floor : l <= layer => layers[NewIdx][l] = {}

\* search_knn searches layer 0 for at least one node.
Searching == op = "search" /\ pc \in {"descend", "beam"} => floor = 0 /\ k > 0

\* The sets of the beam search are empty outside it.
Quiet ==
    pc \in {"idle", "descend", "refused"} => visited = {} /\ candidates = {} /\ results = {}

\* A set of nodes no link of the layer leaves.
Closed(S) == \A j \in S : layer \in DOMAIN layers[j] => layers[j][layer] \subseteq S

\* search_layer: the visited nodes have the layer and are all linked from the
\* entry point, the links of every expanded one have been followed, and the
\* results are as many of the allowed visited nodes as the beam holds.
Beam ==
    pc = "beam" =>
        /\ layer <= floor /\ cur \in visited
        /\ \A i \in visited : layer \in DOMAIN layers[i]
        /\ \A i \in visited \ candidates : layers[i][layer] \subseteq visited
        /\ \A S \in SUBSET Nodes : cur \in S /\ Closed(S) => visited \subseteq S
        /\ results \subseteq mask
        /\ Cardinality(results) = IF Cardinality(visited \cap mask) < Ef
                                  THEN Cardinality(visited \cap mask) ELSE Ef

\* The layers are a vector with one entry per node.
Listed == layers = [i \in Nodes |-> layers[i]]

Shape == Listed /\ Inserting /\ Searching /\ Quiet /\ Beam

\* Levels drawn with m >= 2 are layers.
Tight ==
    /\ M # 1 /\ pc # "panicked"
    /\ maxLevel \in 0..MaxLevel /\ floor \in 0..MaxLevel /\ layer \in 0..MaxLevel

InRange == TypeOK /\ Tight /\ LayersInRange

\* What holds of an index whose levels can be drawn.
Built == InRange /\ DegreeBound /\ Shape /\ MaskedSearchFills /\ WideBeamIsExact

--------------------------------------------------------------------------------
\* Vectors the distances are taken from.
Points == Vectors \cup {<<>>}

\* The arguments of HnswIndex::new.
LEMMA Arguments ==
    ASSUME index \in Indexes
    PROVE  /\ \A v \in Points : v = <<>> \/ (Len(v) = 1 /\ v[1] \in Int)
           /\ MaxNodes \in Nat /\ MaxLevel \in Nat /\ Ks \subseteq Nat
           /\ index.m \in Nat /\ M \in Nat /\ EfConstruction \in Nat \ {0} /\ EfSearch \in Nat \ {0}
           /\ \A l \in Nat : MaxDegree(l) \in Nat
<1>1. /\ \A v \in index.vectors : v = <<>> \/ (Len(v) = 1 /\ v[1] \in Int)
      /\ index.nodes \in Nat /\ index.level \in Nat /\ index.ks \subseteq Nat
      /\ index.m \in Nat /\ index.efConstruction \in Nat /\ index.efSearch \in Nat
  BY HnswAssumption
<1> QED BY <1>1 DEF Points, Vectors, MaxNodes, MaxLevel, Ks, M, EfConstruction, EfSearch, MaxDegree, Larger

LEMMA ArgumentsNext ==
    ASSUME (index \in Indexes)'
    PROVE  (\A l \in Nat : MaxDegree(l) \in Nat)'
<1>1. (index.m \in Nat)'
  BY HnswAssumption
<1> QED BY <1>1 DEF MaxDegree, M, Larger

\* Distances are numbers.
LEMMA DistanceType ==
    ASSUME TypeOK, NEW v \in Points, NEW i \in Nodes
    PROVE  Distance(v, i) \in Int
<1>1. vector[i] \in Points
  BY DEF TypeOK, Tight, Nodes, Points
<1>2. \A x, y \in Int : (x - y) * (x - y) \in Int
  OBVIOUS
<1>3. /\ v = <<>> \/ v[1] \in Int
      /\ vector[i] = <<>> \/ vector[i][1] \in Int
  BY <1>1, Arguments DEF TypeOK, Tight
<1> QED BY <1>2, <1>3 DEF Distance, SquaredL2

\* (distance, position) is a strict total order.
LEMMA CloserOrder ==
    ASSUME TypeOK, NEW v \in Points
    PROVE  /\ \A i \in Nodes : ~Closer(v, i, i)
           /\ \A i, j \in Nodes : i # j => Closer(v, i, j) \/ Closer(v, j, i)
           /\ \A i, j, x \in Nodes : Closer(v, i, j) /\ Closer(v, j, x) => Closer(v, i, x)
<1>1. \A i \in Nodes : Distance(v, i) \in Int /\ i \in Int
  BY DistanceType DEF Nodes
<1> QED BY <1>1 DEF Closer

\* The rank of a node of S: the number of nodes of S closer than it.
Rank(v, S) == [i \in S |-> Cardinality({j \in S : Closer(v, j, i)})]

\* Ranks are distinct, and are the numbers up to the size of S.
LEMMA RankNumbers ==
    ASSUME TypeOK, NEW v \in Points, NEW S \in SUBSET Nodes
    PROVE  /\ IsFiniteSet(S) /\ Cardinality(S) \in Nat
           /\ Rank(v, S) \in Injection(S, 0..(Cardinality(S) - 1))
           /\ Rank(v, S) \in Surjection(S, 0..(Cardinality(S) - 1))
<1> DEFINE Below(i) == {j \in S : Closer(v, j, i)}
           T == 0..(Cardinality(S) - 1)
<1>1. IsFiniteSet(S)
  <2>1. IsFiniteSet(Nodes)
    BY FS_Interval DEF Nodes, TypeOK, Tight
  <2> QED BY <2>1, FS_Subset
<1>2. Cardinality(S) \in Nat
  BY <1>1, FS_CardinalityType
<1>3. ASSUME NEW i \in S PROVE IsFiniteSet(Below(i)) /\ Cardinality(Below(i)) \in T
  <2>1. Below(i) \in SUBSET S /\ Below(i) # S
    BY CloserOrder
  <2>2. IsFiniteSet(Below(i)) /\ Cardinality(Below(i)) <= Cardinality(S) /\ Cardinality(Below(i)) # Cardinality(S)
    <3> HIDE DEF Below
    <3> QED BY <1>1, <2>1, FS_Subset
  <2>3. Cardinality(Below(i)) \in Nat
    BY <2>2, FS_CardinalityType
  <2> QED BY <1>2, <2>2, <2>3
<1>4. ASSUME NEW i \in S, NEW j \in S, Closer(v, i, j) PROVE Cardinality(Below(i)) # Cardinality(Below(j))
  <2>1. Below(i) \in SUBSET Below(j) /\ Below(i) # Below(j)
    BY <1>4, CloserOrder
  <2> HIDE DEF Below
  <2> QED BY <1>3, <2>1, FS_Subset
<1>5. Rank(v, S) \in Injection(S, T)
  <2>1. Rank(v, S) = [i \in S |-> Cardinality(Below(i))]
    BY DEF Rank
  <2>2. ASSUME NEW i \in S, NEW j \in S, i # j PROVE Cardinality(Below(i)) # Cardinality(Below(j))
    <3>1. CASE Closer(v, i, j)
      BY <1>4, <3>1
    <3>2. CASE Closer(v, j, i)
      <4>1. Cardinality(Below(j)) # Cardinality(Below(i))
        BY <1>4, <3>2
      <4> QED BY <4>1
    <3> QED BY <2>2, <3>1, <3>2, CloserOrder
  <2> HIDE DEF Below
  <2> QED BY <1>3, <2>1, <2>2 DEF Injection, IsInjective
<1>6. IsFiniteSet(T) /\ Cardinality(T) = Cardinality(S)
  BY <1>2, FS_Interval
<1>7. Rank(v, S) \in Surjection(S, T)
  <2> HIDE DEF T
  <2> QED BY <1>5, <1>6, FS_Injection
<1> QED BY <1>1, <1>2, <1>5, <1>7

\* Truncating to n keeps n nodes, or all of them if there are no more.
LEMMA NearestCount ==
    ASSUME TypeOK, NEW v \in Points, NEW S \in SUBSET Nodes, NEW n \in Nat
    PROVE  /\ Nearest(v, S, n) \in SUBSET S
           /\ Cardinality(S) <= n => Nearest(v, S, n) = S
           /\ Cardinality(Nearest(v, S, n)) = IF Cardinality(S) < n THEN Cardinality(S) ELSE n
<1> DEFINE N == Nearest(v, S, n)
           R == Rank(v, S)
           T == 0..(Cardinality(S) - 1)
<1>1. N = {i \in S : R[i] < n}
  BY DEF Nearest, Rank
<1>2. Cardinality(S) \in Nat /\ R \in Injection(S, T) /\ R \in Surjection(S, T)
  BY RankNumbers
<1> HIDE DEF N, R
<1>3. R \in [S -> T] /\ (\A i, j \in S : R[i] = R[j] => i = j) /\ \A t \in T : \E i \in S : R[i] = t
  <2> HIDE DEF T
  <2> QED BY <1>2 DEF Injection, IsInjective, Surjection
<1>4. Cardinality(S) <= n => N = S
  <2>1. \A i \in S : R[i] \in 0..(Cardinality(S) - 1)
    BY <1>3
  <2>2. ASSUME Cardinality(S) <= n, NEW i \in S PROVE R[i] < n
    BY <1>2, <2>1, <2>2
  <2> QED BY <1>1, <2>2
<1>5. ASSUME n < Cardinality(S) PROVE Cardinality(N) = n
  <2> DEFINE f == [i \in N |-> R[i]]
             U == 0..(n - 1)
  <2>1. f \in [N -> U] /\ \A i, j \in N : f[i] = f[j] => i = j
    BY <1>1, <1>3
  <2>2. \A u \in U : \E i \in N : f[i] = u
    <3> SUFFICES ASSUME NEW u \in U PROVE \E i \in N : f[i] = u
      OBVIOUS
    <3>1. u \in T
      BY <1>2, <1>5
    <3>2. PICK i \in S : R[i] = u
      BY <1>3, <3>1
    <3>3. i \in N
      BY <1>1, <3>2
    <3> QED BY <3>2, <3>3
  <2>3. IsFiniteSet(U) /\ Cardinality(U) = n
    BY FS_Interval
  <2> HIDE DEF f, U
  <2>4. f \in Injection(N, U) /\ f \in Surjection(N, U)
    BY <2>1, <2>2 DEF Injection, IsInjective, Surjection
  <2> QED BY <2>3, <2>4, FS_Injection
<1>6. Cardinality(N) = IF Cardinality(S) < n THEN Cardinality(S) ELSE n
  BY <1>2, <1>4, <1>5
<1>7. N \in SUBSET S
  BY <1>1
<1> QED BY <1>4, <1>6, <1>7 DEF N

\* A non-empty set has a first node.
LEMMA FirstIn ==
    ASSUME TypeOK, NEW v \in Points, NEW S \in SUBSET Nodes, S # {}
    PROVE  First(v, S) \in S
<1> DEFINE R == Rank(v, S)
           T == 0..(Cardinality(S) - 1)
<1>1. IsFiniteSet(S) /\ Cardinality(S) \in Nat /\ R \in Surjection(S, T)
  BY RankNumbers
<1>2. Cardinality(S) # 0
  BY <1>1, FS_EmptySet
<1>3. 0 \in T
  BY <1>1, <1>2
<1>4. PICK i \in S : R[i] = 0
  <2> HIDE DEF R, T
  <2> QED BY <1>1, <1>3 DEF Surjection
<1>5. {j \in S : Closer(v, j, i)} = {}
  <2>1. IsFiniteSet({j \in S : Closer(v, j, i)})
    BY <1>1, FS_Subset
  <2>2. Cardinality({j \in S : Closer(v, j, i)}) = 0
    BY <1>4 DEF Rank
  <2> QED BY <2>1, <2>2, FS_EmptySet
<1>6. \A j \in S \ {i} : Closer(v, i, j)
  BY <1>5, CloserOrder
<1> QED BY <1>6 DEF First

--------------------------------------------------------------------------------
\* A node that has a layer has all layers below it.
LEMMA LayersBelow ==
    ASSUME TypeOK, Tight, NEW i \in Nodes
    PROVE  /\ 0 \in DOMAIN layers[i]
           /\ \A l \in DOMAIN layers[i] :
                 l \in 0..MaxLevel /\ 0..l \subseteq DOMAIN layers[i] /\ layers[i][l] \subseteq Nodes
<1>1. PICK top \in 0..MaxLevel : layers[i] \in [0..top -> SUBSET Nodes]
  BY DEF TypeOK, Tight, Levels
<1>2. MaxLevel \in Nat
  BY Arguments DEF TypeOK, Tight
<1> QED BY <1>1, <1>2

\* An empty index, and no call.
LEMMA InitBuilt == Init /\ M # 1 => Built
<1> SUFFICES ASSUME Init, M # 1 PROVE Built
  OBVIOUS
<1>1. MaxLevel \in Nat /\ MaxNodes \in Nat
  BY Arguments DEF Init
<1>2. Nodes = {} /\ Len(vector) = 0
  BY DEF Init, Nodes
<1>3. TypeOK /\ Tight
  BY <1>1, <1>2 DEF Init, TypeOK, Tight
<1>4. InRange /\ DegreeBound
  BY <1>2, <1>3 DEF Init, InRange, LayersInRange, DegreeBound
<1>5. Shape /\ MaskedSearchFills /\ WideBeamIsExact
  BY <1>2 DEF Init, Shape, Listed, Inserting, Searching, Quiet, Beam, MaskedSearchFills, WideBeamIsExact, Answered
<1> QED BY <1>4, <1>5 DEF Built

\* A step that leaves the graph alone has to keep its own variables in range.
LEMMA SameGraph ==
    ASSUME InRange, DegreeBound, UNCHANGED graph,
           pc' \in {"idle", "descend", "beam", "returned", "refused"}, op' \in {"insert", "search"},
           query' \in Points, k' \in Ks \cup {0}, mask' \subseteq Nodes,
           floor' \in 0..MaxLevel, layer' \in 0..MaxLevel, cur' \in Nat,
           visited' \subseteq Nodes, candidates' \subseteq visited', results' \subseteq visited',
           answer' \subseteq Nodes,
           pc' \in {"descend", "beam"} => cur' \in Nodes /\ layer' \in DOMAIN layers[cur'],
           \A c \in candidates' : layer' \in DOMAIN layers[c]
    PROVE  InRange' /\ DegreeBound' /\ (Listed => Listed')
<1>1. /\ Nodes' = Nodes /\ MaxLevel' = MaxLevel /\ MaxNodes' = MaxNodes
      /\ Vectors' = Vectors /\ Ks' = Ks /\ M' = M /\ Levels' = Levels
      /\ UNCHANGED <<index, vector, layers, entry, maxLevel, dim>>
  BY DEF graph, Nodes, MaxLevel, MaxNodes, Vectors, Ks, M, Levels
<1>2. (TypeOK /\ Tight)'
  <2>1. Tight'
    BY <1>1 DEF InRange, Tight
  <2>2. floor' \in -1..MaxLevel /\ layer' \in 0..(MaxLevel + 1) /\ maxLevel \in 0..(MaxLevel + 1) /\ index \in Indexes
    <3>1. MaxLevel \in Nat /\ maxLevel \in 0..(MaxLevel + 1)
      BY Arguments DEF InRange, TypeOK
    <3> QED BY <3>1 DEF InRange, TypeOK
  <2>3. query' \in Vectors \cup {<<>>}
    BY DEF Points
  <2>4. TypeOK'
    BY <1>1, <2>2, <2>3 DEF InRange, TypeOK
  <2> QED BY <2>1, <2>4
<1>3. DegreeBound'
  BY <1>1 DEF DegreeBound, MaxDegree
<1>4. InRange'
  BY <1>1, <1>2 DEF InRange, LayersInRange
<1>5. Listed => Listed'
  BY <1>1 DEF Listed
<1> QED BY <1>3, <1>4, <1>5

\* The calls that end at once, and the start of a search.
LEMMA CallsKeep ==
    ASSUME Built,
           \/ \E v \in Vectors : InsertRefused(v)
           \/ \E v \in Vectors, n \in Ks, fits \in BOOLEAN : ReturnEarly(v, n, fits)
           \/ \E v \in Vectors, n \in Ks, allowed \in SUBSET Nodes : Search(v, n, allowed)
    PROVE  Built'
<1>0. InRange /\ DegreeBound /\ Listed /\ TypeOK /\ Tight /\ Quiet /\ MaxLevel \in Nat /\ Ks \subseteq Nat
  BY Arguments DEF Built, Shape, InRange, LayersInRange, TypeOK, Tight
<1>1. ASSUME NEW v \in Vectors, InsertRefused(v) PROVE Built'
  <2>1. InRange' /\ DegreeBound' /\ Listed'
    BY <1>0, <1>1, SameGraph DEF InsertRefused, beam, InRange, LayersInRange, TypeOK, Tight, Points
  <2> QED BY <1>0, <1>1, <2>1
        DEF InsertRefused, beam, Built, Shape, Inserting, Searching, Quiet, Beam,
            MaskedSearchFills, WideBeamIsExact, Answered
<1>2. ASSUME NEW v \in Vectors, NEW n \in Ks, NEW fits \in BOOLEAN, ReturnEarly(v, n, fits) PROVE Built'
  <2>1. InRange' /\ DegreeBound' /\ Listed'
    BY <1>0, <1>2, SameGraph DEF ReturnEarly, beam, InRange, LayersInRange, TypeOK, Tight, Points
  <2>2. ~Answered'
    <3>1. UNCHANGED vector /\ k' = n /\ n \in Nat
      BY <1>0, <1>2 DEF ReturnEarly, graph
    <3>2. pc' = "returned" => n = 0 \/ Len(vector) = 0
      BY <1>2 DEF ReturnEarly
    <3>3. Len(vector) \in Nat
      BY <1>0 DEF TypeOK, Tight
    <3> QED BY <3>1, <3>2, <3>3 DEF Answered
  <2> QED BY <1>0, <1>2, <2>1, <2>2
        DEF ReturnEarly, beam, Built, Shape, Inserting, Searching, Quiet, Beam, MaskedSearchFills, WideBeamIsExact
<1>3. ASSUME NEW v \in Vectors, NEW n \in Ks, NEW allowed \in SUBSET Nodes, Search(v, n, allowed)
      PROVE  Built'
  <2>1. InRange' /\ DegreeBound' /\ Listed'
    <3>1. entry \in Nodes /\ maxLevel \in DOMAIN layers[entry] /\ candidates = {}
      BY <1>0, <1>3 DEF Search, InRange, LayersInRange, TypeOK, Tight, Quiet
    <3>2. maxLevel \in 0..MaxLevel /\ 0 \in 0..MaxLevel
      BY <1>0 DEF TypeOK, Tight
    <3> QED BY <1>0, <1>3, <3>1, <3>2, SameGraph DEF Search, InRange, LayersInRange, TypeOK, Tight, Points, beam
  <2> QED BY <1>0, <1>3, <2>1
        DEF Search, beam, Built, Shape, Inserting, Searching, Quiet, Beam,
            MaskedSearchFills, WideBeamIsExact, Answered
<1> QED BY <1>1, <1>2, <1>3

\* greedy_descend: the node it moves to has the layer, and the one it stops at
\* has the layer below.
LEMMA GreedyKeeps ==
    ASSUME Built, GreedyMove \/ GreedyDone
    PROVE  Built'
<1>0. InRange /\ DegreeBound /\ Listed /\ TypeOK /\ Tight /\ Quiet /\ MaxLevel \in Nat
  BY Arguments DEF Built, Shape, InRange, LayersInRange, TypeOK, Tight
<1>1. pc = "descend" /\ layer > floor /\ UNCHANGED graph
  BY DEF GreedyMove, GreedyDone
<1>2. cur \in Nodes /\ layer \in DOMAIN layers[cur] /\ candidates = {}
  BY <1>0, <1>1 DEF InRange, LayersInRange, Quiet
<1>3. cur' \in Nodes /\ layer' \in DOMAIN layers[cur'] /\ layer' \in 0..MaxLevel /\ layer' <= layer
  <2>1. CASE GreedyMove
    <3>1. cur' \in layers[cur][layer] /\ layer' = layer
      BY <2>1 DEF GreedyMove, GreedyNeighbours, NearestNeighbours
    <3>2. cur' \in Nodes
      BY <1>0, <1>2, <3>1, LayersBelow
    <3>3. layer' \in DOMAIN layers[cur']
      BY <1>0, <1>2, <3>1 DEF InRange, LayersInRange
    <3> QED BY <1>0, <3>1, <3>2, <3>3 DEF TypeOK, Tight
  <2>2. CASE GreedyDone
    <3>1. cur' = cur /\ layer' = layer - 1
      BY <2>2 DEF GreedyDone
    <3>2. layer \in 0..MaxLevel /\ floor \in 0..MaxLevel
      BY <1>0 DEF TypeOK, Tight
    <3>3. layer' \in 0..layer /\ layer' \in 0..MaxLevel /\ layer' <= layer
      BY <1>0, <1>1, <3>1, <3>2
    <3>4. 0..layer \subseteq DOMAIN layers[cur]
      BY <1>0, <1>2, LayersBelow
    <3> QED BY <1>2, <3>1, <3>3, <3>4
  <2> QED BY <2>1, <2>2
<1>4. cur' \in Nat
  BY <1>3 DEF Nodes
<1>5. pc' = "descend" /\ UNCHANGED <<op, query, k, mask, floor, visited, candidates, results, answer>>
  BY <1>1 DEF GreedyMove, GreedyDone, call, beam
<1>6. InRange' /\ DegreeBound' /\ Listed'
  BY <1>0, <1>1, <1>2, <1>3, <1>4, <1>5, SameGraph DEF TypeOK, Tight, Points
<1>7. Inserting'
  <2>1. UNCHANGED <<vector, layers>>
    BY <1>1 DEF graph
  <2>2. layer \in Int /\ layer' \in Int /\ layer' <= layer /\ floor \in Int
    BY <1>0, <1>3 DEF TypeOK, Tight
  <2> QED BY <1>1, <1>5, <2>1, <2>2 DEF Built, Shape, Inserting, NewIdx, Nodes
<1> QED BY <1>0, <1>1, <1>5, <1>6, <1>7
      DEF Built, Shape, Searching, Quiet, Beam, MaskedSearchFills, WideBeamIsExact, Answered

\* The beam is at least one wide.
LEMMA EfType ==
    ASSUME TypeOK
    PROVE  Ef \in Nat /\ Ef >= 1 /\ (op = "search" => Ef >= k)
<1>1. EfConstruction \in Nat \ {0} /\ EfSearch \in Nat \ {0} /\ k \in Nat
  <2>1. index \in Indexes /\ k \in Ks \cup {0}
    BY DEF TypeOK, Tight
  <2>2. Ks \subseteq Nat /\ EfConstruction \in Nat \ {0} /\ EfSearch \in Nat \ {0}
    BY <2>1, Arguments
  <2> QED BY <2>1, <2>2
<1> QED BY <1>1 DEF Ef, Larger

\* Sets of nodes are finite.
LEMMA NodeSets ==
    ASSUME TypeOK, NEW S \in SUBSET Nodes
    PROVE  IsFiniteSet(S) /\ Cardinality(S) \in Nat
<1>1. IsFiniteSet(Nodes)
  BY FS_Interval DEF Nodes, TypeOK, Tight
<1> QED BY <1>1, FS_Subset, FS_CardinalityType

\* search_layer begins with its entry point.
LEMMA StartBeamKeeps ==
    ASSUME Built, StartBeam
    PROVE  Built'
<1>0. InRange /\ DegreeBound /\ Listed /\ TypeOK /\ Tight /\ MaxLevel \in Nat
  BY Arguments DEF Built, Shape, InRange, LayersInRange, TypeOK, Tight
<1>1. cur \in Nodes /\ layer \in DOMAIN layers[cur]
  BY <1>0 DEF StartBeam, InRange, LayersInRange
<1>2. /\ pc = "descend" /\ layer <= floor /\ pc' = "beam"
      /\ visited' = {cur} /\ candidates' = {cur} /\ results' = {cur} \cap mask
      /\ UNCHANGED <<index, vector, layers, op, query, k, mask, floor, layer, cur, answer>>
      /\ UNCHANGED graph
  BY DEF StartBeam, call, graph
<1>3. InRange' /\ DegreeBound' /\ Listed'
  BY <1>0, <1>1, <1>2, SameGraph DEF TypeOK, Tight, Points
<1>4. Ef' = Ef /\ Ef \in Nat /\ Ef >= 1
  BY <1>0, <1>2, EfType DEF Ef, EfConstruction, EfSearch
<1>5. Cardinality(results') = IF Cardinality(visited' \cap mask') < Ef' THEN Cardinality(visited' \cap mask') ELSE Ef'
  <2>1. CASE cur \in mask
    <3>1. visited' \cap mask' = {cur} /\ results' = {cur}
      BY <1>2, <2>1
    <3> QED BY <1>4, <3>1, FS_Singleton
  <2>2. CASE cur \notin mask
    <3>1. visited' \cap mask' = {} /\ results' = {}
      BY <1>2, <2>2
    <3> QED BY <1>4, <3>1, FS_EmptySet
  <2> QED BY <2>1, <2>2
<1>6. Beam'
  <2>1. \A S \in SUBSET Nodes' : cur' \in S => visited' \subseteq S
    BY <1>2
  <2>2. visited' \ candidates' = {} /\ results' \subseteq mask' /\ cur' \in visited'
    BY <1>2
  <2>3. \A i \in visited' : layer' \in DOMAIN layers'[i]
    BY <1>1, <1>2
  <2> QED BY <1>2, <1>5, <2>1, <2>2, <2>3 DEF Beam
<1>7. Inserting' /\ Searching'
  BY <1>2 DEF Built, Shape, Inserting, Searching, NewIdx, Nodes
<1> QED BY <1>2, <1>3, <1>6, <1>7 DEF Built, Shape, Quiet, MaskedSearchFills, WideBeamIsExact, Answered

\* One turn of search_layer's loop.
LEMMA ExpandKeeps ==
    ASSUME Built, Expand
    PROVE  Built'
<1> DEFINE c   == First(query, candidates)
           new == Neighbours(c) \ visited
           add == new \cap mask
<1>0. InRange /\ DegreeBound /\ Listed /\ TypeOK /\ Tight /\ Beam
  BY DEF Built, Shape, InRange, LayersInRange
<1>1. /\ pc = "beam" /\ pc' = "beam" /\ candidates # {}
      /\ visited' = visited \cup new /\ candidates' = (candidates \ {c}) \cup new
      /\ results' = Nearest(query, results \cup add, Ef)
      /\ UNCHANGED <<index, vector, layers, op, query, k, mask, floor, layer, cur, answer>>
      /\ UNCHANGED graph
  BY DEF Expand, BeamOver, call, graph
<1>2. /\ query \in Points /\ candidates \subseteq visited /\ visited \subseteq Nodes
      /\ results \subseteq visited /\ mask \subseteq Nodes
  BY <1>0 DEF TypeOK, Tight, Points
<1>3. c \in candidates /\ c \in Nodes /\ layer \in DOMAIN layers[c]
  <2>1. c \in candidates
    BY <1>0, <1>1, <1>2, FirstIn
  <2> QED BY <1>0, <1>2, <2>1 DEF InRange, LayersInRange
<1> HIDE DEF c
<1>4. new \subseteq Nodes /\ \A i \in new : layer \in DOMAIN layers[i]
  <2>1. new \subseteq layers[c][layer]
    BY DEF Neighbours
  <2>2. layers[c][layer] \subseteq Nodes
    BY <1>0, <1>3, LayersBelow
  <2>3. \A i \in layers[c][layer] : layer \in DOMAIN layers[i]
    BY <1>0, <1>3 DEF InRange, LayersInRange
  <2> QED BY <2>1, <2>2, <2>3
<1>5. new \cap visited = {} /\ layers[c][layer] \subseteq visited \cup new
  BY DEF Neighbours
<1> HIDE DEF new
<1>6. Ef' = Ef /\ Ef \in Nat /\ Ef >= 1
  BY <1>0, <1>1, EfType DEF Ef, EfConstruction, EfSearch
<1>7. /\ results' \subseteq results \cup add
      /\ Cardinality(results') = IF Cardinality(results \cup add) < Ef THEN Cardinality(results \cup add) ELSE Ef
  <2>1. results \cup add \in SUBSET Nodes
    BY <1>2, <1>4
  <2> QED BY <1>0, <1>1, <1>2, <1>6, <2>1, NearestCount
<1>8. InRange' /\ DegreeBound' /\ Listed'
  <2>1. visited' \subseteq Nodes /\ candidates' \subseteq visited' /\ results' \subseteq visited'
    BY <1>1, <1>2, <1>4, <1>7
  <2>2. \A i \in candidates' : layer' \in DOMAIN layers[i]
    BY <1>0, <1>1, <1>4 DEF InRange, LayersInRange
  <2>3. cur \in Nodes /\ layer \in DOMAIN layers[cur]
    BY <1>0, <1>1 DEF InRange, LayersInRange
  <2> QED BY <1>0, <1>1, <2>1, <2>2, <2>3, SameGraph DEF TypeOK, Tight, Points
<1>9. Cardinality(results') = IF Cardinality(visited' \cap mask') < Ef' THEN Cardinality(visited' \cap mask') ELSE Ef'
  <2>1. visited' \cap mask' = (visited \cap mask) \cup add
    BY <1>1
  <2>2. (visited \cap mask) \cap add = {} /\ results \cap add = {}
    BY <1>2, <1>5
  <2>3. /\ IsFiniteSet(visited \cap mask) /\ IsFiniteSet(add) /\ IsFiniteSet(results)
        /\ Cardinality(visited \cap mask) \in Nat /\ Cardinality(add) \in Nat /\ Cardinality(results) \in Nat
    <3>1. visited \cap mask \in SUBSET Nodes /\ add \in SUBSET Nodes /\ results \in SUBSET Nodes
      BY <1>2, <1>4
    <3> HIDE DEF add
    <3> QED BY <1>0, <3>1, NodeSets
  <2> HIDE DEF add
  <2>4. Cardinality((visited \cap mask) \cup add) = Cardinality(visited \cap mask) + Cardinality(add)
    <3>1. Cardinality((visited \cap mask) \cup add)
            = Cardinality(visited \cap mask) + Cardinality(add) - Cardinality((visited \cap mask) \cap add)
      BY <2>3, FS_Union
    <3>2. Cardinality((visited \cap mask) \cap add) = 0
      BY <2>2, FS_EmptySet
    <3> QED BY <2>3, <3>1, <3>2
  <2>5. Cardinality(results \cup add) = Cardinality(results) + Cardinality(add)
    <3>1. Cardinality(results \cup add) = Cardinality(results) + Cardinality(add) - Cardinality(results \cap add)
      BY <2>3, FS_Union
    <3>2. Cardinality(results \cap add) = 0
      BY <2>2, FS_EmptySet
    <3> QED BY <2>3, <3>1, <3>2
  <2>6. Cardinality(results) = IF Cardinality(visited \cap mask) < Ef THEN Cardinality(visited \cap mask) ELSE Ef
    BY <1>0, <1>1 DEF Beam
  <2> DEFINE a == Cardinality(visited \cap mask)
             b == Cardinality(add)
             r == Cardinality(results)
             s == Cardinality(results')
             e == Ef
  <2>7. a \in Nat /\ b \in Nat /\ e \in Nat /\ r = (IF a < e THEN a ELSE e) /\ s = IF r + b < e THEN r + b ELSE e
    BY <1>6, <1>7, <2>3, <2>5, <2>6
  <2>8. Cardinality(visited' \cap mask') = a + b /\ Ef' = e
    BY <1>6, <2>1, <2>4
  <2> HIDE DEF a, b, r, s, e
  <2>9. s = IF a + b < e THEN a + b ELSE e
    BY <2>7
  <2> QED BY <2>8, <2>9 DEF s
<1>10. Beam'
  <2>0. Nodes' = Nodes /\ \A S : Closed(S)' <=> Closed(S)
    BY <1>1 DEF Nodes, Closed
  <2>1. ASSUME NEW S \in SUBSET Nodes, cur \in S, Closed(S) PROVE visited' \subseteq S
    <3>1. visited \subseteq S
      BY <1>0, <1>1, <2>1 DEF Beam
    <3>2. layers[c][layer] \subseteq S
      BY <1>2, <1>3, <2>1, <3>1 DEF Closed
    <3>3. new \subseteq layers[c][layer]
      BY DEF new, Neighbours
    <3> QED BY <1>1, <3>1, <3>2, <3>3
  <2>2. ASSUME NEW i \in visited' \ candidates' PROVE layers[i][layer] \subseteq visited'
    <3>1. i \in visited /\ (i \notin candidates \/ i = c)
      BY <1>1, <2>2
    <3>2. CASE i = c
      BY <1>1, <1>5, <3>2
    <3>3. CASE i \notin candidates
      BY <1>0, <1>1, <3>1, <3>3 DEF Beam
    <3> QED BY <3>1, <3>2, <3>3
  <2>3. \A i \in visited' : layer \in DOMAIN layers[i]
    BY <1>0, <1>1, <1>4 DEF Beam
  <2>4. cur \in visited' /\ results' \subseteq mask /\ layer <= floor
    BY <1>0, <1>1, <1>7 DEF Beam
  <2>5. \A S \in SUBSET Nodes' : cur' \in S /\ Closed(S)' => visited' \subseteq S
    BY <1>1, <2>0, <2>1
  <2> QED BY <1>1, <1>9, <2>2, <2>3, <2>4, <2>5 DEF Beam
<1>11. Inserting' /\ Searching'
  BY <1>1 DEF Built, Shape, Inserting, Searching, NewIdx, Nodes
<1> QED BY <1>1, <1>8, <1>10, <1>11 DEF Built, Shape, Quiet, MaskedSearchFills, WideBeamIsExact, Answered

\* The call is over: what it used is dropped.
LEMMA ReturnKeeps ==
    ASSUME Built, Return
    PROVE  Built'
<1>0. InRange /\ DegreeBound /\ Listed /\ TypeOK /\ Tight /\ MaxLevel \in Nat
  BY Arguments DEF Built, Shape, InRange, LayersInRange, TypeOK, Tight
<1>1. 0 \in 0..MaxLevel
  BY <1>0
<1>2. InRange' /\ DegreeBound' /\ Listed'
  BY <1>0, <1>1, SameGraph DEF Return, Points
<1> QED BY <1>2 DEF Return, Built, Shape, Inserting, Searching, Quiet, Beam,
                    MaskedSearchFills, WideBeamIsExact, Answered

\* search_knn answers: the beam is over because everything linked from the entry
\* point was seen, or because it is full of nodes nearer than any it may still find.
LEMMA ReplyKeeps ==
    ASSUME Built, Reply
    PROVE  Built'
<1>0. InRange /\ DegreeBound /\ Listed /\ TypeOK /\ Tight /\ Beam /\ MaxLevel \in Nat
  BY Arguments DEF Built, Shape, InRange, LayersInRange, TypeOK, Tight
<1>1. /\ pc = "beam" /\ pc' = "returned" /\ op = "search" /\ BeamOver
      /\ answer' = Nearest(query, results, k)
      /\ UNCHANGED <<index, vector, layers, op, query, k, mask, floor, layer, cur, visited, candidates, results>>
      /\ UNCHANGED graph
  BY DEF Reply, Cut, call, beam, graph
<1>2. /\ query \in Points /\ candidates \subseteq visited /\ visited \subseteq Nodes
      /\ results \subseteq visited /\ mask \subseteq Nodes
  BY <1>0 DEF TypeOK, Tight, Points
<1>3. layer = 0 /\ k \in Nat /\ k > 0
  <2>1. floor = 0 /\ k > 0
    BY <1>1 DEF Built, Shape, Searching
  <2>2. layer \in 0..MaxLevel /\ layer <= floor
    BY <1>0, <1>1 DEF TypeOK, Tight, Beam
  <2>3. k \in Ks \cup {0} /\ Ks \subseteq Nat
    BY <1>0, Arguments DEF TypeOK, Tight
  <2> QED BY <1>0, <2>1, <2>2, <2>3
<1>4. Ef \in Nat /\ Ef >= k /\ Ef' = Ef
  BY <1>0, <1>1, EfType DEF Ef, EfConstruction, EfSearch
<1>5. /\ answer' \subseteq results
      /\ Cardinality(answer') = IF Cardinality(results) < k THEN Cardinality(results) ELSE k
  <2>1. results \in SUBSET Nodes
    BY <1>2
  <2> QED BY <1>0, <1>1, <1>2, <1>3, <2>1, NearestCount
<1>6. InRange' /\ DegreeBound' /\ Listed'
  BY <1>0, <1>1, <1>2, <1>5, SameGraph DEF InRange, LayersInRange, TypeOK, Tight, Points
<1>7. \A S \in SUBSET Nodes : Closed(S) <=> \A j \in S : layers[j][0] \subseteq S
  BY <1>0, <1>3, LayersBelow DEF Closed
<1>8. visited \subseteq Reachable
  <2> SUFFICES ASSUME NEW i \in visited, NEW S \in SUBSET Nodes, cur \in S, Closed(S) PROVE i \in S
    BY <1>2, <1>7 DEF Reachable
  <2> QED BY <1>0, <1>1 DEF Beam
<1>9. candidates = {} => visited = Reachable
  <2> SUFFICES ASSUME candidates = {} PROVE Reachable \subseteq visited
    BY <1>8
  <2>1. Closed(visited) /\ cur \in visited
    BY <1>0, <1>1 DEF Beam, Closed
  <2> QED BY <1>2, <1>7, <2>1 DEF Reachable
<1>10. /\ Cardinality(results) = IF Cardinality(visited \cap mask) < Ef THEN Cardinality(visited \cap mask) ELSE Ef
       /\ results \subseteq visited \cap mask
  BY <1>0, <1>1, <1>2 DEF Beam
<1> DEFINE allowed == Reachable \cap mask
<1>11. /\ IsFiniteSet(results) /\ IsFiniteSet(visited \cap mask) /\ IsFiniteSet(allowed)
       /\ Cardinality(results) \in Nat /\ Cardinality(visited \cap mask) \in Nat /\ Cardinality(allowed) \in Nat
  <2>1. results \in SUBSET Nodes /\ visited \cap mask \in SUBSET Nodes /\ allowed \in SUBSET Nodes
    BY <1>2
  <2> HIDE DEF allowed
  <2> QED BY <1>0, <2>1, NodeSets
<1>12. Reachable' = Reachable /\ allowed' = allowed
  BY <1>1 DEF Reachable, Nodes
<1>13. Cardinality(answer') = IF Cardinality(allowed) < k THEN Cardinality(allowed) ELSE k
  <2>1. CASE candidates = {}
    <3>1. Cardinality(results) = IF Cardinality(allowed) < Ef THEN Cardinality(allowed) ELSE Ef
      BY <1>9, <1>10, <2>1
    <3> HIDE DEF allowed
    <3> QED BY <1>3, <1>4, <1>5, <1>11, <3>1
  <2>2. CASE candidates # {}
    <3>1. Cardinality(results) >= Ef
      BY <1>1, <2>2 DEF BeamOver, BeamFull
    <3>2. results \in SUBSET allowed
      BY <1>8, <1>10
    <3> HIDE DEF allowed
    <3>3. Cardinality(results) <= Cardinality(allowed)
      BY <1>11, <3>2, FS_Subset
    <3> QED BY <1>3, <1>4, <1>5, <1>11, <3>1, <3>3
  <2> QED BY <2>1, <2>2
<1>14. MaskedSearchFills'
  <2>1. answer' \subseteq allowed
    BY <1>5, <1>8, <1>10
  <2> QED BY <1>1, <1>12, <1>13, <2>1 DEF MaskedSearchFills
<1>15. WideBeamIsExact'
  <2> SUFFICES ASSUME Ef >= Len(vector) PROVE answer' = Nearest(query, allowed, k)
    <3>1. FlatSearch(query, k, allowed)' = Nearest(query, allowed, k)
      BY <1>1, <1>12 DEF FlatSearch, Nearest, Closer, Distance
    <3> QED BY <1>1, <1>4, <1>12, <3>1 DEF WideBeamIsExact
  <2>1. IsFiniteSet(Nodes) /\ Cardinality(Nodes) = Len(vector) /\ Len(vector) \in Nat
    <3>1. Len(vector) \in Nat
      BY <1>0 DEF TypeOK, Tight
    <3>2. IsFiniteSet(1..Len(vector)) /\ Cardinality(1..Len(vector)) = Len(vector)
      BY <3>1, FS_Interval
    <3> QED BY <3>1, <3>2 DEF Nodes
  <2>2. results = visited \cap mask
    <3>1. visited \cap mask \in SUBSET Nodes
      BY <1>2
    <3>2. Cardinality(visited \cap mask) <= Cardinality(Nodes)
      BY <2>1, <3>1, FS_Subset
    <3>3. Cardinality(results) = Cardinality(visited \cap mask)
      BY <1>4, <1>10, <1>11, <2>1, <3>2
    <3> QED BY <1>10, <1>11, <3>3, FS_Subset
  <2>3. candidates = {}
    <3> SUFFICES ASSUME candidates # {} PROVE FALSE
      OBVIOUS
    <3>1. Cardinality(results) >= Ef
      BY <1>1 DEF BeamOver, BeamFull
    <3>2. results \in SUBSET Nodes
      BY <1>2
    <3>3. Cardinality(results) <= Cardinality(Nodes)
      BY <2>1, <3>2, FS_Subset
    <3>4. Cardinality(results) = Cardinality(Nodes)
      BY <1>4, <1>11, <2>1, <3>1, <3>3
    <3>5. results = Nodes
      BY <2>1, <3>2, <3>4, FS_Subset
    <3>6. First(query, candidates) \in Nodes
      <4>1. candidates \in SUBSET Nodes
        BY <1>2
      <4>2. First(query, candidates) \in candidates
        BY <1>0, <1>2, <4>1, FirstIn
      <4> QED BY <4>1, <4>2
    <3>7. Distance(query, First(query, candidates)) > Distance(query, First(query, candidates))
      BY <1>1, <3>5, <3>6 DEF BeamOver, BeamFull
    <3>8. Distance(query, First(query, candidates)) \in Int
      BY <1>0, <1>2, <3>6, DistanceType
    <3> QED BY <3>7, <3>8
  <2> QED BY <1>1, <1>9, <2>2, <2>3
<1> QED BY <1>1, <1>6, <1>14, <1>15 DEF Built, Shape, Inserting, Searching, Quiet, Beam

--------------------------------------------------------------------------------
\* The first node.
LEMMA InsertFirstKeeps ==
    ASSUME Built, NEW v \in Vectors, NEW level \in Levels, InsertFirst(v, level)
    PROVE  Built'
<1>0. InRange /\ TypeOK /\ Tight /\ MaxLevel \in Nat /\ MaxNodes \in Nat /\ index \in Indexes
  BY Arguments DEF Built, InRange, LayersInRange, TypeOK, Tight
<1>1. /\ pc = "idle" /\ pc' = "idle" /\ Len(vector) = 0 /\ MaxNodes > 0
      /\ vector' = <<v>> /\ layers' = << [l \in 0..level |-> {}] >>
      /\ dim' = Len(v) /\ entry' = 1 /\ maxLevel' = AsUsize(level)
      /\ UNCHANGED <<index, op, query, k, mask, floor, layer, cur, visited, candidates, results, answer>>
  BY DEF InsertFirst, call, beam
<1>2. Nodes' = {1} /\ Nodes = {} /\ Len(vector') = 1
  BY <1>0, <1>1 DEF Nodes
<1>3. /\ level \in 0..MaxLevel /\ maxLevel' = level /\ MaxLevel' = MaxLevel /\ MaxNodes' = MaxNodes
      /\ Vectors' = Vectors /\ Ks' = Ks /\ M' = M /\ M # 1 /\ Levels' = 0..MaxLevel
  BY <1>0, <1>1 DEF Levels, AsUsize, Tight, M, MaxLevel, MaxNodes, Vectors, Ks
<1>4. layers'[1] = [l \in 0..level |-> {}] /\ DOMAIN layers' = Nodes'
  BY <1>1, <1>2
<1>5. Len(v) \in {0, 1}
  BY <1>0, Arguments DEF Points
<1>6. visited = {} /\ candidates = {} /\ results = {} /\ mask = {} /\ answer = {}
  BY <1>0, <1>2 DEF TypeOK, Tight
<1>7. (TypeOK /\ Tight)'
  <2>1. vector' \in Seq(Vectors') /\ Len(vector') <= MaxNodes'
    BY <1>0, <1>1, <1>2, <1>3
  <2>2. \A i \in Nodes' : \E l \in Levels' : layers'[i] \in [0..l -> SUBSET Nodes']
    BY <1>2, <1>3, <1>4
  <2>3. floor' \in -1..MaxLevel' /\ layer' \in 0..(MaxLevel' + 1) /\ maxLevel' \in 0..(MaxLevel' + 1)
    BY <1>0, <1>1, <1>3 DEF TypeOK
  <2>4. TypeOK'
    BY <1>0, <1>1, <1>3, <1>4, <1>5, <1>6, <2>1, <2>2, <2>3 DEF TypeOK
  <2>5. Tight'
    BY <1>0, <1>1, <1>3 DEF Tight
  <2> QED BY <2>4, <2>5
<1>8. InRange'
  BY <1>1, <1>2, <1>3, <1>4, <1>6, <1>7 DEF InRange, LayersInRange
<1>9. DegreeBound'
  <2>1. \A l \in 0..level : 0 <= MaxDegree(l)'
    <3>1. (index \in Indexes)'
      BY <1>0, <1>1
    <3>2. (\A l \in Nat : MaxDegree(l) \in Nat)'
      BY <3>1, ArgumentsNext
    <3>3. \A l \in 0..level : l \in Nat
      BY <1>0, <1>3
    <3> QED BY <3>2, <3>3
  <2> QED BY <1>2, <1>4, <2>1, FS_EmptySet DEF DegreeBound
<1>10. Listed'
  <2>1. \A x : <<x>> = [i \in {1} |-> <<x>>[i]]
    OBVIOUS
  <2> QED BY <1>1, <1>2, <2>1 DEF Listed
<1> QED BY <1>1, <1>6, <1>8, <1>9, <1>10
      DEF Built, Shape, Inserting, Searching, Quiet, Beam, MaskedSearchFills, WideBeamIsExact, Answered

\* A later node is pushed, with no links yet.
LEMMA InsertNextKeeps ==
    ASSUME Built, NEW v \in Vectors, NEW level \in Levels, InsertNext(v, level)
    PROVE  Built'
<1> DEFINE n == Len(vector)
<1>0. InRange /\ DegreeBound /\ TypeOK /\ Tight /\ MaxLevel \in Nat /\ MaxNodes \in Nat /\ index \in Indexes
  BY Arguments DEF Built, InRange, LayersInRange, TypeOK, Tight
<1>1. /\ pc = "idle" /\ pc' = "descend" /\ n \in 1..(MaxNodes - 1)
      /\ vector' = Append(vector, v) /\ layers' = Append(layers, [l \in 0..level |-> {}])
      /\ dim' \in {dim, Len(v)}
      /\ op' = "insert" /\ query' = v /\ k' = 0 /\ floor' = level /\ mask' = Nodes \cup {n + 1}
      /\ cur' = entry /\ layer' = maxLevel
      /\ UNCHANGED <<index, entry, maxLevel, visited, candidates, results, answer>>
  BY DEF InsertNext, PushNode, beam
<1>2. visited = {} /\ candidates = {} /\ results = {}
  BY <1>1 DEF Built, Shape, Quiet
<1>3. /\ level \in 0..MaxLevel /\ MaxLevel' = MaxLevel /\ MaxNodes' = MaxNodes /\ M' = M /\ M # 1
      /\ Vectors' = Vectors /\ Ks' = Ks /\ Levels = 0..MaxLevel /\ Levels' = 0..MaxLevel
  BY <1>0, <1>1 DEF Levels, Tight, M, MaxLevel, MaxNodes, Vectors, Ks
<1>4. n \in Nat /\ Nodes = 1..n /\ vector \in Seq(Vectors) /\ DOMAIN layers = 1..n
  BY <1>0 DEF TypeOK, Tight, Nodes
<1>5. vector' \in Seq(Vectors) /\ Len(vector') = n + 1 /\ Nodes' = 1..(n + 1) /\ Nodes' = Nodes \cup {n + 1}
  BY <1>1, <1>4 DEF Nodes
<1>6. /\ DOMAIN layers' = 1..(n + 1) /\ layers'[n + 1] = [l \in 0..level |-> {}]
      /\ \A i \in 1..n : layers'[i] = layers[i]
  <2>1. \E S : layers \in Seq(S)
    <3>1. layers \in Seq({layers[i] : i \in 1..n})
      <4>1. layers = [i \in 1..n |-> layers[i]]
        BY <1>4 DEF Built, Shape, Listed
      <4> QED BY <1>4, <4>1
    <3> QED BY <3>1
  <2>2. Len(layers) = n
    BY <1>4, <2>1
  <2> QED BY <1>1, <1>4, <2>1, <2>2
<1>7. entry \in 1..n /\ DOMAIN layers[entry] = 0..maxLevel /\ maxLevel \in 0..MaxLevel
  BY <1>0, <1>1, <1>4 DEF InRange, LayersInRange, TypeOK, Tight
<1>8. /\ \A i \in 1..n : \A l \in DOMAIN layers[i] : \A j \in layers[i][l] :
            j # i /\ j \in 1..n /\ l \in DOMAIN layers[j]
  BY <1>0, <1>4, LayersBelow DEF InRange, LayersInRange
<1> HIDE DEF n
<1>9. (TypeOK /\ Tight)'
  <2>1. \A i \in Nodes' : \E l \in Levels' : layers'[i] \in [0..l -> SUBSET Nodes']
    <3> SUFFICES ASSUME NEW i \in Nodes' PROVE \E l \in Levels' : layers'[i] \in [0..l -> SUBSET Nodes']
      OBVIOUS
    <3>1. CASE i = n + 1
      BY <1>3, <1>6, <3>1
    <3>2. CASE i \in 1..n
      <4>1. PICK l \in 0..MaxLevel : layers[i] \in [0..l -> SUBSET Nodes]
        BY <1>0, <1>3, <1>4, <3>2 DEF TypeOK
      <4>2. layers'[i] \in [0..l -> SUBSET Nodes']
        BY <1>5, <1>6, <3>2, <4>1
      <4> QED BY <1>3, <4>2
    <3> QED BY <1>4, <1>5, <3>1, <3>2
  <2>2. Len(v) \in {0, 1} /\ n + 1 <= MaxNodes
    <3>1. Len(v) \in {0, 1}
      BY <1>0, Arguments DEF Points
    <3> QED BY <1>0, <1>1, <1>4, <3>1
  <2>3. visited' \subseteq Nodes' /\ candidates' \subseteq visited' /\ results' \subseteq visited' /\ answer' \subseteq Nodes'
    BY <1>0, <1>1, <1>2, <1>5 DEF TypeOK, Tight
  <2>4. entry' \in Nat /\ cur' \in Nat /\ maxLevel' \in 0..MaxLevel' /\ layer' \in 0..MaxLevel' /\ floor' \in 0..MaxLevel'
    BY <1>1, <1>3, <1>4, <1>7
  <2>5. dim' \in {0, 1} /\ query' \in Vectors' \cup {<<>>} /\ k' \in Ks' \cup {0} /\ mask' \subseteq Nodes'
    BY <1>0, <1>1, <1>3, <1>5, <2>2 DEF TypeOK, Tight
  <2>6. floor' \in -1..MaxLevel' /\ layer' \in 0..(MaxLevel' + 1) /\ maxLevel' \in 0..(MaxLevel' + 1)
    BY <1>0, <1>3, <2>4
  <2>7. TypeOK'
    BY <1>0, <1>1, <1>3, <1>5, <1>6, <2>1, <2>2, <2>3, <2>4, <2>5, <2>6 DEF TypeOK
  <2>8. Tight'
    BY <1>1, <1>3, <2>4 DEF Tight
  <2> QED BY <2>7, <2>8
<1>10. InRange'
  <2>1. \A i \in Nodes' : \A l \in DOMAIN layers'[i] : \A j \in layers'[i][l] :
            j # i /\ l \in DOMAIN layers'[j]
    <3> SUFFICES ASSUME NEW i \in Nodes', NEW l \in DOMAIN layers'[i], NEW j \in layers'[i][l]
                 PROVE  j # i /\ l \in DOMAIN layers'[j]
      OBVIOUS
    <3>1. CASE i = n + 1
      BY <1>6, <3>1
    <3>2. CASE i \in 1..n
      <4>1. layers'[i] = layers[i]
        BY <1>6, <3>2
      <4>2. j # i /\ j \in 1..n /\ l \in DOMAIN layers[j]
        BY <1>8, <3>2, <4>1
      <4> QED BY <1>6, <4>2
    <3> QED BY <1>4, <1>5, <3>1, <3>2
  <2>2. entry' \in Nodes' /\ DOMAIN layers'[entry'] = 0..maxLevel'
    BY <1>1, <1>4, <1>5, <1>6, <1>7
  <2>3. cur' \in Nodes' /\ layer' \in DOMAIN layers'[cur']
    BY <1>0, <1>1, <1>4, <1>5, <1>6, <1>7
  <2> QED BY <1>1, <1>2, <1>9, <2>1, <2>2, <2>3 DEF InRange, LayersInRange
<1>11. DegreeBound'
  <2>1. index.m \in Nat /\ M \in Nat /\ M' = M /\ index' = index
    BY <1>0, <1>1, <1>3, Arguments
  <2>2. \A l : MaxDegree(l)' = MaxDegree(l) /\ MaxDegree(l) >= 0
    BY <2>1 DEF MaxDegree, Larger
  <2>3. \A l \in 0..level : Cardinality(layers'[n + 1][l]) <= MaxDegree(l)
    BY <1>6, <2>2, FS_EmptySet
  <2>4. \A i \in 1..n : \A l \in DOMAIN layers'[i] : Cardinality(layers'[i][l]) <= MaxDegree(l)
    BY <1>0, <1>4, <1>6 DEF DegreeBound
  <2> QED BY <1>4, <1>5, <1>6, <2>2, <2>3, <2>4 DEF DegreeBound
<1>12. Listed'
  BY <1>1, <1>5, <1>6 DEF Listed
<1>13. Inserting'
  BY <1>1, <1>4, <1>5, <1>6 DEF Inserting, NewIdx
<1> QED BY <1>1, <1>2, <1>10, <1>11, <1>12, <1>13
      DEF Built, Shape, Searching, Quiet, Beam, MaskedSearchFills, WideBeamIsExact, Answered

\* A layer is linked: only lists of that layer change, the new node's takes the
\* selected nodes in, theirs take the new node in and are cut to their bound.
LEMMA WireEffect ==
    ASSUME Built, WireLayer
    PROVE  LET sel == Nearest(query, results \ {NewIdx}, MaxDegree(layer))
           IN  /\ sel \subseteq results \ {NewIdx} /\ Cardinality(sel) <= MaxDegree(layer)
               /\ layers' = [i \in Nodes |-> layers'[i]]
               /\ \A i \in Nodes :
                     /\ layers'[i] \in [DOMAIN layers[i] -> SUBSET Nodes]
                     /\ \A l \in DOMAIN layers[i] :
                           \/ layers'[i][l] = layers[i][l]
                           \/ l = layer /\ i = NewIdx /\ layers'[i][l] = sel
                           \/ /\ l = layer /\ i \in sel
                              /\ layers'[i][l] \subseteq layers[i][l] \cup {NewIdx}
                              /\ Cardinality(layers'[i][l]) <= MaxDegree(l)
<1> DEFINE found == results \ {NewIdx}
           sel   == Nearest(query, found, MaxDegree(layer))
<1>0. InRange /\ TypeOK /\ Tight /\ MaxLevel \in Nat /\ Inserting
  BY Arguments DEF Built, Shape, InRange, LayersInRange, TypeOK, Tight
<1>1. layers' = [i \in Nodes |-> Links(i, sel)] /\ pc = "beam" /\ op = "insert"
  BY DEF WireLayer, Selected
<1>2. /\ NewIdx \in Nodes /\ DOMAIN layers[NewIdx] = 0..floor /\ layer \in 0..floor
      /\ layers[NewIdx][layer] = {}
  <2>1. NewIdx \in Nodes /\ DOMAIN layers[NewIdx] = 0..floor /\ \A l \in 0..floor : l <= layer => layers[NewIdx][l] = {}
    BY <1>0, <1>1 DEF Inserting
  <2>2. layer \in 0..MaxLevel /\ layer <= floor /\ floor \in 0..MaxLevel
    BY <1>0, <1>1 DEF Built, Shape, Beam, TypeOK, Tight
  <2>3. layer \in 0..floor /\ layer <= layer
    BY <1>0, <2>2
  <2> QED BY <2>1, <2>3
<1>3. query \in Points /\ found \in SUBSET Nodes /\ MaxDegree(layer) \in Nat /\ layer \in Nat
  <2>1. index \in Indexes /\ query \in Points /\ found \in SUBSET Nodes /\ layer \in 0..MaxLevel
    BY <1>0 DEF TypeOK, Tight, Points
  <2>2. layer \in Nat
    BY <1>0, <2>1
  <2> QED BY <2>1, <2>2, Arguments
<1>4. sel \in SUBSET found /\ Cardinality(sel) <= MaxDegree(layer)
  <2>1. sel \in SUBSET found
        /\ Cardinality(sel) = IF Cardinality(found) < MaxDegree(layer) THEN Cardinality(found) ELSE MaxDegree(layer)
    <3> HIDE DEF found
    <3> QED BY <1>0, <1>3, NearestCount
  <2>2. Cardinality(found) \in Nat
    BY <1>0, <1>3, NodeSets
  <2> HIDE DEF sel, found
  <2> QED BY <1>3, <2>1, <2>2
<1> HIDE DEF sel
<1>5. ASSUME NEW i \in Nodes
      PROVE  /\ layers'[i] \in [DOMAIN layers[i] -> SUBSET Nodes]
             /\ \A l \in DOMAIN layers[i] :
                   \/ layers'[i][l] = layers[i][l]
                   \/ l = layer /\ i = NewIdx /\ layers'[i][l] = sel
                   \/ /\ l = layer /\ i \in sel
                      /\ layers'[i][l] \subseteq layers[i][l] \cup {NewIdx}
                      /\ Cardinality(layers'[i][l]) <= MaxDegree(l)
  <2>0. layers[i] \in [DOMAIN layers[i] -> SUBSET Nodes] /\ layers'[i] = Links(i, sel)
    BY <1>0, <1>1 DEF TypeOK, Tight
  <2>1. CASE i = NewIdx
    <3>1. layers'[i] = [layers[i] EXCEPT ![layer] = layers[i][layer] \cup sel]
      BY <2>0, <2>1 DEF Links
    <3>2. layers[i][layer] \cup sel = sel /\ layer \in DOMAIN layers[i] /\ sel \in SUBSET Nodes
      BY <1>2, <1>3, <1>4, <2>1
    <3> QED BY <2>0, <2>1, <3>1, <3>2
  <2>2. CASE i # NewIdx /\ i \in sel
    <3> DEFINE list == layers[i][layer] \cup {NewIdx}
               cut  == Pruned(i, list)
    <3>1. layer \in DOMAIN layers[i]
      <4>1. i \in visited
        BY <1>0, <1>4, <2>2 DEF TypeOK, Tight
      <4> QED BY <1>1, <4>1 DEF Built, Shape, Beam
    <3>2. layers'[i] = [layers[i] EXCEPT ![layer] = cut]
      BY <2>0, <2>2 DEF Links
    <3>3. list \in SUBSET Nodes /\ vector[i] \in Points
      <4>1. layers[i][layer] \subseteq Nodes
        BY <1>0, <3>1, LayersBelow
      <4>2. vector[i] \in Points
        BY <1>0 DEF TypeOK, Tight, Points, Nodes
      <4> QED BY <1>2, <4>1, <4>2
    <3>4. cut \in SUBSET list /\ Cardinality(cut) <= MaxDegree(layer)
      <4>1. cut \in SUBSET list
            /\ Cardinality(cut) = IF Cardinality(list) < MaxDegree(layer) THEN Cardinality(list) ELSE MaxDegree(layer)
        <5> HIDE DEF list
        <5> QED BY <1>0, <1>3, <3>3, NearestCount DEF Pruned
      <4>2. Cardinality(list) \in Nat
        BY <1>0, <3>3, NodeSets
      <4> HIDE DEF cut, list
      <4> QED BY <1>3, <4>1, <4>2
    <3>5. cut \in SUBSET Nodes
      BY <3>3, <3>4
    <3> HIDE DEF cut
    <3>6. layers'[i][layer] = cut /\ \A l \in DOMAIN layers[i] : l # layer => layers'[i][l] = layers[i][l]
      BY <2>0, <3>1, <3>2
    <3>7. layers'[i] \in [DOMAIN layers[i] -> SUBSET Nodes]
      BY <2>0, <3>2, <3>5
    <3> QED BY <2>2, <3>4, <3>6, <3>7
  <2>3. CASE i # NewIdx /\ i \notin sel
    BY <2>0, <2>3 DEF Links
  <2> QED BY <2>1, <2>2, <2>3
<1>6. layers' = [i \in Nodes |-> layers'[i]]
  BY <1>1
<1> QED BY <1>4, <1>5, <1>6 DEF sel

\* The end of an insertion's beam search: what is linked has the layer, and the
\* search goes on from a node that has the layer below.
LEMMA WireLayerKeeps ==
    ASSUME Built, WireLayer
    PROVE  Built'
<1> DEFINE sel   == Nearest(query, results \ {NewIdx}, MaxDegree(layer))
           found == results \ {NewIdx}
<1>0. /\ InRange /\ DegreeBound /\ TypeOK /\ Tight /\ MaxLevel \in Nat /\ index \in Indexes
      /\ Inserting /\ Beam
  BY Arguments DEF Built, Shape, InRange, LayersInRange, TypeOK, Tight
<1>1. /\ pc = "beam" /\ op = "insert" /\ op' = "insert" /\ pc' \in {"descend", "returned"}
      /\ visited' = {} /\ candidates' = {} /\ results' = {}
      /\ cur' = IF found = {} THEN cur ELSE First(query, found)
      /\ UNCHANGED <<index, vector, dim, query, k, mask, floor, answer>>
  BY DEF WireLayer, call
<1>2. /\ Nodes' = Nodes /\ MaxLevel' = MaxLevel /\ MaxNodes' = MaxNodes /\ NewIdx' = NewIdx
      /\ Vectors' = Vectors /\ Ks' = Ks /\ M' = M
      /\ M # 1 /\ Levels = 0..MaxLevel /\ Levels' = 0..MaxLevel
  BY <1>0, <1>1 DEF Nodes, MaxLevel, MaxNodes, NewIdx, Vectors, Ks, M, Tight, Levels
<1>3. /\ sel \subseteq found /\ Cardinality(sel) <= MaxDegree(layer)
      /\ layers' = [i \in Nodes |-> layers'[i]]
      /\ \A i \in Nodes :
            /\ layers'[i] \in [DOMAIN layers[i] -> SUBSET Nodes]
            /\ \A l \in DOMAIN layers[i] :
                  \/ layers'[i][l] = layers[i][l]
                  \/ l = layer /\ i = NewIdx /\ layers'[i][l] = sel
                  \/ /\ l = layer /\ i \in sel
                     /\ layers'[i][l] \subseteq layers[i][l] \cup {NewIdx}
                     /\ Cardinality(layers'[i][l]) <= MaxDegree(l)
  BY WireEffect
<1> HIDE DEF sel
<1>4. \A i \in Nodes : DOMAIN layers'[i] = DOMAIN layers[i]
  BY <1>3
<1>5. /\ layer \in 0..MaxLevel /\ floor \in 0..MaxLevel /\ maxLevel \in 0..MaxLevel /\ layer <= floor
      /\ NewIdx \in Nodes /\ DOMAIN layers[NewIdx] = 0..floor
      /\ \A l \in 0..floor : l <= layer => layers[NewIdx][l] = {}
  BY <1>0, <1>1 DEF TypeOK, Tight, Inserting, Beam
<1>6. \A i \in visited : i \in Nodes /\ layer \in DOMAIN layers[i]
  BY <1>0, <1>1 DEF TypeOK, Tight, Beam
<1>7. found \in SUBSET visited /\ layer \in DOMAIN layers[NewIdx] /\ cur \in visited
  <2>1. layer \in 0..floor
    BY <1>0, <1>5
  <2> QED BY <1>0, <1>1, <1>5, <2>1 DEF TypeOK, Tight, Beam
<1>8. cur' \in visited
  <2>1. query \in Points /\ found \in SUBSET Nodes
    BY <1>0 DEF TypeOK, Tight, Points
  <2>2. found # {} => First(query, found) \in found
    <3> HIDE DEF found
    <3> QED BY <1>0, <2>1, FirstIn
  <2> HIDE DEF found
  <2> QED BY <1>1, <1>7, <2>2
<1>9. cur' \in Nodes /\ layer \in DOMAIN layers[cur'] /\ cur' \in Nat
  BY <1>6, <1>8 DEF Nodes
<1>10. /\ layer' \in 0..MaxLevel /\ layer' <= layer
       /\ pc' = "descend" => layer' < layer
  <2>1. \/ layer > 0 /\ layer' = layer - 1
        \/ layer' = 0 /\ pc' = "returned"
    BY DEF WireLayer
  <2> QED BY <1>0, <1>5, <2>1
<1>11. layer' \in DOMAIN layers'[cur']
  <2>1. layer' \in 0..layer
    BY <1>0, <1>5, <1>10
  <2>2. 0..layer \subseteq DOMAIN layers[cur']
    BY <1>0, <1>9, LayersBelow
  <2> QED BY <1>4, <1>9, <2>1, <2>2
<1>12. /\ entry' \in Nodes /\ entry' \in Nat
       /\ maxLevel' \in 0..MaxLevel /\ DOMAIN layers'[entry'] = 0..maxLevel'
  <2>1. entry \in Nodes /\ DOMAIN layers[entry] = 0..maxLevel
    <3>1. Len(vector) > 0
      BY <1>0, <1>5 DEF Nodes, TypeOK, Tight
    <3> QED BY <1>0, <3>1 DEF InRange, LayersInRange
  <2>2. \/ UNCHANGED <<entry, maxLevel>>
        \/ entry' = NewEntry /\ maxLevel' = Larger(floor, maxLevel)
    BY DEF WireLayer
  <2>3. \/ entry' = NewIdx /\ maxLevel' = floor
        \/ entry' = entry /\ maxLevel' = maxLevel
    <3>1. CASE UNCHANGED <<entry, maxLevel>>
      BY <3>1
    <3>2. CASE entry' = NewEntry /\ maxLevel' = Larger(floor, maxLevel) /\ floor > maxLevel
      BY <1>0, <1>5, <3>2 DEF NewEntry, Larger
    <3>3. CASE entry' = NewEntry /\ maxLevel' = Larger(floor, maxLevel) /\ ~(floor > maxLevel)
      BY <1>0, <1>5, <3>3 DEF NewEntry, Larger
    <3> QED BY <2>2, <3>1, <3>2, <3>3
  <2> QED BY <1>4, <1>5, <2>1, <2>3 DEF Nodes
<1>13. (TypeOK /\ Tight)'
  <2>1. DOMAIN layers' = Nodes'
    BY <1>2, <1>3
  <2>2. \A i \in Nodes' : \E l \in Levels' : layers'[i] \in [0..l -> SUBSET Nodes']
    <3> SUFFICES ASSUME NEW i \in Nodes PROVE \E l \in 0..MaxLevel : layers'[i] \in [0..l -> SUBSET Nodes]
      BY <1>2
    <3>1. PICK l \in 0..MaxLevel : layers[i] \in [0..l -> SUBSET Nodes]
      BY <1>0, <1>2 DEF TypeOK
    <3> QED BY <1>3, <3>1
  <2>3. visited' \subseteq Nodes' /\ candidates' \subseteq visited' /\ results' \subseteq visited' /\ answer' \subseteq Nodes'
    BY <1>0, <1>1, <1>2 DEF TypeOK, Tight
  <2>4. floor' \in -1..MaxLevel' /\ layer' \in 0..(MaxLevel' + 1) /\ maxLevel' \in 0..(MaxLevel' + 1)
    BY <1>0, <1>1, <1>2, <1>5, <1>10, <1>12
  <2>5. TypeOK'
    BY <1>0, <1>1, <1>2, <1>9, <1>12, <2>1, <2>2, <2>3, <2>4 DEF TypeOK
  <2>6. Tight'
    BY <1>0, <1>1, <1>2, <1>5, <1>10, <1>12 DEF Tight
  <2> QED BY <2>5, <2>6
<1>14. InRange'
  <2>1. ASSUME NEW i \in Nodes, NEW l \in DOMAIN layers[i], NEW j \in layers'[i][l]
        PROVE  j # i /\ l \in DOMAIN layers'[j]
    <3>1. CASE layers'[i][l] = layers[i][l]
      <4>1. j # i /\ l \in DOMAIN layers[j] /\ j \in Nodes
        BY <1>0, <2>1, <3>1, LayersBelow DEF InRange, LayersInRange
      <4> QED BY <1>4, <4>1
    <3>2. CASE l = layer /\ i = NewIdx /\ layers'[i][l] = sel
      <4>1. j \in found
        BY <1>3, <2>1, <3>2
      <4> QED BY <1>4, <1>6, <1>7, <3>2, <4>1
    <3>3. CASE l = layer /\ i \in sel /\ layers'[i][l] \subseteq layers[i][l] \cup {NewIdx}
      <4>1. CASE j \in layers[i][l]
        <5>1. j # i /\ l \in DOMAIN layers[j] /\ j \in Nodes
          BY <1>0, <2>1, <4>1, LayersBelow DEF InRange, LayersInRange
        <5> QED BY <1>4, <5>1
      <4>2. CASE j = NewIdx
        BY <1>3, <1>4, <1>5, <1>7, <3>3, <4>2
      <4> QED BY <2>1, <3>3, <4>1, <4>2
    <3> QED BY <1>3, <2>1, <3>1, <3>2, <3>3
  <2>2. \A i \in Nodes' : \A l \in DOMAIN layers'[i] : \A j \in layers'[i][l] :
            j # i /\ l \in DOMAIN layers'[j]
    BY <1>2, <1>4, <2>1
  <2> QED BY <1>1, <1>2, <1>9, <1>11, <1>12, <1>13, <2>2 DEF InRange, LayersInRange
<1>15. DegreeBound'
  <2>1. \A l : MaxDegree(l)' = MaxDegree(l)
    BY <1>1, <1>2 DEF MaxDegree
  <2>2. ASSUME NEW i \in Nodes, NEW l \in DOMAIN layers[i]
        PROVE  Cardinality(layers'[i][l]) <= MaxDegree(l)
    <3>1. Cardinality(layers[i][l]) <= MaxDegree(l)
      BY <1>0, <2>2 DEF DegreeBound
    <3> QED BY <1>3, <2>2, <3>1
  <2> QED BY <1>2, <1>4, <2>1, <2>2 DEF DegreeBound
<1>16. Listed'
  BY <1>2, <1>3 DEF Listed
<1>17. Inserting'
  <2> SUFFICES ASSUME pc' = "descend", NEW l \in 0..floor, l <= layer' PROVE layers'[NewIdx][l] = {}
    BY <1>1, <1>2, <1>4, <1>5 DEF Inserting
  <2>1. l <= layer /\ l # layer
    BY <1>0, <1>5, <1>10
  <2>2. layers'[NewIdx][l] = layers[NewIdx][l]
    BY <1>3, <1>5, <2>1
  <2> QED BY <1>5, <2>1, <2>2
<1> QED BY <1>1, <1>14, <1>15, <1>16, <1>17
      DEF Built, Shape, Searching, Quiet, Beam, MaskedSearchFills, WideBeamIsExact, Answered

--------------------------------------------------------------------------------
\* Nothing that the calls still index at this point is missing.
LEMMA AlwaysInBounds ==
    ASSUME Built
    PROVE  InBounds
<1>0. InRange /\ TypeOK /\ Tight /\ Beam /\ Inserting /\ MaxLevel \in Nat
  BY Arguments DEF Built, Shape, InRange, TypeOK
<1>1. pc = "descend" => HasLayer(cur)
  BY <1>0 DEF InRange, LayersInRange, HasLayer
<1>2. ASSUME pc = "beam", ~BeamOver PROVE HasLayer(First(query, candidates))
  <2>1. query \in Points /\ candidates \in SUBSET Nodes /\ candidates # {}
    BY <1>0, <1>2 DEF TypeOK, Points, BeamOver
  <2>2. First(query, candidates) \in candidates
    BY <1>0, <2>1, FirstIn
  <2> QED BY <1>0, <2>2 DEF InRange, LayersInRange, HasLayer
<1>3. ASSUME pc = "beam", op = "insert", NEW i \in Selected \cup {NewIdx} PROVE HasLayer(i)
  <2>1. CASE i \in Selected
    <3>1. i \in visited
      BY <1>0, <2>1 DEF Selected, Nearest, TypeOK
    <3> QED BY <1>0, <1>3, <3>1 DEF Beam, HasLayer
  <2>2. CASE i = NewIdx
    <3>1. layer \in 0..floor
      BY <1>0, <1>3 DEF Beam, Tight
    <3> QED BY <1>0, <1>3, <2>2, <3>1 DEF Inserting, HasLayer
  <2> QED BY <1>3, <2>1, <2>2
<1> QED BY <1>1, <1>2, <1>3 DEF InBounds

--------------------------------------------------------------------------------
\* What holds of an index whose m is too small: its nodes have no layer, so no
\* call gets past the first list it would read.
Unlayered ==
    /\ TypeOK /\ Listed /\ M = 1
    /\ pc # "beam" /\ visited = {} /\ answer = {} /\ ~Answered
    /\ Len(vector) > 0 => entry \in Nodes /\ maxLevel = MaxLevel + 1
    /\ pc = "descend" => cur \in Nodes /\ layer = MaxLevel + 1

\* Every step of such an index keeps that.
LEMMA UnlayeredKeeps ==
    ASSUME Unlayered, [Next]_vars
    PROVE  Unlayered'
<1>0. /\ TypeOK /\ index \in Indexes /\ MaxLevel \in Nat /\ MaxNodes \in Nat /\ Ks \subseteq Nat
      /\ Levels = {-1} /\ Len(vector) \in Nat
  <2>1. TypeOK /\ index \in Indexes /\ vector \in Seq(Vectors)
    BY DEF Unlayered, TypeOK
  <2>2. Levels = {-1}
    BY DEF Unlayered, Levels
  <2>3. Len(vector) \in Nat
    BY <2>1
  <2>4. MaxLevel \in Nat /\ MaxNodes \in Nat /\ Ks \subseteq Nat
    BY <2>1, Arguments
  <2> QED BY <2>1, <2>2, <2>3, <2>4
<1>1. /\ visited = {} /\ candidates = {} /\ results = {} /\ answer = {} /\ pc # "beam"
      /\ Nodes = 1..Len(vector) /\ \A i \in Nodes : layers[i] \in [{} -> SUBSET Nodes]
  <2>1. 0..(-1) = {}
    OBVIOUS
  <2> QED BY <1>0, <2>1 DEF Unlayered, TypeOK, Nodes
<1>2. ASSUME index' = index
      PROVE  /\ MaxLevel' = MaxLevel /\ MaxNodes' = MaxNodes /\ Vectors' = Vectors /\ Ks' = Ks
             /\ M' = M /\ Levels' = Levels
  BY <1>2 DEF MaxLevel, MaxNodes, Vectors, Ks, M, Levels
<1>3. ASSUME UNCHANGED <<graph, beam, answer>>,
             pc' \in {"idle", "descend", "returned", "refused", "panicked"}, op' \in {"insert", "search"},
             query' \in Points, k' \in Ks \cup {0}, mask' \subseteq Nodes, ~Answered',
             floor' \in -1..MaxLevel, layer' \in 0..(MaxLevel + 1), cur' \in Nat,
             pc' = "descend" => cur' \in Nodes /\ layer' = MaxLevel + 1
      PROVE  Unlayered'
  <2>1. UNCHANGED <<index, vector, layers, entry, maxLevel, dim, visited, candidates, results, answer>>
    BY <1>3 DEF graph, beam
  <2>2. Nodes' = Nodes
    BY <2>1 DEF Nodes
  <2>3. TypeOK'
    BY <1>0, <1>2, <1>3, <2>1, <2>2 DEF TypeOK, Points
  <2> QED BY <1>1, <1>2, <1>3, <2>1, <2>2, <2>3 DEF Unlayered, Listed
<1>4. ASSUME NEW v \in Vectors, NEW level \in Levels, InsertFirst(v, level) PROVE Unlayered'
  <2>1. /\ pc' = "idle" /\ Len(vector) = 0 /\ MaxNodes > 0 /\ level = -1
        /\ vector' = <<v>> /\ layers' = << [l \in 0..level |-> {}] >>
        /\ dim' = Len(v) /\ entry' = 1 /\ maxLevel' = MaxLevel + 1
        /\ UNCHANGED <<index, op, query, k, mask, floor, layer, cur, visited, candidates, results, answer>>
    BY <1>0, <1>4 DEF InsertFirst, AsUsize, call, beam
  <2>2. Nodes' = {1} /\ Nodes = {} /\ Len(vector') = 1
    BY <1>1, <2>1 DEF Nodes
  <2>3. layers'[1] = [l \in 0..level |-> {}] /\ DOMAIN layers' = Nodes' /\ level \in Levels'
    BY <1>2, <2>1, <2>2
  <2>4. \A i \in Nodes' : \E l \in Levels' : layers'[i] \in [0..l -> SUBSET Nodes']
    BY <2>2, <2>3
  <2>5. Len(v) \in {0, 1} /\ vector' \in Seq(Vectors) /\ MaxNodes >= 1
    <3>1. Len(v) \in {0, 1}
      BY <1>0, Arguments DEF Points
    <3> QED BY <1>0, <2>1, <3>1
  <2>6. TypeOK'
    BY <1>0, <1>1, <1>2, <2>1, <2>2, <2>3, <2>4, <2>5 DEF TypeOK
  <2>7. Listed'
    <3>1. \A x : <<x>> = [i \in {1} |-> <<x>>[i]]
      OBVIOUS
    <3> QED BY <2>1, <2>2, <3>1 DEF Listed
  <2> QED BY <1>1, <1>2, <2>1, <2>2, <2>6, <2>7 DEF Unlayered, Answered
<1>5. ASSUME NEW v \in Vectors, NEW level \in Levels, InsertNext(v, level) PROVE Unlayered'
  <2> DEFINE n == Len(vector)
  <2>1. /\ pc' = "descend" /\ n \in 1..(MaxNodes - 1) /\ level = -1
        /\ vector' = Append(vector, v) /\ layers' = Append(layers, [l \in 0..level |-> {}])
        /\ dim' \in {dim, Len(v)}
        /\ op' = "insert" /\ query' = v /\ k' = 0 /\ floor' = level /\ mask' = Nodes \cup {n + 1}
        /\ cur' = entry /\ layer' = maxLevel
        /\ UNCHANGED <<index, entry, maxLevel, visited, candidates, results, answer>>
    BY <1>0, <1>5 DEF InsertNext, PushNode, beam
  <2>2. vector' \in Seq(Vectors) /\ Len(vector') = n + 1 /\ Nodes' = 1..(n + 1)
    BY <1>0, <2>1 DEF TypeOK, Nodes
  <2>3. /\ DOMAIN layers' = Nodes' /\ layers'[n + 1] = [l \in 0..level |-> {}]
        /\ \A i \in Nodes : layers'[i] = layers[i]
    <3>1. layers \in Seq({layers[i] : i \in 1..n})
      <4>1. layers = [i \in 1..n |-> layers[i]]
        BY <1>1 DEF Unlayered, Listed
      <4> QED BY <1>0, <4>1
    <3>2. Len(layers) = n
      BY <1>0, <1>1, <3>1 DEF TypeOK
    <3> QED BY <1>0, <1>1, <2>1, <2>2, <3>1, <3>2
  <2>4. \A i \in Nodes' : \E l \in Levels' : layers'[i] \in [0..l -> SUBSET Nodes']
    <3> SUFFICES ASSUME NEW i \in Nodes' PROVE layers'[i] \in [0..(-1) -> SUBSET Nodes']
      BY <1>0, <1>2, <2>1
    <3>1. CASE i = n + 1
      BY <2>1, <2>3, <3>1
    <3>2. CASE i \in Nodes
      BY <1>1, <2>3, <3>2
    <3> QED BY <1>0, <1>1, <2>2, <3>1, <3>2
  <2>5. /\ Len(v) \in {0, 1} /\ n + 1 <= MaxNodes /\ entry \in Nodes /\ maxLevel = MaxLevel + 1
        /\ Nodes \subseteq Nodes' /\ n + 1 \in Nodes' /\ Nodes \subseteq Nat
    <3>1. Len(v) \in {0, 1}
      BY <1>0, Arguments DEF Points
    <3>2. n > 0 /\ n + 1 <= MaxNodes
      BY <1>0, <2>1
    <3> QED BY <1>0, <1>1, <2>2, <3>1, <3>2 DEF Unlayered
  <2>6. TypeOK'
    <3>1. Len(vector') <= MaxNodes' /\ vector' \in Seq(Vectors') /\ floor' \in -1..MaxLevel' /\ layer' \in 0..(MaxLevel' + 1)
      BY <1>0, <1>2, <2>1, <2>2, <2>5
    <3>2. cur' \in Nat /\ entry' \in Nat /\ maxLevel' \in 0..(MaxLevel' + 1) /\ dim' \in {0, 1} /\ mask' \subseteq Nodes'
      BY <1>0, <1>2, <2>1, <2>5 DEF TypeOK
    <3>3. query' \in Vectors' \cup {<<>>} /\ k' \in Ks' \cup {0} /\ index' \in Indexes
      BY <1>0, <1>2, <2>1
    <3> QED BY <1>1, <2>1, <2>3, <2>4, <3>1, <3>2, <3>3 DEF TypeOK
  <2>7. Listed'
    <3> DEFINE none == [l \in 0..level |-> {}]
               T    == {layers[i] : i \in 1..n} \cup {none}
    <3>1. layers = [i \in 1..n |-> layers[i]]
      BY <1>1 DEF Unlayered, Listed
    <3>2. layers \in Seq(T)
      BY <1>0, <3>1
    <3>3. layers' = Append(layers, none) /\ none \in T
      BY <2>1
    <3> HIDE DEF T, none
    <3>4. layers' \in Seq(T)
      BY <3>2, <3>3
    <3>5. layers' = [i \in DOMAIN layers' |-> layers'[i]]
      BY <3>4
    <3> QED BY <2>3, <3>5 DEF Listed
  <2> QED BY <1>1, <1>2, <2>1, <2>2, <2>5, <2>6, <2>7 DEF Unlayered, Answered
<1>6. ASSUME NEW v \in Vectors, InsertRefused(v) PROVE Unlayered'
  BY <1>0, <1>3, <1>6 DEF InsertRefused, Answered, TypeOK, Points
<1>7. ASSUME NEW v \in Vectors, InsertOverflows(v) PROVE Unlayered'
  <2>1. /\ op' = "insert" /\ query' = v /\ pc' = "panicked" /\ dim' \in {dim, Len(v)}
        /\ UNCHANGED <<index, vector, layers, entry, maxLevel, k, mask, floor, layer, cur>>
        /\ UNCHANGED <<visited, candidates, results, answer>>
    BY <1>7 DEF InsertOverflows, beam
  <2>2. Nodes' = Nodes /\ Len(v) \in {0, 1}
    BY <1>0, <2>1, Arguments DEF Nodes, Points
  <2>3. TypeOK'
    BY <1>0, <1>1, <1>2, <2>1, <2>2 DEF TypeOK
  <2> QED BY <1>1, <1>2, <2>1, <2>2, <2>3 DEF Unlayered, Listed, Answered
<1>8. ASSUME NEW v \in Vectors, NEW n \in Ks, NEW fits \in BOOLEAN, ReturnEarly(v, n, fits) PROVE Unlayered'
  <2>1. ~Answered'
    <3>1. UNCHANGED vector /\ k' = n /\ n \in Nat
      BY <1>0, <1>8 DEF ReturnEarly, graph
    <3>2. pc' = "returned" => n = 0 \/ Len(vector) = 0
      BY <1>8 DEF ReturnEarly
    <3> QED BY <1>0, <3>1, <3>2 DEF Answered
  <2> QED BY <1>0, <1>3, <1>8, <2>1 DEF ReturnEarly, TypeOK, Points
<1>9. ASSUME NEW v \in Vectors, NEW n \in Ks, NEW allowed \in SUBSET Nodes, Search(v, n, allowed)
      PROVE  Unlayered'
  <2>1. entry \in Nodes /\ maxLevel = MaxLevel + 1 /\ Nodes \subseteq Nat
    BY <1>1, <1>9 DEF Search, Unlayered
  <2>2. /\ UNCHANGED <<graph, beam, answer>> /\ pc' = "descend" /\ op' = "search" /\ query' = v /\ k' = n
        /\ mask' = allowed /\ floor' = 0 /\ cur' = entry /\ layer' = maxLevel
    BY <1>9 DEF Search
  <2>3. 0 \in -1..MaxLevel /\ layer' \in 0..(MaxLevel + 1) /\ cur' \in Nat
    BY <1>0, <2>1, <2>2
  <2>4. ~Answered' /\ query' \in Points /\ k' \in Ks \cup {0}
    BY <2>2 DEF Answered, Points
  <2> QED BY <1>3, <2>1, <2>2, <2>3, <2>4
<1>10. ASSUME GreedyMove \/ GreedyDone \/ StartBeam \/ Expand \/ WireLayer \/ Reply PROVE FALSE
  <2>1. pc = "descend"
    BY <1>1, <1>10 DEF GreedyMove, GreedyDone, StartBeam, Expand, WireLayer, Reply
  <2>2. layer > floor /\ DOMAIN layers[cur] = {}
    BY <1>0, <1>1, <2>1 DEF Unlayered, TypeOK
  <2>3. ~InBounds
    BY <2>1, <2>2 DEF InBounds, HasLayer
  <2> QED BY <1>10, <2>1, <2>2, <2>3, <1>0 DEF GreedyMove, GreedyDone, StartBeam, Expand, WireLayer, Reply, TypeOK
<1>11. CASE OutOfRange
  BY <1>0, <1>3, <1>11 DEF OutOfRange, call, Answered, TypeOK, Points
<1>12. CASE Return
  <2>1. 0 \in -1..MaxLevel /\ 0 \in 0..(MaxLevel + 1)
    BY <1>0
  <2> QED BY <1>1, <1>3, <1>12, <2>1 DEF Return, Answered, Points, beam
<1>13. CASE Panicked \/ UNCHANGED vars
  <2>1. UNCHANGED vars
    BY <1>13 DEF Panicked
  <2>2. UNCHANGED <<graph, beam, answer, pc, op, query, k, mask, floor, layer, cur>>
    BY <2>1 DEF vars, call
  <2>3. pc' \in {"idle", "descend", "returned", "refused", "panicked"} /\ ~Answered'
    BY <1>0, <1>1, <2>2 DEF TypeOK, Unlayered, Answered, graph
  <2>4. pc = "descend" => cur \in Nodes /\ layer = MaxLevel + 1
    BY DEF Unlayered
  <2> QED BY <1>0, <1>3, <2>2, <2>3, <2>4 DEF TypeOK, Points
<1> QED BY <1>4, <1>5, <1>6, <1>7, <1>8, <1>9, <1>10, <1>11, <1>12, <1>13 DEF Next, Step

--------------------------------------------------------------------------------
\* An index either has layers or has none.
Inv == (M # 1 => Built) /\ (M = 1 => Unlayered)

\* Every step of an index with layers keeps the invariant.
LEMMA BuiltKeeps == Built /\ [Next]_vars => Built'
<1> SUFFICES ASSUME Built, [Next]_vars PROVE Built'
  OBVIOUS
<1>1. CASE \E v \in Vectors, level \in Levels : InsertFirst(v, level) \/ InsertNext(v, level)
  BY <1>1, InsertFirstKeeps, InsertNextKeeps
<1>2. CASE \/ \E v \in Vectors : InsertRefused(v)
           \/ \E v \in Vectors, n \in Ks, fits \in BOOLEAN : ReturnEarly(v, n, fits)
           \/ \E v \in Vectors, n \in Ks, allowed \in SUBSET Nodes : Search(v, n, allowed)
  BY <1>2, CallsKeep
<1>3. CASE GreedyMove \/ GreedyDone
  BY <1>3, GreedyKeeps
<1>4. CASE StartBeam
  BY <1>4, StartBeamKeeps
<1>5. CASE Expand
  BY <1>5, ExpandKeeps
<1>6. CASE WireLayer
  BY <1>6, WireLayerKeeps
<1>7. CASE Reply
  BY <1>7, ReplyKeeps
<1>8. CASE Return
  BY <1>8, ReturnKeeps
<1>9. CASE OutOfRange \/ Panicked \/ \E v \in Vectors : InsertOverflows(v)
  <2>1. InBounds /\ Tight /\ MaxLevel \in Nat
    BY AlwaysInBounds, Arguments DEF Built, InRange, TypeOK
  <2>2. -1 \notin Levels
    BY <2>1 DEF Levels, Tight
  <2> QED BY <1>9, <2>1, <2>2 DEF OutOfRange, Panicked, InsertOverflows, Tight
<1>10. CASE UNCHANGED vars
  <2>1. /\ UNCHANGED <<index, vector, layers, entry, maxLevel, dim, pc, op, query, k, mask, floor>>
        /\ UNCHANGED <<layer, cur, visited, candidates, results, answer>>
    BY <1>10 DEF vars, graph, call, beam
  <2>2. /\ Nodes' = Nodes /\ NewIdx' = NewIdx /\ Vectors' = Vectors /\ MaxNodes' = MaxNodes
        /\ MaxLevel' = MaxLevel /\ Ks' = Ks /\ M' = M /\ Ef' = Ef /\ Levels' = Levels
    BY <2>1 DEF Nodes, NewIdx, Vectors, MaxNodes, MaxLevel, Ks, M, Levels, Ef, EfConstruction, EfSearch
  <2>3. InRange'
    BY <2>1, <2>2 DEF Built, InRange, LayersInRange, TypeOK, Tight
  <2>4. DegreeBound'
    BY <2>1, <2>2 DEF Built, DegreeBound, MaxDegree
  <2>5. Shape'
    <3>1. (Listed /\ Inserting /\ Searching /\ Quiet)'
      BY <2>1, <2>2 DEF Built, Shape, Listed, Inserting, Searching, Quiet
    <3>2. Beam'
      BY <2>1, <2>2 DEF Built, Shape, Beam, Closed
    <3> QED BY <3>1, <3>2 DEF Shape
  <2>6. Reachable' = Reachable
    BY <2>1, <2>2 DEF Reachable
  <2>7. MaskedSearchFills'
    BY <2>1, <2>6 DEF Built, MaskedSearchFills, Answered
  <2>8. WideBeamIsExact'
    BY <2>1, <2>2, <2>6 DEF Built, WideBeamIsExact, Answered, FlatSearch, Closer, Distance
  <2> QED BY <2>3, <2>4, <2>5, <2>7, <2>8 DEF Built
<1> QED BY <1>1, <1>2, <1>3, <1>4, <1>5, <1>6, <1>7, <1>8, <1>9, <1>10 DEF Next, Step

\* And every step of either.
LEMMA NextInv == Inv /\ [Next]_vars => Inv'
<1> SUFFICES ASSUME Inv, [Next]_vars PROVE Inv'
  OBVIOUS
<1>1. M' = M
  <2>1. index' = index
    BY DEF Next, Step, vars, graph, InsertFirst, InsertNext, PushNode, InsertRefused, InsertOverflows,
           ReturnEarly, Search, GreedyMove, GreedyDone, StartBeam, Expand, WireLayer, Reply,
           OutOfRange, Return, Panicked
  <2> QED BY <2>1 DEF M
<1>2. CASE M = 1
  BY <1>1, <1>2, UnlayeredKeeps DEF Inv
<1>3. CASE M # 1
  BY <1>1, <1>3, BuiltKeeps DEF Inv
<1> QED BY <1>2, <1>3

\* An empty index of either kind.
LEMMA InitInv == Init => Inv
<1> SUFFICES ASSUME Init, M = 1 PROVE Unlayered
  BY InitBuilt DEF Inv
<1>1. MaxLevel \in Nat /\ MaxNodes \in Nat
  BY Arguments DEF Init
<1>2. Nodes = {} /\ Len(vector) = 0
  BY DEF Init, Nodes
<1>3. TypeOK /\ Listed
  BY <1>1, <1>2 DEF Init, TypeOK, Listed
<1> QED BY <1>2, <1>3 DEF Unlayered, Init, Answered

\* The invariant of every behaviour.
LEMMA SpecInv == Spec => []Inv
BY InitInv, NextInv, PTL DEF Spec

\* Whatever is inserted and searched, at whatever levels, every position and
\* layer the code indexes exists, if the index was made with an m of two or
\* more; with a smaller one no search answers.
THEOREM IndexStaysInRange == Spec => []IndexInRange
<1>1. Inv => IndexInRange
  BY DEF Inv, Built, InRange, Tight, Unlayered, IndexInRange
<1> QED BY <1>1, SpecInv, PTL

\* No neighbour list outgrows 2m at layer 0 and m above, whatever is linked.
THEOREM DegreesStayBounded == Spec => []DegreeBound
<1>1. Unlayered => DegreeBound
  <2> SUFFICES ASSUME Unlayered, NEW i \in Nodes PROVE DOMAIN layers[i] = {}
    BY DEF DegreeBound
  <2>1. layers[i] \in [0..(-1) -> SUBSET Nodes]
    BY DEF Unlayered, TypeOK, Levels
  <2> QED BY <2>1
<1>2. Inv => DegreeBound
  BY <1>1 DEF Inv, Built
<1> QED BY <1>2, SpecInv, PTL

\* A masked search returns k nodes, or every allowed node linked from its entry
\* point, on every graph insertions can build and for every mask.
THEOREM MaskNeverStarves == Spec => []MaskedSearchFills
<1>1. Inv => MaskedSearchFills
  BY DEF Inv, Built, Unlayered, MaskedSearchFills
<1> QED BY <1>1, SpecInv, PTL

\* With a beam as wide as the index, a search answers as the flat index does
\* over the nodes linked from its entry point.
THEOREM WideBeamEqualsFlat == Spec => []WideBeamIsExact
<1>1. Inv => WideBeamIsExact
  BY DEF Inv, Built, Unlayered, WideBeamIsExact
<1> QED BY <1>1, SpecInv, PTL
================================================================================
