------------------------------- MODULE HnswIndex -------------------------------
(***************************************************************************)
(* gtv-index: the HNSW graph.  insert draws a level, descends greedily to  *)
(* it and then, layer by layer, runs a beam search and links the new node  *)
(* to the nearest nodes found, pruning their lists; search_knn descends to *)
(* layer 0 and runs one beam search under an optional bitmask.             *)
(*                                                                         *)
(* A node is its position (from 1); external ids are positions, as every   *)
(* caller numbers them.  A vector has at most one coordinate.  The         *)
(* candidate and result vectors are kept sorted by (distance, position), a *)
(* total order, so they are sets here; a neighbour list is a set too, and  *)
(* the one place its order shows, a tie in the greedy descent, is a        *)
(* nondeterministic choice.  The level is the generator's choice.          *)
(***************************************************************************)
EXTENDS Integers, Sequences, FiniteSets

\* The indexes a behaviour may be about: the arguments of HnswIndex::new, and
\* the vectors and the bounds of its use.
CONSTANT Indexes

\* The constructor takes any m and any beam widths.
ASSUME HnswAssumption ==
    \A x \in Indexes :
        /\ \A v \in x.vectors : v = <<>> \/ (Len(v) = 1 /\ v[1] \in Int)
        /\ x.nodes \in Nat /\ x.level \in Nat /\ x.ks \subseteq Nat
        /\ x.m \in Nat /\ x.efConstruction \in Nat /\ x.efSearch \in Nat

VARIABLES
    index,           \* the arguments of HnswIndex::new and the bounds
    vector,          \* vector[i] of node i
    layers,          \* layers[i][l], the neighbours of node i at layer l
    entry, maxLevel, dim,
    pc, op,          \* the call in progress and its phase
    query, k, mask,  \* its arguments; mask is the set of allowed nodes
    floor,           \* the layer the greedy descent stops at
    layer, cur,      \* the layer being searched and the node it starts from
    visited, candidates, results,
    answer           \* the nodes search_knn returns

graph == <<index, vector, layers, entry, maxLevel, dim>>
beam  == <<visited, candidates, results>>
call  == <<op, query, k, mask, floor>>
vars  == <<graph, pc, call, layer, cur, beam, answer>>

Larger(a, b) == IF a >= b THEN a ELSE b

\* HnswIndex::new: m and the beam widths, none below one, and the bounds on
\* vectors inserted or queried, nodes, drawn levels and k.
Vectors        == index.vectors
MaxNodes       == index.nodes
MaxLevel       == index.level
Ks             == index.ks
M              == Larger(index.m, 1)
EfConstruction == Larger(index.efConstruction, 1)
EfSearch       == Larger(index.efSearch, 1)

MaxDegree(l) == IF l = 0 THEN Larger(2 * index.m, 1) ELSE M

\* random_level: any level may be drawn.  With m = 1 the distribution divides
\* by ln 1 = 0 and the level is the largest integer, written -1: the level
\* above it wraps round to 0, and 0..-1 are the layers its node has.
Levels == IF M = 1 THEN {-1} ELSE 0..MaxLevel

\* A level where it is a layer to begin at: the largest is above every layer.
AsUsize(level) == IF level < 0 THEN MaxLevel + 1 ELSE level

Nodes  == 1..Len(vector)
NewIdx == Len(vector)

TypeOK ==
    /\ index \in Indexes
    /\ vector \in Seq(Vectors) /\ Len(vector) <= MaxNodes
    /\ DOMAIN layers = Nodes
    /\ \A i \in Nodes : \E l \in Levels : layers[i] \in [0..l -> SUBSET Nodes]
    /\ entry \in Nat /\ maxLevel \in 0..(MaxLevel + 1) /\ dim \in {0, 1}
    /\ pc \in {"idle", "descend", "beam", "returned", "refused", "panicked"}
    /\ op \in {"insert", "search"}
    /\ query \in Vectors \cup {<<>>} /\ k \in Ks \cup {0} /\ mask \subseteq Nodes
    /\ floor \in -1..MaxLevel /\ layer \in 0..(MaxLevel + 1) /\ cur \in Nat
    /\ visited \subseteq Nodes /\ candidates \subseteq visited /\ results \subseteq visited
    /\ answer \subseteq Nodes

-------------------------------------------------------------------------------
\* squared_l2: zip stops at the shorter vector.
SquaredL2(a, b) ==
    IF a = <<>> \/ b = <<>> THEN 0 ELSE (a[1] - b[1]) * (a[1] - b[1])

Distance(v, i) == SquaredL2(v, vector[i])

\* sort_asc: by distance, then by position.
Closer(v, i, j) ==
    \/ Distance(v, i) < Distance(v, j)
    \/ Distance(v, i) = Distance(v, j) /\ i < j

\* The first n of S in that order (sort_asc and truncate, take_nearest).
Nearest(v, S, n) == {i \in S : Cardinality({j \in S : Closer(v, j, i)}) < n}

First(v, S) == CHOOSE i \in S : \A j \in S \ {i} : Closer(v, i, j)

Ef == IF op = "insert" THEN EfConstruction ELSE Larger(EfSearch, k)

Init ==
    /\ index \in Indexes
    /\ vector = <<>> /\ layers = <<>> /\ entry = 0 /\ maxLevel = 0 /\ dim = 0
    /\ pc = "idle" /\ op = "insert"
    /\ query = <<>> /\ k = 0 /\ mask = {} /\ floor = 0
    /\ layer = 0 /\ cur = 0
    /\ visited = {} /\ candidates = {} /\ results = {}
    /\ answer = {}

-------------------------------------------------------------------------------
\* The first node: it becomes the entry point and nothing is linked.
InsertFirst(v, level) ==
    /\ pc = "idle" /\ Len(vector) = 0 /\ MaxNodes > 0
    /\ vector' = <<v>> /\ layers' = << [l \in 0..level |-> {}] >>
    /\ dim' = Len(v)
    /\ entry' = 1 /\ maxLevel' = AsUsize(level)
    /\ UNCHANGED <<index, pc, call, layer, cur, beam, answer>>

\* A later node is pushed with empty layers up to top, then the descent begins.
PushNode(v, level, top) ==
    /\ pc = "idle" /\ Len(vector) \in 1..(MaxNodes - 1)
    /\ dim = 0 \/ Len(v) = dim
    /\ vector' = Append(vector, v)
    /\ layers' = Append(layers, [l \in 0..top |-> {}])
    /\ dim' = IF dim = 0 THEN Len(v) ELSE dim
    /\ op' = "insert" /\ query' = v /\ k' = 0 /\ floor' = level
    /\ mask' = Nodes \cup {Len(vector) + 1}
    /\ cur' = entry /\ layer' = maxLevel
    /\ pc' = "descend"
    /\ UNCHANGED <<index, entry, maxLevel, beam, answer>>

InsertNext(v, level) == PushNode(v, level, level)

\* A debug build stops at the addition level + 1 instead of wrapping it.
InsertOverflows(v) ==
    /\ pc = "idle" /\ Len(vector) < MaxNodes /\ -1 \in Levels
    /\ dim = 0 \/ Len(v) = dim
    /\ dim' = IF dim = 0 THEN Len(v) ELSE dim
    /\ op' = "insert" /\ query' = v /\ pc' = "panicked"
    /\ UNCHANGED <<index, vector, layers, entry, maxLevel, k, mask, floor, layer, cur, beam, answer>>

\* insert takes the dimension of the first vector that has one and refuses any
\* other; a vector without coordinates does not settle it.
InsertRefused(v) ==
    /\ pc = "idle" /\ dim # 0 /\ Len(v) # dim
    /\ op' = "insert" /\ query' = v /\ pc' = "refused"
    /\ UNCHANGED <<graph, k, mask, floor, layer, cur, beam, answer>>

\* search_knn on a non-empty index, k > 0.
Search(v, n, allowed) ==
    /\ pc = "idle" /\ Len(vector) > 0 /\ Len(v) = dim /\ n > 0
    /\ op' = "search" /\ query' = v /\ k' = n /\ mask' = allowed /\ floor' = 0
    /\ cur' = entry /\ layer' = maxLevel
    /\ pc' = "descend"
    /\ UNCHANGED <<graph, beam, answer>>

\* A query of another dimension (an empty index has dimension 0) or a mask of
\* another length is refused; k = 0 and an empty index give an empty answer.
ReturnEarly(v, n, maskFits) ==
    /\ pc = "idle"
    /\ Len(v) # dim \/ ~maskFits \/ n = 0 \/ Len(vector) = 0
    /\ op' = "search" /\ query' = v /\ k' = n
    /\ pc' = IF Len(v) # dim \/ ~maskFits THEN "refused" ELSE "returned"
    /\ UNCHANGED <<graph, mask, floor, layer, cur, beam, answer>>

\* The nearest candidate is farther than the farthest of ef results.
BeamFull ==
    /\ Cardinality(results) >= Ef
    /\ \A r \in results :
          Distance(query, First(query, candidates)) > Distance(query, r)

BeamOver == candidates # {} => BeamFull

\* take_nearest: the nodes an insertion links the new one to at this layer.
Selected == Nearest(query, results \ {NewIdx}, MaxDegree(layer))

HasLayer(i) == layer \in DOMAIN layers[i]

\* The lists the call indexes next are there.
InBounds ==
    /\ pc = "descend" /\ layer > floor => HasLayer(cur)
    /\ pc = "beam" /\ ~BeamOver => HasLayer(First(query, candidates))
    /\ pc = "beam" /\ BeamOver /\ op = "insert" => \A i \in Selected \cup {NewIdx} : HasLayer(i)

\* Indexing a list that is not there ends the program.
OutOfRange ==
    /\ pc \in {"descend", "beam"} /\ ~InBounds
    /\ pc' = "panicked"
    /\ UNCHANGED <<graph, call, layer, cur, beam, answer>>

NearestNeighbours ==
    {n \in layers[cur][layer] :
        \A o \in layers[cur][layer] : Distance(query, n) <= Distance(query, o)}

\* Fault: an equally near neighbour is moved to.
GreedyNeighboursFault ==
    {n \in NearestNeighbours : Distance(query, n) <= Distance(query, cur)}

\* greedy_descend, one move: to a nearest neighbour, if it is strictly nearer.
GreedyNeighbours ==
    {n \in NearestNeighbours : Distance(query, n) < Distance(query, cur)}

GreedyMove ==
    /\ pc = "descend" /\ layer > floor /\ InBounds
    /\ cur' \in GreedyNeighbours
    /\ UNCHANGED <<graph, pc, call, layer, beam, answer>>

GreedyDone ==
    /\ pc = "descend" /\ layer > floor /\ InBounds /\ GreedyNeighbours = {}
    /\ layer' = layer - 1
    /\ UNCHANGED <<graph, pc, call, cur, beam, answer>>

\* search_layer: the entry point is visited, and a result if the mask allows it.
StartBeam ==
    /\ pc = "descend" /\ layer <= floor
    /\ visited' = {cur} /\ candidates' = {cur} /\ results' = {cur} \cap mask
    /\ pc' = "beam"
    /\ UNCHANGED <<graph, call, layer, cur, answer>>

\* Fault: a node the mask excludes is not passed through.
NeighboursFault(c) == layers[c][layer] \cap mask

\* The nodes a candidate leads to, those the mask excludes too.
Neighbours(c) == layers[c][layer]

\* One turn of the while loop: expand the nearest candidate.
Expand ==
    /\ pc = "beam" /\ ~BeamOver /\ InBounds
    /\ LET c   == First(query, candidates)
           new == Neighbours(c) \ visited
       IN  /\ visited' = visited \cup new
           /\ candidates' = (candidates \ {c}) \cup new
           /\ results' = Nearest(query, results \cup (new \cap mask), Ef)
    /\ UNCHANGED <<graph, pc, call, layer, cur, answer>>

\* Fault: the lists of the linked nodes are not pruned.
PrunedFault(i, list) == list

\* The nearest of a linked node's list that its bound leaves.
Pruned(i, list) == Nearest(vector[i], list, MaxDegree(layer))

\* The lists of node i once the new node and the selected ones are linked both
\* ways and those are pruned.
Links(i, selected) ==
    IF i = NewIdx THEN [layers[i] EXCEPT ![layer] = @ \cup selected]
    ELSE IF i \in selected
         THEN [layers[i] EXCEPT ![layer] = Pruned(i, @ \cup {NewIdx})]
         ELSE layers[i]

\* Fault: a higher top level keeps the old entry point.
NewEntryFault == entry

\* A node of a new top level becomes the entry point.
NewEntry == IF floor > maxLevel THEN NewIdx ELSE entry

\* The end of an insertion's beam search: link, and go on one layer below from
\* the nearest node found, or end after layer 0.
WireLayer ==
    /\ pc = "beam" /\ BeamOver /\ op = "insert" /\ InBounds
    /\ LET found == results \ {NewIdx}
       IN  /\ layers' = [i \in Nodes |-> Links(i, Selected)]
           /\ cur' = IF found = {} THEN cur ELSE First(query, found)
    /\ visited' = {} /\ candidates' = {} /\ results' = {}
    /\ IF layer > 0
       THEN layer' = layer - 1 /\ pc' = "descend" /\ UNCHANGED <<entry, maxLevel>>
       ELSE /\ layer' = 0 /\ pc' = "returned"
            /\ entry' = NewEntry /\ maxLevel' = Larger(floor, maxLevel)
    /\ UNCHANGED <<index, vector, dim, call, answer>>

\* Fault: the results are cut to k in insertion order, not by distance.
CutFault == {i \in results : Cardinality({j \in results : j < i}) < k}

Cut == Nearest(query, results, k)

\* The end of a search: the k nearest results.
Reply ==
    /\ pc = "beam" /\ BeamOver /\ op = "search"
    /\ answer' = Cut
    /\ pc' = "returned"
    /\ UNCHANGED <<graph, call, layer, cur, beam>>

\* The caller has the answer; what the call used is dropped.
Return ==
    /\ pc \in {"returned", "refused"}
    /\ pc' = "idle" /\ op' = "insert" /\ query' = <<>> /\ k' = 0 /\ mask' = {}
    /\ floor' = 0 /\ layer' = 0 /\ cur' = 0 /\ answer' = {}
    /\ visited' = {} /\ candidates' = {} /\ results' = {}
    /\ UNCHANGED graph

\* After a panic nothing happens.
Panicked == pc = "panicked" /\ UNCHANGED vars

Step ==
    GreedyMove \/ GreedyDone \/ StartBeam \/ Expand \/ WireLayer \/ Reply \/ OutOfRange \/ Return

Next ==
    \/ \E v \in Vectors, level \in Levels : InsertFirst(v, level) \/ InsertNext(v, level)
    \/ \E v \in Vectors : InsertRefused(v) \/ InsertOverflows(v)
    \/ \E v \in Vectors, n \in Ks, maskFits \in BOOLEAN : ReturnEarly(v, n, maskFits)
    \/ \E v \in Vectors, n \in Ks, allowed \in SUBSET Nodes : Search(v, n, allowed)
    \/ Step \/ Panicked

Spec == Init /\ [][Next]_vars

\* A call runs to its end on the caller's thread.
FairSpec == Spec /\ WF_vars(Step)

-------------------------------------------------------------------------------
\* Everything the code indexes is there: a neighbour at a layer has that layer
\* itself, the entry point has all of them, and so has, at the layer being
\* searched, the node a descent stands on and every candidate of the beam.
LayersInRange ==
    /\ \A i \in Nodes : \A l \in DOMAIN layers[i] : \A j \in layers[i][l] :
          j # i /\ l \in DOMAIN layers[j]
    /\ Len(vector) > 0 => entry \in Nodes /\ DOMAIN layers[entry] = 0..maxLevel
    /\ pc \in {"descend", "beam"} => cur \in Nodes /\ layer \in DOMAIN layers[cur]
    /\ \A c \in candidates : layer \in DOMAIN layers[c]

\* The variables have their types, and no call indexes out of range unless the
\* index was made with an m below two; with such an m none ever answers from
\* a search.
IndexInRange ==
    /\ TypeOK
    /\ M # 1 => pc # "panicked" /\ LayersInRange
    /\ M = 1 => pc # "beam" /\ answer = {}

\* No list outgrows its layer's bound, the lists of a new node's neighbours
\* included.
DegreeBound ==
    \A i \in Nodes : \A l \in DOMAIN layers[i] :
        Cardinality(layers[i][l]) <= MaxDegree(l)

\* The nodes linked, directly or not, from the one the layer-0 search starts at.
Reachable ==
    {i \in Nodes : \A S \in SUBSET Nodes :
        (cur \in S /\ \A j \in S : layers[j][0] \subseteq S) => i \in S}

\* FlatIndex::search_knn, over the nodes of S.
FlatSearch(v, n, S) == {i \in S : Cardinality({j \in S : Closer(v, j, i)}) < n}

Answered == pc = "returned" /\ op = "search" /\ k > 0 /\ Len(vector) > 0

\* A mask never starves a search: it returns k nodes, or every allowed node that
\* is linked from its entry point, however far behind excluded nodes they are.
MaskedSearchFills ==
    Answered =>
        LET allowed == Reachable \cap mask
        IN  /\ answer \subseteq allowed
            /\ Cardinality(answer) = (IF Cardinality(allowed) < k THEN Cardinality(allowed) ELSE k)

\* With a beam as wide as the index the search is exact over the linked nodes.
WideBeamIsExact ==
    Answered /\ Ef >= Len(vector) => answer = FlatSearch(query, k, Reachable \cap mask)

\* Every call returns or panics: neither the descent nor the beam search can go
\* on forever.
CallsReturn == (pc # "idle") ~> (pc \in {"idle", "panicked"})
================================================================================
