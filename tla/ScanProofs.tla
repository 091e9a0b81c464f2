------------------------------- MODULE ScanProofs -------------------------------
(***************************************************************************)
(* The two scans over temporal edges.  Zone-map pruning is exact: for      *)
(* columns of any length and content, any chunk size and any query         *)
(* instant.  Pattern matching is exact: for any graph, any pattern whose   *)
(* edges are declared forward, any start and any limit.                    *)
(***************************************************************************)
EXTENDS ZoneMap, PatternMatch, FiniteSetTheorems, TLAPS


\* The running bounds contain the rows of the chunk scanned so far.
ScanBounds ==
    phase = "scan" =>
        /\ j <= len /\ 0 < len
        /\ \A r \in offset..(offset + j - 1) : minFrom <= from[r] /\ to[r] <= maxTo

\* The mask has exactly the active rows of the zones visited so far.
MaskSoFar ==
    /\ phase \in {"chunk", "scan"} => mask = {}
    /\ phase \in {"mask", "done"} =>
          /\ offset = n
          /\ j <= Len(zones)
          /\ \A r \in 0..(n - 1) :
                r \in mask <=> Active(r) /\ \E k \in 1..j : r \in ZoneRows(zones[k])
    /\ phase = "done" => j = Len(zones)

IInv == TypeOK /\ ZonesSound /\ ScanBounds /\ MaskSoFar

\* Instants and zone bounds are integers.
LEMMA Instants ==
    ASSUME TypeOK
    PROVE  /\ at \in Int /\ minFrom \in Int /\ maxTo \in Int
           /\ \A r \in 0..(n - 1) : from[r] \in I64 /\ to[r] \in I64
           /\ \A r \in 0..(n - 1) : from[r] \in Int /\ to[r] \in Int
           /\ \A k \in DOMAIN zones : /\ zones[k] \in Zone
                                      /\ zones[k].min_from \in Int
                                      /\ zones[k].max_to \in Int
                                      /\ zones[k].offset \in Nat /\ zones[k].len \in Nat
  <1>1. Times \subseteq Int /\ I64 \subseteq Int /\ Times \subseteq I64
    BY ZoneAssumption DEF I64
  <1>2. \A k \in DOMAIN zones : zones[k] \in Zone
    BY DEF TypeOK
  <1>3. \A z \in Zone : z.min_from \in I64 /\ z.max_to \in I64 /\ z.offset \in Nat /\ z.len \in Nat
    BY DEF Zone
  <1>4. \A r \in 0..(n - 1) : from[r] \in Times /\ to[r] \in Times
    BY DEF TypeOK
  <1>5. at \in Times /\ minFrom \in I64 /\ maxTo \in I64
    BY DEF TypeOK
  <1>6. QED
    BY <1>1, <1>2, <1>3, <1>4, <1>5

\* Nothing has been cut and nothing is set at the start.
LEMMA InitIInv == Init => IInv
  BY ZoneAssumption DEF Init, IInv, TypeOK, ZonesSound, ScanBounds, MaskSoFar, I64

\* A zone that excludes the instant holds no active row.
LEMMA SkipIsSafe ==
    ASSUME TypeOK, ZonesSound, NEW k \in DOMAIN zones, Excludes(zones[k])
    PROVE  \A r \in ZoneRows(zones[k]) : ~Active(r)
  <1>1. \A r \in ZoneRows(zones[k]) :
           r \in 0..(n - 1) /\ zones[k].min_from <= from[r] /\ to[r] <= zones[k].max_to
    BY DEF TypeOK, ZonesSound
  <1>2. QED
    BY <1>1, Instants DEF Excludes, Active

\* Every step of the two loops keeps the invariant.
LEMMA StepIInv == IInv /\ [Next]_vars => IInv'
  <1> SUFFICES ASSUME IInv, [Next]_vars
               PROVE  IInv'
    OBVIOUS
  <1> USE ZoneAssumption DEF IInv, input, I64
  <1>1. CASE StartChunk
    BY <1>1 DEF StartChunk, TypeOK, ZonesSound, ZoneRows, ScanBounds, MaskSoFar, Least
  <1>2. CASE ScanRow
    <2>1. offset + j \in 0..(n - 1)
      BY <1>2 DEF ScanRow, TypeOK
    <2>2. minFrom' \in I64 /\ maxTo' \in I64
      BY <1>2, <2>1, Instants DEF ScanRow, TypeOK, Least, Greatest
    <2>3. TypeOK'
      BY <1>2, <2>2 DEF ScanRow, TypeOK
    <2>4. ZonesSound' /\ MaskSoFar'
      BY <1>2 DEF ScanRow, ZonesSound, ZoneRows, MaskSoFar
    <2>5. ScanBounds'
      <3>1. \A r \in offset..(offset + j) : r \in 0..(n - 1)
        BY <2>1 DEF TypeOK
      <3>2. ASSUME NEW r \in offset..(offset + j)
            PROVE  minFrom' <= from[r] /\ to[r] <= maxTo'
        <4>1. from[r] \in Int /\ to[r] \in Int /\ minFrom \in Int /\ maxTo \in Int
          BY <3>1, Instants
        <4>2. from[offset + j] \in Int /\ to[offset + j] \in Int
          BY <2>1, Instants
        <4>3. /\ minFrom' <= minFrom /\ minFrom' <= from[offset + j]
              /\ maxTo <= maxTo' /\ to[offset + j] <= maxTo'
              /\ minFrom' \in Int /\ maxTo' \in Int
          BY <1>2, <4>1, <4>2 DEF ScanRow, Least, Greatest
        <4>4. CASE r = offset + j
          BY <4>3, <4>4
        <4>5. CASE r \in offset..(offset + j - 1)
          <5>1. minFrom <= from[r] /\ to[r] <= maxTo
            BY <1>2, <4>5 DEF ScanRow, ScanBounds
          <5>2. QED
            BY <5>1, <4>1, <4>3
        <4>6. QED
          BY <4>4, <4>5 DEF TypeOK
      <3>3. QED
        BY <1>2, <3>2 DEF ScanRow, ScanBounds, TypeOK
    <2>6. QED
      BY <2>3, <2>4, <2>5
  <1>3. CASE PushZone
    <2> DEFINE z == [offset |-> offset, len |-> len, min_from |-> minFrom, max_to |-> maxTo]
    <2>1. z \in Zone
      BY DEF Zone, TypeOK
    <2>2. zones' = Append(zones, z) /\ zones \in Seq(Zone)
      BY <1>3 DEF PushZone, TypeOK
    <2>3. /\ zones' \in Seq(Zone)
          /\ DOMAIN zones' = DOMAIN zones \cup {Len(zones) + 1}
          /\ \A k \in DOMAIN zones : zones'[k] = zones[k]
          /\ zones'[Len(zones) + 1] = z
      BY <2>1, <2>2
    <2>4. TypeOK'
      BY <1>3, <2>3 DEF PushZone, TypeOK
    <2>5. ZoneRows(z) = offset..(offset + len - 1)
      BY DEF ZoneRows
    <2>6. ZonesSound'
      <3>1. ASSUME NEW r \in 0..(offset' - 1)
            PROVE  \E k \in DOMAIN zones' : r \in ZoneRows(zones'[k])
        <4>1. CASE r < offset
          BY <4>1, <2>3 DEF ZonesSound, TypeOK
        <4>2. CASE r >= offset
          BY <4>2, <1>3, <2>3, <2>5 DEF PushZone, TypeOK
        <4>3. QED
          BY <4>1, <4>2 DEF TypeOK
      <3>2. ASSUME NEW k \in DOMAIN zones', NEW r \in ZoneRows(zones'[k])
            PROVE  /\ r \in 0..(offset' - 1)
                   /\ zones'[k].min_from <= from[r] /\ to[r] <= zones'[k].max_to
        <4>1. CASE k \in DOMAIN zones
          <5>1. zones'[k] = zones[k]
            BY <4>1, <2>3
          <5>2. /\ r \in 0..(offset - 1)
                /\ zones[k].min_from <= from[r] /\ to[r] <= zones[k].max_to
            BY <4>1, <5>1, <3>2 DEF ZonesSound
          <5>3. offset' = offset + len /\ offset \in Nat /\ len \in Nat
            BY <1>3 DEF PushZone, TypeOK
          <5>4. QED
            BY <5>1, <5>2, <5>3
        <4>2. CASE k = Len(zones) + 1
          BY <4>2, <3>2, <1>3, <2>3, <2>5 DEF PushZone, ScanBounds, TypeOK
        <4>3. QED
          BY <4>1, <4>2, <2>3
      <3>3. UNCHANGED <<from, to>>
        BY <1>3 DEF PushZone
      <3>4. QED
        BY <3>1, <3>2, <3>3 DEF ZonesSound, ZoneRows
    <2>7. ScanBounds' /\ MaskSoFar'
      BY <1>3 DEF PushZone, ScanBounds, MaskSoFar
    <2>8. QED
      BY <2>4, <2>6, <2>7
  <1>4. CASE StartMask
    BY <1>4 DEF StartMask, TypeOK, ZonesSound, ZoneRows, ScanBounds, MaskSoFar, Active
  <1>5. CASE MaskZone
    <2>1. j + 1 \in DOMAIN zones
      BY <1>5 DEF MaskZone, TypeOK
    <2>2. ZoneRows(zones[j + 1]) \subseteq 0..(n - 1)
      BY <2>1 DEF ZonesSound, TypeOK
    <2>3. \A r \in 0..(n - 1) :
             r \in mask' <=> r \in mask \/ (r \in ZoneRows(zones[j + 1]) /\ Active(r))
      BY <1>5, <2>1, SkipIsSafe DEF MaskZone
    <2>4. TypeOK' /\ ZonesSound' /\ ScanBounds'
      <3>1. mask' \subseteq 0..(n - 1)
        BY <1>5, <2>2 DEF MaskZone, TypeOK
      <3>2. TypeOK'
        BY <1>5, <3>1 DEF MaskZone, TypeOK
      <3>3. ZonesSound' /\ ScanBounds'
        BY <1>5 DEF MaskZone, ZonesSound, ZoneRows, ScanBounds
      <3>4. QED
        BY <3>2, <3>3
    <2>5. \A r \in 0..(n - 1) :
             r \in mask' <=> Active(r) /\ \E k \in 1..(j + 1) : r \in ZoneRows(zones[k])
      BY <1>5, <2>3 DEF MaskZone, MaskSoFar, TypeOK
    <2>6. MaskSoFar'
      BY <1>5, <2>1, <2>5 DEF MaskZone, MaskSoFar, Active, ZoneRows, TypeOK
    <2>7. QED
      BY <2>4, <2>6
  <1>6. CASE Finish
    BY <1>6 DEF Finish, TypeOK, ZonesSound, ZoneRows, ScanBounds, MaskSoFar, Active
  <1>7. CASE UNCHANGED vars
    BY <1>7 DEF vars, TypeOK, ZonesSound, ZoneRows, ScanBounds, MaskSoFar, Active
  <1>8. QED
    BY <1>1, <1>2, <1>3, <1>4, <1>5, <1>6, <1>7 DEF Next, Finished

\* build_zone_maps yields zones that tile the columns with sound bounds.
THEOREM ZonesAlwaysSound == Spec => []ZonesSound
  <1>1. IInv => ZonesSound
    BY DEF IInv
  <1>2. QED
    BY <1>1, InitIInv, StepIInv, PTL DEF Spec

\* temporal_mask_pruned returns what temporal_mask_full returns.
THEOREM PruningIsExact == Spec => []PrunedIsFull
  <1>1. ASSUME IInv, phase = "done" PROVE mask = FullMask
    <2>1. mask \subseteq 0..(n - 1) /\ offset = n /\ DOMAIN zones = 1..j
      BY <1>1 DEF IInv, TypeOK, MaskSoFar
    <2>2. \A r \in 0..(n - 1) : \E k \in 1..j : r \in ZoneRows(zones[k])
      BY <1>1, <2>1 DEF IInv, ZonesSound
    <2>3. \A r \in 0..(n - 1) : r \in mask <=> Active(r)
      BY <1>1, <2>2 DEF IInv, MaskSoFar
    <2> QED BY <2>1, <2>3 DEF FullMask
  <1>2. IInv => PrunedIsFull
    BY <1>1 DEF PrunedIsFull
  <1>3. QED
    BY <1>2, InitIInv, StepIInv, PTL DEF Spec

-------------------------------------------------------------------------------
(* Pattern matching.  The search visits the choices of rows in one order,     *)
(* edge by edge and each by its row; the invariant says which of them it is   *)
(* past, and that those are dealt with.                                       *)

\* The variables a pattern edge joins.
FromVar(e) == pattern.edges[e].from
ToVar(e)   == pattern.edges[e].to

\* The call's arguments.
Called == rows \in Graphs /\ pattern \in Patterns /\ limit \in Limits /\ single \in BOOLEAN

\* Row r stands for pattern edge e under the binding b.
Joins(b, r, e) ==
    /\ r \in DOMAIN rows /\ Live(r)
    /\ pattern.edges[e].type \in {"any", rows[r].type}
    /\ rows[r].src = b[FromVar(e)] /\ rows[r].dst = b[ToVar(e)] /\ rows[r].dst # Unbound

\* No two variables are bound to one node.
Distinct(b) == \A u, v \in Vars : b[u] = b[v] /\ b[u] # Unbound => u = v

\* The rows c match the first k edges from s, and b binds what they reach.
Matched(s, b, c, k) ==
    /\ b \in [Vars -> Nat] /\ b[0] = s
    /\ \A v \in Vars \ {0} : b[v] # Unbound <=> \E e \in 1..k : ToVar(e) = v
    /\ \A e \in 1..k : Joins(b, c[e], e)
    /\ Distinct(b)

\* Edge e ends in a variable that is bound before it.
EndsInBound(e) == ToVar(e) = 0 \/ \E f \in 1..(e - 1) : ToVar(f) = ToVar(e)

\* What the constructors of graphs and patterns see to.
LEMMA CallParts ==
    ASSUME Called
    PROVE  /\ EdgeCount \in Nat /\ 0 \in Vars /\ Vars \subseteq Nat
           /\ Len(rows) \in Nat /\ DOMAIN rows = 1..Len(rows)
           /\ \A r \in DOMAIN rows : rows[r].src \in CsrNodes /\ rows[r].dst \in Nat
           /\ \A e \in 1..EdgeCount :
                 /\ FromVar(e) \in Vars /\ ToVar(e) \in Vars
                 /\ FromVar(e) = 0 \/ \E f \in 1..(e - 1) : ToVar(f) = FromVar(e)
           /\ Unbound \in Nat /\ Unbound \notin CsrNodes /\ NodeCount \in Nat /\ limit \in Nat
<1> USE PatternAssumption
<1>1. /\ rows \in Seq([src : CsrNodes, dst : Nat, type : STRING, from : Int, to : Int])
      /\ pattern.num_vars \in Nat \ {0} /\ pattern.edges \in Seq([from : Nat, to : Nat, type : STRING])
  BY DEF Called
<1>2. \A e \in DOMAIN pattern.edges :
         /\ FromVar(e) < pattern.num_vars /\ ToVar(e) < pattern.num_vars
         /\ FromVar(e) = 0 \/ \E f \in 1..(e - 1) : ToVar(f) = FromVar(e)
  BY DEF Called, FromVar, ToVar
<1>3. EdgeCount \in Nat /\ DOMAIN pattern.edges = 1..EdgeCount
  BY <1>1 DEF EdgeCount
<1>4. \A e \in 1..EdgeCount : FromVar(e) \in Nat /\ ToVar(e) \in Nat
  <2>1. \A x \in [from : Nat, to : Nat, type : STRING] : x.from \in Nat /\ x.to \in Nat
    OBVIOUS
  <2> DEFINE R == [from : Nat, to : Nat, type : STRING]
  <2>2. pattern.edges \in Seq(R) /\ EdgeCount = Len(pattern.edges)
    BY <1>1 DEF EdgeCount
  <2> HIDE DEF R
  <2>3. \A e \in 1..EdgeCount : pattern.edges[e] \in R
    BY <2>2
  <2> QED BY <2>1, <2>3 DEF FromVar, ToVar, R
<1>5. \A r \in DOMAIN rows : rows[r].src \in CsrNodes /\ rows[r].dst \in Nat
  <2> DEFINE R == [src : CsrNodes, dst : Nat, type : STRING, from : Int, to : Int]
  <2>1. \A x \in R : x.src \in CsrNodes /\ x.dst \in Nat
    OBVIOUS
  <2>2. rows \in Seq(R)
    BY <1>1
  <2> HIDE DEF R
  <2>3. \A r \in DOMAIN rows : rows[r] \in R
    BY <2>2
  <2> QED BY <2>1, <2>3
<1>6. Len(rows) \in Nat /\ DOMAIN rows = 1..Len(rows)
  BY <1>1
<1>7. 0 \in Vars /\ Vars \subseteq Nat
  BY <1>1 DEF Vars
<1>8. \A e \in 1..EdgeCount : FromVar(e) \in Vars /\ ToVar(e) \in Vars
  <2> SUFFICES ASSUME NEW e \in 1..EdgeCount PROVE FromVar(e) \in Vars /\ ToVar(e) \in Vars
    OBVIOUS
  <2>1. FromVar(e) < pattern.num_vars /\ ToVar(e) < pattern.num_vars
    BY <1>2, <1>3
  <2> QED BY <1>1, <1>4, <2>1 DEF Vars
<1>9. Unbound \in Nat /\ Unbound \notin CsrNodes /\ NodeCount \in Nat /\ limit \in Nat
  BY DEF Called
<1> QED BY <1>2, <1>3, <1>5, <1>6, <1>7, <1>8, <1>9

\* An embedding, row by row.
LEMMA EmbeddingParts ==
    \A s, k : Embeddings(s, k) =
        {c \in [1..k -> DOMAIN rows] :
            (\A e \in 1..k : Joins(Binding(s, c), c[e], e)) /\ Distinct(Binding(s, c))}
<1> TAKE s, k
<1> DEFINE Ok(c) == LET b == Binding(s, c)
                    IN  /\ \A e \in 1..k :
                              /\ Live(c[e])
                              /\ pattern.edges[e].type \in {"any", rows[c[e]].type}
                              /\ rows[c[e]].src = b[pattern.edges[e].from]
                              /\ rows[c[e]].dst = b[pattern.edges[e].to]
                              /\ rows[c[e]].dst # Unbound
                        /\ \A u, v \in Vars : b[u] = b[v] /\ b[u] # Unbound => u = v
           Goal(c) == (\A e \in 1..k : Joins(Binding(s, c), c[e], e)) /\ Distinct(Binding(s, c))
<1>1. Embeddings(s, k) = {c \in [1..k -> DOMAIN rows] : Ok(c)}
  BY DEF Embeddings
<1>2. ASSUME NEW c \in [1..k -> DOMAIN rows] PROVE Ok(c) <=> Goal(c)
  <2> DEFINE b == Binding(s, c)
  <2>1. Ok(c) <=> /\ \A e \in 1..k :
                        /\ Live(c[e])
                        /\ pattern.edges[e].type \in {"any", rows[c[e]].type}
                        /\ rows[c[e]].src = b[pattern.edges[e].from]
                        /\ rows[c[e]].dst = b[pattern.edges[e].to]
                        /\ rows[c[e]].dst # Unbound
                  /\ \A u, v \in Vars : b[u] = b[v] /\ b[u] # Unbound => u = v
    OBVIOUS
  <2>2. Goal(c) <=> (\A e \in 1..k : Joins(b, c[e], e)) /\ Distinct(b)
    OBVIOUS
  <2> HIDE DEF b, Ok, Goal
  <2> QED BY <2>1, <2>2 DEF Joins, Distinct, FromVar, ToVar
<1> HIDE DEF Ok
<1> QED BY <1>1, <1>2

\* What a path has bound is bound to nodes that rows end in or begin in.
LEMMA MatchedBound ==
    ASSUME Called, NEW s, NEW b, NEW c, NEW k \in 0..EdgeCount, Matched(s, b, c, k)
    PROVE  /\ \A e \in 1..k : b[FromVar(e)] # Unbound /\ b[ToVar(e)] # Unbound
           /\ \A v \in Vars : b[v] # Unbound => v = 0 \/ \E e \in 1..k : ToVar(e) = v
<1>1. \A e \in 1..k : Joins(b, c[e], e)
  BY DEF Matched
<1>2. \A e \in 1..k : b[FromVar(e)] # Unbound /\ b[ToVar(e)] # Unbound
  BY <1>1, CallParts DEF Joins
<1> QED BY <1>2 DEF Matched

\* A matched path is an embedding, and its binding is the one of the definition.
LEMMA PathEmbeds ==
    ASSUME Called, NEW s, NEW b, NEW c, NEW k \in 0..EdgeCount, Matched(s, b, c, k)
    PROVE  /\ Binding(s, [e \in 1..k |-> c[e]]) = b
           /\ [e \in 1..k |-> c[e]] \in Embeddings(s, k)
<1> DEFINE d == [e \in 1..k |-> c[e]]
<1>1. \A e \in 1..k : d[e] = c[e] /\ Joins(b, c[e], e)
  BY DEF Matched
<1>2. ASSUME NEW v \in Vars PROVE Binding(s, d)[v] = b[v]
  <2> DEFINE into == {e \in DOMAIN d : pattern.edges[e].to = v}
  <2>1. Binding(s, d)[v] = IF v = 0 THEN s ELSE IF into = {} THEN Unbound
                           ELSE rows[d[CHOOSE e \in into : TRUE]].dst
    BY DEF Binding
  <2>2. CASE v = 0
    BY <2>1, <2>2 DEF Matched
  <2>3. CASE v # 0 /\ into = {}
    <3>1. ~\E e \in 1..k : ToVar(e) = v
      BY <2>3 DEF ToVar
    <3>2. b[v] = Unbound
      BY <2>3, <3>1 DEF Matched
    <3> QED BY <2>1, <2>3, <3>2
  <2>4. CASE v # 0 /\ into # {}
    <3> DEFINE e == CHOOSE e \in into : TRUE
    <3>1. e \in into
      BY <2>4
    <3>2. e \in 1..k /\ ToVar(e) = v
      BY <3>1 DEF ToVar
    <3> HIDE DEF e
    <3>3. rows[d[e]].dst = b[v]
      BY <1>1, <3>2 DEF Joins
    <3> QED BY <2>1, <2>4, <3>3 DEF e
  <2> QED BY <2>2, <2>3, <2>4
<1>3. Binding(s, d) = b
  <2>1. Binding(s, d) = [v \in Vars |-> Binding(s, d)[v]]
    BY DEF Binding
  <2>2. b = [v \in Vars |-> b[v]]
    BY DEF Matched
  <2> HIDE DEF d
  <2> QED BY <1>2, <2>1, <2>2
<1>4. d \in [1..k -> DOMAIN rows]
  BY <1>1 DEF Joins
<1>5. \A e \in 1..k : Joins(Binding(s, d), d[e], e)
  <2> HIDE DEF d
  <2> QED BY <1>1, <1>3
<1>6. Distinct(Binding(s, d))
  <2> HIDE DEF d
  <2> QED BY <1>3 DEF Matched
<1>7. d \in Embeddings(s, k)
  <2> HIDE DEF d
  <2> QED BY <1>4, <1>5, <1>6, EmbeddingParts
<1> QED BY <1>3, <1>7

\* An embedding that begins with a matched path binds what the path binds.
LEMMA Agrees ==
    ASSUME Called, NEW s, NEW b, NEW c, NEW k \in 0..EdgeCount, Matched(s, b, c, k),
           NEW l \in 0..EdgeCount, k <= l, NEW d \in Embeddings(s, l), \A f \in 1..k : d[f] = c[f]
    PROVE  \A v \in Vars : b[v] # Unbound => Binding(s, d)[v] = b[v]
<1> SUFFICES ASSUME NEW v \in Vars, b[v] # Unbound PROVE Binding(s, d)[v] = b[v]
  OBVIOUS
<1>1. CASE v = 0
  BY <1>1 DEF Binding, Matched
<1>2. CASE v # 0
  <2>1. PICK e \in 1..k : ToVar(e) = v
    BY <1>2 DEF Matched
  <2>2. e \in 1..l
    BY <2>1, CallParts
  <2>3. rows[d[e]].dst = Binding(s, d)[v]
    BY <2>1, <2>2, EmbeddingParts DEF Joins
  <2>4. rows[d[e]].dst = b[v]
    BY <2>1 DEF Matched, Joins
  <2> QED BY <2>3, <2>4
<1> QED BY <1>1, <1>2

\* What the loop asks of a row for edge e.
Fit(b, r, e) ==
    /\ pattern.edges[e].type \in {"any", rows[r].type}
    /\ IF b[ToVar(e)] # Unbound THEN rows[r].dst = b[ToVar(e)] ELSE \A v \in Vars : b[v] # rows[r].dst

\* The next row of an embedding that begins with a matched path is one the loop
\* comes to and takes.
LEMMA NextRow ==
    ASSUME Called, NEW s, NEW b, NEW c, NEW k \in 0..EdgeCount, Matched(s, b, c, k),
           NEW l \in 0..EdgeCount, k < l, NEW d \in Embeddings(s, l), \A f \in 1..k : d[f] = c[f],
           b[FromVar(k + 1)] # Unbound
    PROVE  /\ d[k + 1] \in Neighbors(b[FromVar(k + 1)])
           /\ Fit(b, d[k + 1], k + 1)
<1> DEFINE e == k + 1
           r == d[e]
           bd == Binding(s, d)
<1>0. EdgeCount \in Nat
  BY CallParts
<1>1. e \in 1..EdgeCount /\ e \in 1..l
  BY <1>0
<1>2. Joins(bd, r, e) /\ Distinct(bd)
  BY <1>1, EmbeddingParts
<1>3. \A v \in Vars : b[v] # Unbound => bd[v] = b[v]
  BY <1>0, Agrees
<1>4. FromVar(e) \in Vars /\ ToVar(e) \in Vars
  BY <1>1, CallParts
<1> HIDE DEF bd, r
<1>5. r \in Neighbors(b[FromVar(e)])
  BY <1>2, <1>3, <1>4 DEF Joins, Neighbors
<1>6. pattern.edges[e].type \in {"any", rows[r].type}
  BY <1>2 DEF Joins
<1>7. CASE b[ToVar(e)] # Unbound
  BY <1>2, <1>3, <1>4, <1>5, <1>6, <1>7 DEF Joins, Fit, r
<1>8. CASE b[ToVar(e)] = Unbound
  <2>1. ASSUME NEW v \in Vars, b[v] = rows[r].dst PROVE FALSE
    <3>1. b[v] # Unbound /\ bd[v] = bd[ToVar(e)]
      BY <1>2, <1>3, <2>1 DEF Joins
    <3>2. v = ToVar(e)
      BY <1>2, <1>3, <1>4, <3>1 DEF Distinct
    <3> QED BY <1>8, <3>1, <3>2
  <2> QED BY <1>5, <1>6, <1>8, <2>1 DEF Fit, r
<1> QED BY <1>7, <1>8

\* Taking a row that fits extends the path by one edge.
LEMMA TakeExtends ==
    ASSUME Called, NEW s, NEW b, NEW c \in [1..EdgeCount -> Nat], NEW k \in 0..EdgeCount,
           Matched(s, b, c, k), s # Unbound, NEW e \in 1..EdgeCount, e = k + 1,
           NEW r \in Neighbors(b[FromVar(e)]), Fit(b, r, e)
    PROVE  Matched(s, [b EXCEPT ![ToVar(e)] = rows[r].dst], [c EXCEPT ![e] = r], e)
<1> DEFINE nb == [b EXCEPT ![ToVar(e)] = rows[r].dst]
           nc == [c EXCEPT ![e] = r]
<1>0. /\ FromVar(e) \in Vars /\ ToVar(e) \in Vars /\ 0 \in Vars /\ EdgeCount \in Nat
      /\ \A f \in 1..EdgeCount : FromVar(f) \in Vars /\ ToVar(f) \in Vars
  BY CallParts
<1>1. b \in [Vars -> Nat] /\ b[0] = s /\ Distinct(b) /\ \A f \in 1..k : Joins(b, c[f], f)
  BY DEF Matched
<1>2. r \in DOMAIN rows /\ Live(r) /\ rows[r].src = b[FromVar(e)] /\ rows[r].src # Unbound /\ rows[r].dst \in Nat
  BY CallParts DEF Neighbors
<1>3. rows[r].dst # Unbound
  BY <1>0 DEF Fit
<1>4. nb \in [Vars -> Nat] /\ nb[ToVar(e)] = rows[r].dst /\ \A v \in Vars : v # ToVar(e) => nb[v] = b[v]
  BY <1>0, <1>1, <1>2
<1>5. nc[e] = r /\ \A f \in 1..k : nc[f] = c[f] /\ f \in 1..EdgeCount
  BY <1>0
<1> HIDE DEF nb, nc
<1>6. \A v \in Vars : b[v] # Unbound => nb[v] = b[v]
  BY <1>4 DEF Fit
<1>7. nb[0] = s
  BY <1>0, <1>1, <1>6
<1>8. ASSUME NEW v \in Vars \ {0} PROVE nb[v] # Unbound <=> \E f \in 1..e : ToVar(f) = v
  <2>1. CASE v = ToVar(e)
    BY <1>3, <1>4, <2>1
  <2>2. CASE v # ToVar(e)
    <3>1. b[v] # Unbound <=> \E f \in 1..k : ToVar(f) = v
      BY DEF Matched
    <3>2. \A f \in 1..e : f = e \/ f \in 1..k
      OBVIOUS
    <3>3. \A f \in 1..k : f \in 1..e
      OBVIOUS
    <3> QED BY <1>4, <2>2, <3>1, <3>2, <3>3
  <2> QED BY <2>1, <2>2
<1>9. ASSUME NEW f \in 1..e PROVE Joins(nb, nc[f], f)
  <2>1. CASE f = e
    BY <1>0, <1>2, <1>3, <1>4, <1>5, <1>6, <2>1 DEF Joins, Fit
  <2>2. CASE f # e
    <3>1. f \in 1..k
      BY <2>2
    <3>2. b[FromVar(f)] # Unbound /\ b[ToVar(f)] # Unbound
      BY <3>1, MatchedBound
    <3>3. nb[FromVar(f)] = b[FromVar(f)] /\ nb[ToVar(f)] = b[ToVar(f)]
      BY <1>0, <1>5, <1>6, <3>1, <3>2
    <3> QED BY <1>1, <1>5, <3>1, <3>3 DEF Joins
  <2> QED BY <2>1, <2>2
<1>10. Distinct(nb)
  <2> SUFFICES ASSUME NEW u \in Vars, NEW v \in Vars, nb[u] = nb[v], nb[u] # Unbound PROVE u = v
    BY DEF Distinct
  <2>1. CASE b[ToVar(e)] # Unbound
    <3>1. nb[u] = b[u] /\ nb[v] = b[v]
      BY <1>0, <1>4, <1>6, <2>1
    <3> QED BY <1>1, <3>1 DEF Distinct
  <2>2. CASE b[ToVar(e)] = Unbound
    <3>1. \A w \in Vars : b[w] # rows[r].dst
      BY <2>2 DEF Fit
    <3>2. CASE u # ToVar(e) /\ v # ToVar(e)
      BY <1>1, <1>4, <3>2 DEF Distinct
    <3> QED BY <1>4, <3>1, <3>2
  <2> QED BY <2>1, <2>2
<1>11. Matched(s, nb, nc, e)
  BY <1>4, <1>7, <1>8, <1>9, <1>10 DEF Matched
<1> QED BY <1>11 DEF nb, nc

\* Returning to the loop of edge e unbinds what it had bound.
LEMMA LeaveShortens ==
    ASSUME Called, NEW s, NEW b, NEW c, NEW e \in 1..EdgeCount, Matched(s, b, c, e),
           NEW nb, nb = IF EndsInBound(e) THEN b ELSE [b EXCEPT ![ToVar(e)] = Unbound]
    PROVE  Matched(s, nb, c, e - 1) /\ nb[FromVar(e)] = b[FromVar(e)]
<1>0. /\ EdgeCount \in Nat /\ 0 \in Vars /\ Unbound \in Nat
      /\ \A f \in 1..EdgeCount :
            /\ FromVar(f) \in Vars /\ ToVar(f) \in Vars
            /\ FromVar(f) = 0 \/ \E g \in 1..(f - 1) : ToVar(g) = FromVar(f)
  BY CallParts
<1>1. b \in [Vars -> Nat] /\ b[0] = s /\ Distinct(b) /\ \A f \in 1..e : Joins(b, c[f], f)
  BY DEF Matched
<1>2. \A f \in 1..(e - 1) : f \in 1..e /\ f \in 1..EdgeCount /\ f - 1 <= e - 1
  BY <1>0
<1>3. CASE EndsInBound(e)
  <2>1. nb = b
    BY <1>3
  <2>2. ASSUME NEW v \in Vars \ {0} PROVE b[v] # Unbound <=> \E f \in 1..(e - 1) : ToVar(f) = v
    <3>1. b[v] # Unbound <=> \E f \in 1..e : ToVar(f) = v
      BY DEF Matched
    <3>2. ASSUME NEW f \in 1..e, ToVar(f) = v PROVE \E g \in 1..(e - 1) : ToVar(g) = v
      <4>1. CASE f = e
        BY <1>3, <3>2, <4>1 DEF EndsInBound
      <4>2. CASE f # e
        <5>1. f \in 1..(e - 1)
          BY <1>0, <4>2
        <5> QED BY <3>2, <5>1
      <4> QED BY <4>1, <4>2
    <3> QED BY <1>2, <3>1, <3>2
  <2>3. Matched(s, b, c, e - 1)
    BY <1>1, <1>2, <2>2 DEF Matched
  <2> QED BY <2>1, <2>3
<1>4. CASE ~EndsInBound(e)
  <2>1. nb = [b EXCEPT ![ToVar(e)] = Unbound]
    BY <1>4
  <2>2. ToVar(e) # 0 /\ \A f \in 1..(e - 1) : ToVar(f) # ToVar(e)
    BY <1>4 DEF EndsInBound
  <2>3. nb \in [Vars -> Nat] /\ nb[ToVar(e)] = Unbound /\ \A v \in Vars : v # ToVar(e) => nb[v] = b[v]
    BY <1>0, <1>1, <2>1
  <2>4. ASSUME NEW f \in 1..e PROVE FromVar(f) # ToVar(e)
    <3>1. f \in 1..EdgeCount /\ \A g \in 1..(f - 1) : g \in 1..(e - 1)
      BY <1>0
    <3> QED BY <1>0, <2>2, <3>1
  <2>5. nb[FromVar(e)] = b[FromVar(e)]
    BY <1>0, <2>3, <2>4
  <2>6. \A f \in 1..(e - 1) : Joins(nb, c[f], f)
    BY <1>0, <1>1, <1>2, <2>2, <2>3, <2>4 DEF Joins
  <2>7. ASSUME NEW v \in Vars \ {0} PROVE nb[v] # Unbound <=> \E f \in 1..(e - 1) : ToVar(f) = v
    <3>1. b[v] # Unbound <=> \E f \in 1..e : ToVar(f) = v
      BY DEF Matched
    <3>2. \A f \in 1..e : f = e \/ f \in 1..(e - 1)
      BY <1>0
    <3> QED BY <1>2, <2>2, <2>3, <3>1, <3>2
  <2>8. Distinct(nb)
    BY <1>1, <2>3 DEF Distinct
  <2>9. Matched(s, nb, c, e - 1)
    BY <1>0, <1>1, <2>2, <2>3, <2>6, <2>7, <2>8 DEF Matched
  <2> QED BY <2>5, <2>9
<1> QED BY <1>3, <1>4

--------------------------------------------------------------------------------
Searching == pc \in {"enter", "loop"}

\* The edges whose loops are open.
Open(e) == e < ei \/ (e = ei /\ pc = "loop")

\* The recursion: the rows chosen so far match the edges before ei, and each open
\* loop is at the row it chose and knows whether it had to bind its variable.
OnPath ==
    Searching =>
        /\ Matched(start, nodes, row, ei - 1)
        /\ \A e \in 1..(ei - 1) : pos[e] = row[e]
        /\ \A e \in 1..EdgeCount : Open(e) => (bound[e] <=> EndsInBound(e))
        /\ pc = "loop" => ei <= EdgeCount /\ nodes[FromVar(ei)] \in CsrNodes

\* find has got as far as its start, and ends early only at its limit.
Starting ==
    ~single => /\ start <= NodeCount /\ (Searching => start < NodeCount)
               /\ pc = "done" /\ Len(matches) < limit => start = NodeCount

Ordered(d)    == \A o \in pattern.orders : rows[d[o[1]]].from < rows[d[o[2]]].from
MatchOf(s, d) == [nodes |-> Binding(s, d), rows |-> d]

\* The search is past the choice d from s: s is done with, or d comes before the
\* current path, edge by edge and each by its row.
Passed(s, d) ==
    \/ s < start
    \/ single /\ pc = "done"
    \/ /\ s = start /\ Searching
       /\ \E e \in DOMAIN d :
             /\ e <= ei /\ \A f \in 1..(e - 1) : d[f] = row[f]
             /\ \/ e < ei /\ d[e] < row[e]
                \/ e = ei /\ pc = "loop" /\ d[e] <= pos[e]

\* An embedding of the first k edges has been dealt with: if it is complete and in
\* order, it is in matches, if not, it does not lead outside.
Handled(s, d, k) ==
    /\ k < EdgeCount => Binding(s, d)[FromVar(k + 1)] \in CsrNodes \cup {Unbound}
    /\ k = EdgeCount /\ Ordered(d) => \E i \in DOMAIN matches : matches[i] = MatchOf(s, d)

\* Until the limit is reached, nothing the search is past is missing.
Complete ==
    pc # "failed" /\ Len(matches) < limit =>
        \A s \in Tried : \A k \in 0..EdgeCount : \A d \in Embeddings(s, k) :
            Passed(s, d) => Handled(s, d, k)

\* The matches are matches, of what the search is past, and each is there once.
Sound ==
    /\ matches \in Seq(Found)
    /\ \A g, h \in DOMAIN matches : matches[g] = matches[h] => g = h
    /\ pc # "failed" =>
          \A i \in DOMAIN matches : \A s \in Tried : \A d \in [1..EdgeCount -> DOMAIN rows] :
              matches[i] = MatchOf(s, d) => Passed(s, d)

\* A call that has failed has met a matching that leads outside.
Outside == pc = "failed" => \E s \in Tried : LeadsOutside(s)

\* The variables have their types, and the graph is one that can be handed over.
Typed == rows \in Graphs /\ SearchTypeOK

PInv == Typed /\ OnPath /\ Starting /\ Complete /\ Sound /\ Outside

\* The types include the arguments'.
LEMMA InvCalled == Typed => Called
BY DEF Typed, SearchTypeOK, Called

\* The call's arguments stay, and all that is defined from them.
LEMMA SameCall ==
    ASSUME UNCHANGED call
    PROVE  /\ EdgeCount' = EdgeCount /\ Vars' = Vars
           /\ \A e : FromVar(e)' = FromVar(e) /\ ToVar(e)' = ToVar(e) /\ EndsInBound(e)' = EndsInBound(e)
           /\ \A s, d : Binding(s, d)' = Binding(s, d) /\ MatchOf(s, d)' = MatchOf(s, d)
           /\ \A s, k : Embeddings(s, k)' = Embeddings(s, k)
           /\ \A s : LeadsOutside(s)' = LeadsOutside(s)
           /\ \A d : Ordered(d)' = Ordered(d)
           /\ UNCHANGED <<rows, pattern, limit, single>>
<1>1. UNCHANGED <<rows, pattern, limit, single>>
  BY DEF call
<1>2. EdgeCount' = EdgeCount /\ Vars' = Vars
  BY <1>1 DEF EdgeCount, Vars
<1>3. \A e : FromVar(e)' = FromVar(e) /\ ToVar(e)' = ToVar(e) /\ EndsInBound(e)' = EndsInBound(e)
  BY <1>1 DEF FromVar, ToVar, EndsInBound
<1>4. \A s, d : Binding(s, d)' = Binding(s, d)
  BY <1>1, <1>2 DEF Binding
<1>5. \A s, d : MatchOf(s, d)' = MatchOf(s, d)
  BY <1>4 DEF MatchOf
<1>6. \A s, k : Embeddings(s, k)' = Embeddings(s, k)
  BY <1>1, <1>2, <1>4 DEF Embeddings, Live
<1>7. \A s : LeadsOutside(s)' = LeadsOutside(s)
  BY <1>1, <1>2, <1>4, <1>6 DEF LeadsOutside
<1>8. \A d : Ordered(d)' = Ordered(d)
  BY <1>1 DEF Ordered
<1> QED BY <1>1, <1>2, <1>3, <1>4, <1>5, <1>6, <1>7, <1>8

\* A path of the next state.
LEMMA MatchedNext ==
    ASSUME UNCHANGED call, Matched(start', nodes', row', ei' - 1)
    PROVE  Matched(start, nodes, row, ei - 1)'
<1>1. rows' = rows /\ pattern' = pattern /\ Vars' = Vars
  BY SameCall
<1> QED BY <1>1 DEF Matched, Joins, Distinct, FromVar, ToVar, Live

\* The starts that are tried stay, and so do the matches there are.
LEMMA SameTried ==
    ASSUME UNCHANGED call, single => UNCHANGED start
    PROVE  Tried' = Tried /\ Found' = Found
<1>1. Tried' = Tried
  BY SameCall DEF Tried
<1>2. /\ UNCHANGED <<rows, pattern>> /\ EdgeCount' = EdgeCount
      /\ \A s, d : Binding(s, d)' = Binding(s, d)
      /\ \A s, k : Embeddings(s, k)' = Embeddings(s, k)
  BY SameCall
<1>3. Found' = Found
  BY <1>1, <1>2 DEF Found
<1> QED BY <1>1, <1>3

\* The matches by the definition.
LEMMA FoundIs ==
    \A x : x \in Found <=> \E s \in Tried : \E d \in Embeddings(s, EdgeCount) : Ordered(d) /\ x = MatchOf(s, d)
BY DEF Found, Ordered, MatchOf

\* Types, spelled out.
LEMMA Types ==
    ASSUME Typed
    PROVE  /\ Called /\ EdgeCount \in Nat /\ Len(rows) \in Nat /\ DOMAIN rows = 1..Len(rows)
           /\ limit \in Nat /\ NodeCount \in Nat
           /\ ei \in Nat /\ 1 <= ei /\ ei <= EdgeCount + 1 /\ start \in Nat
           /\ nodes \in [Vars -> Nat] /\ row \in [1..EdgeCount -> 0..Len(rows)]
           /\ pos \in [1..EdgeCount -> 0..Len(rows)] /\ bound \in [1..EdgeCount -> BOOLEAN]
           /\ pc \in {"start", "enter", "loop", "done", "failed"}
           /\ Tried \subseteq Nat /\ (single => Tried = {start}) /\ (~single => Tried = CsrNodes)
           /\ row \in [1..EdgeCount -> Nat]
<1>1. Called
  BY InvCalled
<1>2. EdgeCount \in Nat /\ Len(rows) \in Nat /\ DOMAIN rows = 1..Len(rows) /\ limit \in Nat /\ NodeCount \in Nat
  BY <1>1, CallParts
<1>3. ei \in Nat /\ 1 <= ei /\ ei <= EdgeCount + 1
  BY <1>2 DEF Typed, SearchTypeOK
<1>4. CsrNodes \subseteq Nat
  BY <1>2 DEF CsrNodes
<1>5. Tried \subseteq Nat /\ (single => Tried = {start}) /\ (~single => Tried = CsrNodes)
  BY <1>4 DEF Tried, Typed, SearchTypeOK
<1>6. row \in [1..EdgeCount -> Nat]
  BY <1>2 DEF Typed, SearchTypeOK
<1> QED BY <1>1, <1>2, <1>3, <1>5, <1>6 DEF Typed, SearchTypeOK

\* What is handled stays handled; so a step has to deal with what it passes.
LEMMA CompleteStep ==
    ASSUME Typed, Complete, Sound, UNCHANGED call, single => UNCHANGED start, pc # "failed",
           matches' = matches \/ \E x : matches' = Append(matches, x),
           \A s \in Tried : \A k \in 0..EdgeCount : \A d \in Embeddings(s, k) :
               Len(matches') < limit /\ Passed(s, d)' => Passed(s, d) \/ Handled(s, d, k)'
    PROVE  Complete'
<1>0. /\ Tried' = Tried /\ EdgeCount' = EdgeCount /\ limit' = limit
      /\ \A s, k : Embeddings(s, k)' = Embeddings(s, k)
  BY SameTried, SameCall
<1>1. /\ Len(matches) \in Nat /\ Len(matches) <= Len(matches') /\ Len(matches') \in Nat /\ limit \in Nat
      /\ \A i \in DOMAIN matches : i \in DOMAIN matches' /\ matches'[i] = matches[i]
  <2>1. matches \in Seq(Found) /\ limit \in Nat
    BY Types DEF Sound
  <2>2. CASE matches' = matches
    BY <2>1, <2>2
  <2>3. CASE \E x : matches' = Append(matches, x)
    <3>1. PICK x : matches' = Append(matches, x)
      BY <2>3
    <3>2. matches \in Seq(Found \cup {x}) /\ x \in Found \cup {x}
      BY <2>1
    <3> DEFINE S == Found \cup {x}
    <3> HIDE DEF S
    <3>3. matches \in Seq(S) /\ x \in S
      BY <3>2 DEF S
    <3> QED BY <2>1, <3>1, <3>3
  <2> QED BY <2>2, <2>3
<1>2. ASSUME NEW s, NEW d, NEW k, Handled(s, d, k) PROVE Handled(s, d, k)'
  <2>1. /\ FromVar(k + 1)' = FromVar(k + 1) /\ Binding(s, d)' = Binding(s, d)
        /\ Ordered(d)' = Ordered(d) /\ MatchOf(s, d)' = MatchOf(s, d)
    BY SameCall
  <2> QED BY <1>0, <1>1, <1>2, <2>1 DEF Handled
<1>3. SUFFICES ASSUME Len(matches') < limit, NEW s \in Tried, NEW k \in 0..EdgeCount,
                      NEW d \in Embeddings(s, k), Passed(s, d)'
               PROVE  Handled(s, d, k)'
  BY <1>0 DEF Complete
<1>4. CASE Passed(s, d)
  <2>1. Len(matches) < limit
    BY <1>1, <1>3
  <2>2. Handled(s, d, k)
    BY <1>4, <2>1 DEF Complete
  <2> QED BY <1>2, <2>2
<1> QED BY <1>3, <1>4

\* A step that adds no match and goes back over nothing.
LEMMA SoundStep ==
    ASSUME Typed, Sound, UNCHANGED call, single => UNCHANGED start, UNCHANGED matches,
           pc # "failed",
           pc' # "failed" => \A s \in Tried : \A d \in [1..EdgeCount -> DOMAIN rows] :
                                Passed(s, d) => Passed(s, d)'
    PROVE  Sound'
<1>0. /\ Tried' = Tried /\ Found' = Found /\ EdgeCount' = EdgeCount /\ rows' = rows
      /\ \A s, d : MatchOf(s, d)' = MatchOf(s, d)
  BY SameTried, SameCall
<1>1. matches' \in Seq(Found') /\ \A g, h \in DOMAIN matches' : matches'[g] = matches'[h] => g = h
  BY <1>0 DEF Sound
<1>2. pc' # "failed" =>
          \A i \in DOMAIN matches' : \A s \in Tried : \A d \in [1..EdgeCount -> DOMAIN rows] :
              matches'[i] = MatchOf(s, d) => Passed(s, d)'
  BY DEF Sound
<1> QED BY <1>0, <1>1, <1>2 DEF Sound

\* dfs returns: the search goes back to the loop that called it, or to the next
\* start, and is past all that begins with the current path.
LEMMA LeaveBack ==
    ASSUME PInv, Searching, Leave
    PROVE  /\ UNCHANGED <<call, row, pos, bound>> /\ (single => UNCHANGED start)
           /\ start' \in Nat /\ nodes' \in [Vars -> Nat] /\ ei' \in 1..(EdgeCount + 1)
           /\ pc' \in {"start", "loop", "done"}
           /\ OnPath' /\ Starting'
           /\ \A s \in Tried : \A k \in 0..EdgeCount : \A d \in [1..k -> DOMAIN rows] :
                 /\ Passed(s, d) => Passed(s, d)'
                 /\ Passed(s, d)' => \/ Passed(s, d)
                                     \/ s = start /\ ei - 1 <= k /\ \A f \in 1..(ei - 1) : d[f] = row[f]
           /\ \A s \in Tried : s = start /\ ei = 1 => \A d : Passed(s, d)'
           /\ ei > 1 => pc' = "loop" /\ start' = start /\ ei' = ei - 1
<1>0. /\ Typed /\ OnPath /\ Starting
      /\ Matched(start, nodes, row, ei - 1)
      /\ \A e \in 1..(ei - 1) : pos[e] = row[e]
      /\ \A e \in 1..EdgeCount : Open(e) => (bound[e] <=> EndsInBound(e))
  BY DEF PInv, OnPath
<1>1. /\ Called /\ EdgeCount \in Nat /\ ei \in Nat /\ 1 <= ei /\ ei <= EdgeCount + 1 /\ start \in Nat
      /\ Tried \subseteq Nat /\ (single => Tried = {start}) /\ nodes \in [Vars -> Nat]
      /\ NodeCount \in Nat /\ Len(rows) \in Nat /\ DOMAIN rows = 1..Len(rows)
      /\ row \in [1..EdgeCount -> 0..Len(rows)]
  BY <1>0, Types
<1>2. UNCHANGED call /\ UNCHANGED <<rows, pattern, limit, single, row, pos, bound>>
  BY DEF Leave, call
<1>3. CASE ei = 1
  <2>1. /\ ei' = 1 /\ nodes' = nodes /\ pc' = (IF single THEN "done" ELSE "start")
        /\ start' = (IF single THEN start ELSE start + 1)
    BY <1>3 DEF Leave
  <2>2. OnPath'
    BY <2>1 DEF OnPath, Searching
  <2>3. Starting'
    BY <1>0, <1>1, <1>2, <2>1 DEF Starting, Searching
  <2>4. ASSUME NEW s \in Tried, NEW d PROVE Passed(s, d)' <=> s < start \/ s = start
    <3>1. CASE single
      BY <1>1, <1>2, <2>1, <3>1 DEF Passed
    <3>2. CASE ~single
      BY <1>1, <1>2, <2>1, <3>2 DEF Passed, Searching
    <3> QED BY <3>1, <3>2
  <2>5. ASSUME NEW s \in Tried, NEW k \in 0..EdgeCount, NEW d \in [1..k -> DOMAIN rows]
        PROVE  /\ Passed(s, d) => Passed(s, d)'
               /\ Passed(s, d)' => \/ Passed(s, d)
                                   \/ s = start /\ ei - 1 <= k /\ \A f \in 1..(ei - 1) : d[f] = row[f]
    <3>1. Passed(s, d) => s < start \/ s = start
      BY <1>1 DEF Passed, Searching
    <3>2. s < start => Passed(s, d)
      BY DEF Passed
    <3>3. ei - 1 <= k /\ \A f \in 1..(ei - 1) : d[f] = row[f]
      BY <1>3
    <3> QED BY <2>4, <3>1, <3>2, <3>3
  <2>6. start' \in Nat /\ pc' \in {"start", "loop", "done"} /\ ei' \in 1..(EdgeCount + 1)
    BY <1>1, <2>1
  <2>7. \A s \in Tried : s = start /\ ei = 1 => \A d : Passed(s, d)'
    BY <2>4
  <2>8. (single => UNCHANGED start) /\ nodes' \in [Vars -> Nat] /\ ~(ei > 1)
    BY <1>1, <1>3, <2>1
  <2> QED BY <1>2, <2>2, <2>3, <2>5, <2>6, <2>7, <2>8
<1>4. CASE ei # 1
  <2> DEFINE e == ei - 1
             nb == IF EndsInBound(e) THEN nodes ELSE [nodes EXCEPT ![ToVar(e)] = Unbound]
  <2>0. e \in 1..EdgeCount /\ e < ei /\ ei > 1 /\ e \in 1..(ei - 1)
    BY <1>1, <1>4
  <2>1. ei' = e /\ pc' = "loop" /\ start' = start
    BY <1>4, <2>0 DEF Leave
  <2>2. bound[e] <=> EndsInBound(e)
    BY <1>0, <2>0 DEF Open
  <2>3. nodes' = nb
    BY <1>4, <2>2 DEF Leave, ToVar
  <2>4. Matched(start, nb, row, e - 1) /\ nb[FromVar(e)] = nodes[FromVar(e)]
    <3>1. Called /\ Matched(start, nodes, row, e)
      BY <1>0, <1>1
    <3> HIDE DEF e
    <3> QED BY <2>0, <3>1, LeaveShortens
  <2> HIDE DEF nb
  <2>5. Matched(start', nodes', row', ei' - 1)
    BY <1>2, <2>1, <2>3, <2>4
  <2>6. Matched(start, nodes, row, ei - 1)'
    BY <1>2, <2>5, MatchedNext
  <2>7. nodes'[FromVar(e)] \in CsrNodes
    <3>1. Joins(nodes, row[e], e)
      BY <1>0, <2>0 DEF Matched
    <3> QED BY <1>1, <2>3, <2>4, <3>1, CallParts DEF Joins
  <2>8. OnPath'
    <3>1. EdgeCount' = EdgeCount /\ FromVar(ei)' = FromVar(e) /\ \A f : EndsInBound(f)' = EndsInBound(f)
      <4>1. EdgeCount' = EdgeCount /\ \A f : EndsInBound(f)' = EndsInBound(f)
        BY <1>2, SameCall
      <4>2. FromVar(ei)' = FromVar(e)
        BY <1>2, <2>1 DEF FromVar
      <4> QED BY <4>1, <4>2
    <3>2. \A f \in 1..(ei' - 1) : pos'[f] = row'[f]
      <4>1. \A f \in 1..(ei' - 1) : f \in 1..(ei - 1)
        BY <1>1, <2>1
      <4> QED BY <1>0, <1>2, <4>1
    <3>3. \A f \in 1..EdgeCount : Open(f)' => (bound'[f] <=> EndsInBound(f)')
      <4>1. \A f \in 1..EdgeCount : Open(f)' => Open(f)
        BY <1>1, <2>1 DEF Open
      <4> QED BY <1>0, <1>2, <3>1, <4>1
    <3>4. ei' <= EdgeCount'
      BY <1>1, <2>1, <3>1
    <3> QED BY <2>6, <2>7, <3>1, <3>2, <3>3, <3>4 DEF OnPath
  <2>9. Starting'
    BY <1>0, <1>2, <2>1 DEF Starting, Searching
  <2>10. ASSUME NEW s \in Tried, NEW k \in 0..EdgeCount, NEW d \in [1..k -> DOMAIN rows]
         PROVE  /\ Passed(s, d) => Passed(s, d)'
                /\ Passed(s, d)' => \/ Passed(s, d)
                                    \/ s = start /\ ei - 1 <= k /\ \A f \in 1..(ei - 1) : d[f] = row[f]
    <3>0. /\ DOMAIN d = 1..k /\ \A f \in 1..k : d[f] \in Nat
          /\ row[e] \in Nat /\ pos[e] = row[e]
      BY <1>0, <1>1, <2>0
    <3>1. Passed(s, d)' <=> \/ s < start
                            \/ /\ s = start
                               /\ \E g \in 1..k : /\ g <= e /\ \A f \in 1..(g - 1) : d[f] = row[f]
                                                  /\ \/ g < e /\ d[g] < row[g]
                                                     \/ g = e /\ d[g] <= row[g]
      BY <1>2, <2>1, <3>0 DEF Passed, Searching
    <3>2. ASSUME Passed(s, d) PROVE Passed(s, d)'
      <4> DEFINE Comes(g) == /\ g <= ei /\ \A f \in 1..(g - 1) : d[f] = row[f]
                             /\ \/ g < ei /\ d[g] < row[g]
                                \/ g = ei /\ pc = "loop" /\ d[g] <= pos[g]
      <4>1. s < start \/ (s = start /\ \E g \in 1..k : Comes(g))
        BY <3>0, <3>2 DEF Passed, Searching
      <4>2. CASE s < start
        BY <3>1, <4>2
      <4>3. CASE ~(s < start)
        <5>1. PICK g \in 1..k : Comes(g)
          <6> HIDE DEF Comes
          <6> QED BY <4>1, <4>3
        <5>2. s = start /\ d[g] \in Nat /\ g \in Nat
          BY <3>0, <4>1, <4>3
        <5>3. CASE g < e
          BY <1>1, <3>1, <5>1, <5>2, <5>3
        <5>4. CASE g = e
          <6>1. d[g] < row[g]
            BY <1>1, <2>0, <5>1, <5>4
          <6>2. g <= e /\ d[g] <= row[g]
            BY <3>0, <5>2, <5>4, <6>1
          <6> QED BY <3>1, <5>1, <5>2, <5>4, <6>2
        <5>5. CASE g = ei
          <6>1. e \in 1..k /\ d[e] = row[e] /\ \A f \in 1..(e - 1) : d[f] = row[f]
            BY <1>1, <2>0, <5>1, <5>5
          <6>2. d[e] <= row[e] /\ e <= e
            BY <2>0, <3>0, <6>1
          <6> QED BY <3>1, <5>2, <6>1, <6>2
        <5> QED BY <1>1, <5>1, <5>3, <5>4, <5>5
      <4> QED BY <4>2, <4>3
    <3>3. ASSUME Passed(s, d)', ~(s = start /\ ei - 1 <= k /\ \A f \in 1..(ei - 1) : d[f] = row[f])
          PROVE  Passed(s, d)
      <4>1. CASE s < start
        BY <4>1 DEF Passed
      <4>2. CASE ~(s < start)
        <5>1. PICK g \in 1..k : /\ g <= e /\ \A f \in 1..(g - 1) : d[f] = row[f]
                                /\ \/ g < e /\ d[g] < row[g]
                                   \/ g = e /\ d[g] <= row[g]
          BY <3>1, <3>3, <4>2
        <5>2. s = start /\ d[g] \in Nat /\ g \in Nat
          BY <3>0, <3>1, <3>3, <4>2
        <5>3. d[g] < row[g]
          <6>1. CASE g = e /\ d[g] = row[g]
            <7>1. ei - 1 <= k /\ \A f \in 1..(ei - 1) : f = g \/ f \in 1..(g - 1)
              BY <1>1, <6>1
            <7> QED BY <3>3, <5>1, <5>2, <6>1, <7>1
          <6>2. CASE ~(g = e /\ d[g] = row[g])
            BY <3>0, <5>1, <5>2, <6>2
          <6> QED BY <6>1, <6>2
        <5>4. g <= ei /\ g < ei
          BY <1>1, <5>1, <5>2
        <5> QED BY <3>0, <5>1, <5>2, <5>3, <5>4 DEF Passed
      <4> QED BY <4>1, <4>2
    <3> QED BY <3>2, <3>3
  <2>11. nodes' \in [Vars -> Nat]
    BY <2>3, <2>4 DEF Matched
  <2>12. start' \in Nat /\ pc' \in {"start", "loop", "done"} /\ ei' \in 1..(EdgeCount + 1)
    BY <1>1, <2>0, <2>1
  <2> QED BY <1>1, <1>2, <1>4, <2>0, <2>1, <2>8, <2>9, <2>10, <2>11, <2>12
<1> QED BY <1>3, <1>4

\* The current path as a choice of rows.
LEMMA AtPath ==
    ASSUME PInv, Searching, NEW k \in 0..EdgeCount, k = ei - 1, NEW d \in [1..k -> DOMAIN rows],
           \A f \in 1..k : d[f] = row[f]
    PROVE  Binding(start, d) = nodes /\ d \in Embeddings(start, k)
<1>1. Called /\ Matched(start, nodes, row, k)
  BY InvCalled DEF PInv, OnPath
<1>2. d = [e \in 1..k |-> row[e]]
  OBVIOUS
<1> QED BY <1>1, <1>2, PathEmbeds

\* The types after a return.
LEMMA LeaveTypes ==
    ASSUME PInv, Searching, Leave, Len(matches') <= limit
    PROVE  Typed'
<1>1. /\ UNCHANGED <<call, row, pos, bound>> /\ start' \in Nat /\ nodes' \in [Vars -> Nat]
      /\ ei' \in 1..(EdgeCount + 1) /\ pc' \in {"start", "loop", "done"} /\ Typed
  BY LeaveBack DEF PInv
<1>2. EdgeCount' = EdgeCount /\ Vars' = Vars /\ UNCHANGED <<rows, pattern, limit, single>>
  BY <1>1, SameCall
<1> QED BY <1>1, <1>2 DEF Typed, SearchTypeOK

\* An early return misses nothing: nothing may be added, or nothing can be
\* matched from an unbound start.
LEMMA EnterReturnsKeeps == ASSUME PInv, EnterReturns PROVE PInv'
<1>0. /\ Typed /\ OnPath /\ Complete /\ Sound /\ Searching /\ pc # "failed" /\ Leave
      /\ UNCHANGED matches
  BY DEF PInv, EnterReturns, Searching
<1>1. /\ Called /\ EdgeCount \in Nat /\ ei \in Nat /\ 1 <= ei /\ ei <= EdgeCount + 1 /\ limit \in Nat
  BY <1>0, Types
<1>2. UNCHANGED call /\ (single => UNCHANGED start) /\ OnPath' /\ Starting' /\ pc' # "failed"
  BY <1>0, LeaveBack
<1>3. Len(matches') <= limit /\ Len(matches) \in Nat
  BY <1>0 DEF Typed, SearchTypeOK, Sound
<1>4. Typed'
  BY <1>0, <1>3, LeaveTypes
<1>5. Outside'
  BY <1>2 DEF Outside
<1>6. Complete'
  <2> SUFFICES ASSUME NEW s \in Tried, NEW k \in 0..EdgeCount, NEW d \in Embeddings(s, k),
                      Len(matches') < limit, Passed(s, d)', ~Passed(s, d)
               PROVE  Handled(s, d, k)'
    BY <1>0, <1>2, CompleteStep
  <2>1. d \in [1..k -> DOMAIN rows]
    BY EmbeddingParts
  <2>2. s = start /\ ei - 1 <= k /\ \A f \in 1..(ei - 1) : d[f] = row[f]
    BY <1>0, <2>1, LeaveBack
  <2>3. ei <= EdgeCount /\ nodes[FromVar(ei)] = Unbound
    BY <1>0, <1>1, <1>3 DEF EnterReturns, Pattern, FromVar
  <2>4. Matched(start, nodes, row, ei - 1) /\ ei - 1 \in 0..EdgeCount /\ ei \in 1..EdgeCount
    BY <1>0, <1>1, <2>3 DEF OnPath
  <2>5. FromVar(ei) = 0 /\ start = Unbound
    <3>1. \A e \in 1..(ei - 1) : nodes[ToVar(e)] # Unbound
      BY <1>1, <2>4, MatchedBound
    <3>2. FromVar(ei) = 0 \/ \E f \in 1..(ei - 1) : ToVar(f) = FromVar(ei)
      BY <1>1, <2>4, CallParts
    <3>3. FromVar(ei) = 0
      BY <2>3, <3>1, <3>2
    <3> QED BY <2>3, <2>4, <3>3 DEF Matched
  <2>6. ~(ei <= k)
    <3> SUFFICES ASSUME ei <= k PROVE FALSE
      OBVIOUS
    <3>1. ei \in 1..k
      BY <1>1
    <3>2. Joins(Binding(s, d), d[ei], ei)
      BY <3>1, EmbeddingParts
    <3>3. Binding(s, d)[0] = s
      BY <1>1, CallParts DEF Binding
    <3> QED BY <1>1, <2>2, <2>5, <3>2, <3>3, CallParts DEF Joins
  <2>7. k = ei - 1 /\ k < EdgeCount /\ k + 1 = ei
    BY <1>1, <2>2, <2>3, <2>6
  <2>8. Binding(s, d) = nodes
    BY <1>0, <2>1, <2>2, <2>7, AtPath
  <2>9. /\ Binding(s, d)' = Binding(s, d) /\ FromVar(k + 1)' = FromVar(k + 1) /\ EdgeCount' = EdgeCount
    BY <1>2, SameCall
  <2> QED BY <2>3, <2>7, <2>8, <2>9 DEF Handled
<1>7. Sound'
  <2>1. \A s \in Tried : \A d \in [1..EdgeCount -> DOMAIN rows] : Passed(s, d) => Passed(s, d)'
    BY <1>0, <1>1, LeaveBack
  <2> QED BY <1>0, <1>2, <2>1, SoundStep
<1> QED BY <1>2, <1>4, <1>5, <1>6, <1>7 DEF PInv

\* A loop that ends has come to every row an embedding could go on with.
LEMMA LoopEndsKeeps == ASSUME PInv, LoopEnds PROVE PInv'
<1>0. /\ Typed /\ OnPath /\ Complete /\ Sound /\ Searching /\ pc = "loop" /\ Leave
      /\ UNCHANGED matches /\ Ahead = {}
  BY DEF PInv, LoopEnds, Searching, LoopHas
<1>1. /\ Called /\ EdgeCount \in Nat /\ ei \in Nat /\ 1 <= ei /\ ei <= EdgeCount + 1 /\ limit \in Nat
      /\ Len(rows) \in Nat /\ DOMAIN rows = 1..Len(rows) /\ pos \in [1..EdgeCount -> 0..Len(rows)]
  BY <1>0, Types
<1>2. UNCHANGED call /\ (single => UNCHANGED start) /\ OnPath' /\ Starting' /\ pc' # "failed"
  BY <1>0, LeaveBack
<1>3. Len(matches') <= limit /\ Len(matches) \in Nat
  BY <1>0 DEF Typed, SearchTypeOK, Sound
<1>4. Typed'
  BY <1>0, <1>3, LeaveTypes
<1>5. Outside'
  BY <1>2 DEF Outside
<1>6. Complete'
  <2> SUFFICES ASSUME NEW s \in Tried, NEW k \in 0..EdgeCount, NEW d \in Embeddings(s, k),
                      Len(matches') < limit, Passed(s, d)', ~Passed(s, d)
               PROVE  Handled(s, d, k)'
    BY <1>0, <1>2, CompleteStep
  <2>1. d \in [1..k -> DOMAIN rows]
    BY EmbeddingParts
  <2>2. s = start /\ ei - 1 <= k /\ \A f \in 1..(ei - 1) : d[f] = row[f]
    BY <1>0, <2>1, LeaveBack
  <2>3. ei <= EdgeCount /\ nodes[FromVar(ei)] \in CsrNodes /\ nodes[FromVar(ei)] # Unbound
    BY <1>0, <1>1, CallParts DEF OnPath
  <2>4. Matched(start, nodes, row, ei - 1) /\ ei - 1 \in 0..EdgeCount /\ ei \in 1..EdgeCount
    BY <1>0, <1>1, <2>3 DEF OnPath
  <2>6. ~(ei <= k)
    <3> SUFFICES ASSUME ei <= k PROVE FALSE
      OBVIOUS
    <3>1. ei - 1 < k /\ ei - 1 + 1 = ei
      BY <1>1
    <3>2. d[ei] \in Neighbors(nodes[FromVar(ei)])
      <4> DEFINE m == ei - 1
      <4>1. /\ m \in 0..EdgeCount /\ m < k /\ Matched(start, nodes, row, m) /\ m + 1 = ei
            /\ \A f \in 1..m : d[f] = row[f]
        BY <2>2, <2>4, <3>1
      <4> HIDE DEF m
      <4> QED BY <1>1, <2>2, <2>3, <4>1, NextRow
    <3>3. ~(pos[ei] < d[ei])
      BY <1>0, <3>2 DEF Ahead, Pattern, FromVar
    <3>4. pos[ei] \in Nat /\ d[ei] \in Nat /\ ei \in 1..k
      BY <1>1, <2>1, <2>4
    <3>5. d[ei] <= pos[ei]
      BY <3>3, <3>4
    <3>6. Passed(s, d)
      BY <1>0, <1>1, <2>1, <2>2, <3>4, <3>5 DEF Passed
    <3> QED BY <3>6
  <2>7. k = ei - 1 /\ k < EdgeCount /\ k + 1 = ei
    BY <1>1, <2>2, <2>3, <2>6
  <2>8. Binding(s, d) = nodes
    BY <1>0, <2>1, <2>2, <2>7, AtPath
  <2>9. /\ Binding(s, d)' = Binding(s, d) /\ FromVar(k + 1)' = FromVar(k + 1) /\ EdgeCount' = EdgeCount
    BY <1>2, SameCall
  <2> QED BY <2>3, <2>7, <2>8, <2>9 DEF Handled
<1>7. Sound'
  <2>1. \A s \in Tried : \A d \in [1..EdgeCount -> DOMAIN rows] : Passed(s, d) => Passed(s, d)'
    BY <1>0, <1>1, LeaveBack
  <2> QED BY <1>0, <1>2, <2>1, SoundStep
<1> QED BY <1>2, <1>4, <1>5, <1>6, <1>7 DEF PInv

\* A complete path is recorded if its events are in order, and was not before.
LEMMA EnterCompleteKeeps == ASSUME PInv, EnterComplete PROVE PInv'
<1> DEFINE new == [nodes |-> nodes, rows |-> row]
<1>0. /\ Typed /\ OnPath /\ Starting /\ Complete /\ Sound /\ Searching /\ pc = "enter" /\ Leave
      /\ ei > EdgeCount /\ Len(matches) < limit
      /\ matches' = IF Ordered(row) THEN Append(matches, new) ELSE matches
  BY DEF PInv, EnterComplete, Searching, EventOrdersSatisfied, Ordered
<1>1. /\ Called /\ EdgeCount \in Nat /\ ei = EdgeCount + 1 /\ limit \in Nat
      /\ Len(rows) \in Nat /\ DOMAIN rows = 1..Len(rows) /\ start \in Nat
      /\ (single => Tried = {start}) /\ (~single => Tried = CsrNodes) /\ NodeCount \in Nat
  BY <1>0, Types
<1>2. UNCHANGED call /\ (single => UNCHANGED start) /\ OnPath' /\ Starting' /\ pc' # "failed"
  BY <1>0, LeaveBack
<1>3. row \in [1..EdgeCount -> DOMAIN rows]
  <2>1. \A e \in 1..EdgeCount : row[e] \in DOMAIN rows
    BY <1>0, <1>1 DEF OnPath, Matched, Joins
  <2>2. row = [e \in 1..EdgeCount |-> row[e]]
    BY <1>0, Types
  <2> QED BY <2>1, <2>2
<1>4. Binding(start, row) = nodes /\ row \in Embeddings(start, EdgeCount) /\ new = MatchOf(start, row)
  <2>1. EdgeCount \in 0..EdgeCount /\ EdgeCount = ei - 1
    BY <1>1
  <2>2. Binding(start, row) = nodes /\ row \in Embeddings(start, EdgeCount)
    BY <1>0, <1>3, <2>1, AtPath
  <2> QED BY <2>2 DEF MatchOf
<1>5. start \in Tried
  <2>1. CASE single
    BY <1>1, <2>1
  <2>2. CASE ~single
    BY <1>0, <1>1, <2>2 DEF Starting, CsrNodes
  <2> QED BY <2>1, <2>2
<1>6. Ordered(row) => new \in Found
  BY <1>4, <1>5, FoundIs
<1> HIDE DEF new
<1>7. /\ matches \in Seq(Found) /\ Len(matches) \in Nat /\ DOMAIN matches = 1..Len(matches)
      /\ matches' \in Seq(Found) /\ DOMAIN matches' = 1..Len(matches')
      /\ \A i \in DOMAIN matches : i \in DOMAIN matches' /\ matches'[i] = matches[i]
      /\ Ordered(row) => /\ DOMAIN matches' = DOMAIN matches \cup {Len(matches) + 1}
                         /\ Len(matches) + 1 \in DOMAIN matches' /\ matches'[Len(matches) + 1] = new
      /\ Len(matches') <= limit
  <2>1. matches \in Seq(Found)
    BY <1>0 DEF Sound
  <2>2. CASE Ordered(row)
    <3>1. matches' = Append(matches, new) /\ new \in Found
      BY <1>0, <1>6, <2>2
    <3> QED BY <1>0, <1>1, <2>1, <3>1
  <2>3. CASE ~Ordered(row)
    BY <1>0, <1>1, <2>1, <2>3
  <2> QED BY <2>2, <2>3
<1>8. Typed'
  BY <1>0, <1>7, LeaveTypes
<1>9. Outside'
  BY <1>2 DEF Outside
<1>10. Complete'
  <2> SUFFICES ASSUME NEW s \in Tried, NEW k \in 0..EdgeCount, NEW d \in Embeddings(s, k),
                      Passed(s, d)', ~Passed(s, d)
               PROVE  Handled(s, d, k)'
    <3>1. matches' = matches \/ \E x : matches' = Append(matches, x)
      BY <1>0
    <3>2. pc # "failed"
      BY <1>0
    <3> QED BY <1>0, <1>2, <3>1, <3>2, CompleteStep
  <2>1. d \in [1..k -> DOMAIN rows]
    BY EmbeddingParts
  <2>2. s = start /\ ei - 1 <= k /\ \A f \in 1..(ei - 1) : d[f] = row[f]
    BY <1>0, <2>1, LeaveBack
  <2>3. k = EdgeCount
    BY <1>1, <2>2
  <2>4. d = row
    BY <1>1, <1>3, <2>1, <2>2, <2>3
  <2>5. Ordered(d) => \E i \in DOMAIN matches' : matches'[i] = MatchOf(s, d)
    BY <1>4, <1>7, <2>2, <2>4
  <2>6. ~(k < EdgeCount)
    BY <1>1, <2>3
  <2>7. EdgeCount' = EdgeCount /\ Ordered(d)' = Ordered(d) /\ MatchOf(s, d)' = MatchOf(s, d)
    BY <1>2, SameCall
  <2> QED BY <2>5, <2>6, <2>7 DEF Handled
<1>11. Sound'
  <2>0. /\ Tried' = Tried /\ Found' = Found /\ EdgeCount' = EdgeCount /\ rows' = rows
        /\ \A s, d : MatchOf(s, d)' = MatchOf(s, d)
    BY <1>2, SameTried, SameCall
  <2>1. ~Passed(start, row)
    <3>1. ~(start < start) /\ ~(pc = "done") /\ pc # "loop" /\ DOMAIN row = 1..EdgeCount
      BY <1>0, <1>1, <1>3
    <3>2. \A e \in 1..EdgeCount : ~(row[e] < row[e])
      BY <1>1, <1>3
    <3> QED BY <3>1, <3>2 DEF Passed
  <2>2. \A i \in DOMAIN matches : matches[i] # new
    BY <1>0, <1>3, <1>4, <1>5, <2>1 DEF Sound
  <2>3. \A g, h \in DOMAIN matches' : matches'[g] = matches'[h] => g = h
    <3>1. \A g, h \in DOMAIN matches : matches[g] = matches[h] => g = h
      BY <1>0 DEF Sound
    <3>2. CASE Ordered(row)
      BY <1>7, <2>2, <3>1, <3>2
    <3>3. CASE ~Ordered(row)
      BY <1>0, <3>1, <3>3
    <3> QED BY <3>2, <3>3
  <2>4. ASSUME NEW s \in Tried, NEW d \in [1..EdgeCount -> DOMAIN rows], Passed(s, d)
        PROVE  Passed(s, d)'
    <3>1. EdgeCount \in 0..EdgeCount
      BY <1>1
    <3> QED BY <1>0, <2>4, <3>1, LeaveBack
  <2>5. ASSUME NEW s, NEW d, s = start, d = row PROVE Passed(s, d)'
    <3>1. CASE ei = 1
      BY <1>0, <1>5, <2>5, <3>1, LeaveBack
    <3>2. CASE ei # 1
      <4>1. pc' = "loop" /\ start' = start /\ ei' = ei - 1 /\ UNCHANGED <<row, pos>>
        BY <1>0, <1>1, <3>2, LeaveBack
      <4>2. EdgeCount \in 1..EdgeCount /\ EdgeCount = ei' /\ pos[EdgeCount] = row[EdgeCount]
        BY <1>0, <1>1, <3>2, <4>1 DEF OnPath
      <4>3. row[EdgeCount] <= pos[EdgeCount] /\ DOMAIN row = 1..EdgeCount /\ EdgeCount <= EdgeCount
        BY <1>1, <1>3, <4>2
      <4> QED BY <2>5, <4>1, <4>2, <4>3 DEF Passed, Searching
    <3> QED BY <3>1, <3>2
  <2>6. ASSUME NEW i \in DOMAIN matches', NEW s \in Tried, NEW d \in [1..EdgeCount -> DOMAIN rows],
               matches'[i] = MatchOf(s, d)
        PROVE  Passed(s, d)'
    <3>1. CASE i \in DOMAIN matches
      BY <1>0, <1>7, <2>4, <2>6, <3>1 DEF Sound
    <3>2. CASE i \notin DOMAIN matches
      <4>1. new = MatchOf(s, d)
        BY <1>0, <1>7, <2>6, <3>2
      <4>2. Binding(s, d) = Binding(start, row) /\ d = row
        BY <1>4, <4>1 DEF MatchOf
      <4>3. s = start
        BY <1>1, <4>2, CallParts DEF Binding
      <4> QED BY <2>5, <4>2, <4>3
    <3> QED BY <3>1, <3>2
  <2> QED BY <1>7, <2>0, <2>3, <2>6 DEF Sound
<1> QED BY <1>2, <1>8, <1>9, <1>10, <1>11 DEF PInv

\* A start begins with variable 0 bound and no edge matched.
LEMMA BeginStartKeeps == ASSUME PInv, BeginStart PROVE PInv'
<1>0. /\ Typed /\ Starting /\ Complete /\ Sound /\ pc = "start" /\ pc' = "enter" /\ ei' = 1
      /\ nodes' = Fresh(start) /\ UNCHANGED <<call, start, row, pos, bound, matches>>
      /\ single \/ start < NodeCount
  BY DEF PInv, BeginStart
<1>1. /\ Called /\ EdgeCount \in Nat /\ start \in Nat /\ 0 \in Vars /\ Unbound \in Nat
  BY <1>0, Types, CallParts
<1>2. UNCHANGED <<rows, pattern, limit, single>> /\ EdgeCount' = EdgeCount /\ Vars' = Vars
  BY <1>0, SameCall
<1>3. nodes' \in [Vars -> Nat] /\ nodes'[0] = start /\ \A v \in Vars \ {0} : nodes'[v] = Unbound
  BY <1>0, <1>1 DEF Fresh
<1>4. Typed'
  BY <1>0, <1>1, <1>2, <1>3 DEF Typed, SearchTypeOK
<1>5. OnPath'
  <2>1. Distinct(nodes')
    <3> SUFFICES ASSUME NEW u \in Vars, NEW v \in Vars, nodes'[u] = nodes'[v], nodes'[u] # Unbound PROVE u = v
      BY DEF Distinct
    <3>1. u = 0 /\ v = 0
      BY <1>3
    <3> QED BY <3>1
  <2>2. Matched(start, nodes', row, 0)
    BY <1>3, <2>1 DEF Matched
  <2>3. ei' - 1 = 0 /\ start' = start /\ row' = row
    BY <1>0
  <2>4. Matched(start', nodes', row', ei' - 1)
    BY <2>2, <2>3
  <2>5. Matched(start, nodes, row, ei - 1)'
    BY <1>0, <2>4, MatchedNext
  <2>6. \A e \in 1..EdgeCount : ~Open(e)'
    BY <1>0, <1>1 DEF Open
  <2>7. (1..(ei - 1))' = {}
    BY <2>3
  <2> QED BY <1>0, <1>2, <2>5, <2>6, <2>7 DEF OnPath
<1>6. Starting' /\ Outside'
  BY <1>0, <1>2 DEF Starting, Outside, Searching
<1>7. ASSUME NEW s \in Tried, NEW k \in 0..EdgeCount, NEW d \in [1..k -> DOMAIN rows]
      PROVE  Passed(s, d)' <=> Passed(s, d)
  <2>1. pc # "done" /\ pc' # "done" /\ ~(pc \in {"enter", "loop"}) /\ pc' # "loop"
    BY <1>0
  <2>2. Passed(s, d) <=> s < start
    BY <2>1 DEF Passed, Searching
  <2>3. \A e \in DOMAIN d : ~(e < ei')
    BY <1>0, <1>1
  <2> QED BY <1>0, <2>1, <2>2, <2>3 DEF Passed
<1>8. Complete'
  <2>1. \A s \in Tried : \A k \in 0..EdgeCount : \A d \in Embeddings(s, k) : Passed(s, d)' => Passed(s, d)
    BY <1>7, EmbeddingParts
  <2> QED BY <1>0, <2>1, CompleteStep
<1>9. Sound'
  <2>1. EdgeCount \in 0..EdgeCount
    BY <1>1
  <2>2. \A s \in Tried : \A d \in [1..EdgeCount -> DOMAIN rows] : Passed(s, d) => Passed(s, d)'
    BY <1>7, <2>1
  <2> QED BY <1>0, <2>2, SoundStep
<1> QED BY <1>4, <1>5, <1>6, <1>8, <1>9 DEF PInv

\* The call returns what it has when no start is left or the limit is reached.
LEMMA AllTriedKeeps == ASSUME PInv, AllTried PROVE PInv'
<1>0. /\ Typed /\ Starting /\ Complete /\ Sound /\ pc = "start" /\ pc' = "done"
      /\ UNCHANGED <<call, start, nodes, row, pos, bound, ei, matches>>
      /\ Len(matches) >= limit \/ (~single /\ start >= NodeCount)
  BY DEF PInv, AllTried
<1>1. EdgeCount \in Nat /\ limit \in Nat /\ Len(matches) \in Nat /\ start \in Nat /\ NodeCount \in Nat
  BY <1>0, Types DEF Sound
<1>2. UNCHANGED <<rows, pattern, limit, single>> /\ EdgeCount' = EdgeCount /\ Vars' = Vars
  BY <1>0, SameCall
<1>3. Typed'
  BY <1>0, <1>2 DEF Typed, SearchTypeOK
<1>4. OnPath' /\ Outside'
  BY <1>0, <1>2 DEF OnPath, Outside, Searching
<1>10. Starting'
  <2>1. ~single /\ Len(matches) < limit => start = NodeCount
    BY <1>0, <1>1 DEF Starting
  <2> QED BY <1>0, <1>2, <2>1 DEF Starting, Searching
<1>5. \A s, d : Passed(s, d) => Passed(s, d)'
  BY <1>0, <1>2 DEF Passed, Searching
<1>6. ~single => \A s, d : Passed(s, d)' => Passed(s, d)
  BY <1>0, <1>2 DEF Passed, Searching
<1>7. Len(matches') < limit => ~single
  BY <1>0, <1>1
<1>8. Complete'
  BY <1>0, <1>6, <1>7, CompleteStep
<1>9. Sound'
  BY <1>0, <1>5, SoundStep
<1> QED BY <1>3, <1>4, <1>8, <1>9, <1>10 DEF PInv

\* The call fails at a path that leads outside.
LEMMA EnterFailsKeeps == ASSUME PInv, EnterFails PROVE PInv'
<1>0. /\ Typed /\ OnPath /\ Starting /\ Sound /\ Searching /\ pc = "enter" /\ pc' = "failed"
      /\ UNCHANGED <<call, start, nodes, row, pos, bound, ei, matches>>
      /\ ei <= EdgeCount /\ nodes[FromVar(ei)] # Unbound /\ nodes[FromVar(ei)] \notin CsrNodes
  BY DEF PInv, EnterFails, AtEdge, Searching, Pattern, FromVar
<1>1. /\ Called /\ EdgeCount \in Nat /\ ei \in Nat /\ 1 <= ei /\ NodeCount \in Nat /\ start \in Nat
      /\ (single => Tried = {start}) /\ (~single => Tried = CsrNodes)
  BY <1>0, Types
<1>2. UNCHANGED <<rows, pattern, limit, single>> /\ EdgeCount' = EdgeCount /\ Vars' = Vars
  BY <1>0, SameCall
<1>3. Typed'
  BY <1>0, <1>2 DEF Typed, SearchTypeOK
<1>4. OnPath' /\ Starting' /\ Complete'
  BY <1>0, <1>2 DEF OnPath, Starting, Complete, Searching
<1>5. start \in Tried
  <2>1. CASE single
    BY <1>1, <2>1
  <2>2. CASE ~single
    BY <1>0, <1>1, <2>2 DEF Starting, CsrNodes
  <2> QED BY <2>1, <2>2
<1>6. LeadsOutside(start)
  <2> DEFINE k == ei - 1
             c == [e \in 1..k |-> row[e]]
  <2>1. k \in 0..(EdgeCount - 1) /\ k \in 0..EdgeCount /\ k + 1 = ei
    BY <1>0, <1>1
  <2>2. Matched(start, nodes, row, k)
    BY <1>0 DEF OnPath
  <2> HIDE DEF k
  <2>3. c \in Embeddings(start, k) /\ Binding(start, c) = nodes
    BY <1>1, <2>1, <2>2, PathEmbeds
  <2> HIDE DEF c
  <2>4. Binding(start, c)[pattern.edges[k + 1].from] \notin CsrNodes \cup {Unbound}
    BY <1>0, <2>1, <2>3 DEF FromVar
  <2> QED BY <2>1, <2>3, <2>4 DEF LeadsOutside
<1>7. Outside'
  <2>1. Tried' = Tried /\ \A s : LeadsOutside(s)' = LeadsOutside(s)
    BY <1>0, SameTried, SameCall
  <2> QED BY <1>5, <1>6, <2>1 DEF Outside
<1>8. Sound'
  BY <1>0, SoundStep
<1> QED BY <1>3, <1>4, <1>7, <1>8 DEF PInv

\* A loop begins before its first row.
LEMMA EnterLoopKeeps == ASSUME PInv, EnterLoop PROVE PInv'
<1>0. /\ Typed /\ OnPath /\ Starting /\ Complete /\ Sound /\ Searching
      /\ pc = "enter" /\ pc' = "loop"
      /\ UNCHANGED <<call, start, nodes, row, ei, matches>>
      /\ ei <= EdgeCount /\ nodes[FromVar(ei)] \in CsrNodes
      /\ bound' = [bound EXCEPT ![ei] = nodes[ToVar(ei)] # Unbound]
      /\ pos' = [pos EXCEPT ![ei] = 0]
  BY DEF PInv, EnterLoop, AtEdge, Searching, Pattern, FromVar, ToVar
<1>1. /\ Called /\ EdgeCount \in Nat /\ ei \in Nat /\ 1 <= ei /\ start \in Nat
      /\ Len(rows) \in Nat /\ DOMAIN rows = 1..Len(rows) /\ row \in [1..EdgeCount -> Nat]
      /\ pos \in [1..EdgeCount -> 0..Len(rows)] /\ bound \in [1..EdgeCount -> BOOLEAN]
      /\ Matched(start, nodes, row, ei - 1)
  BY <1>0, Types DEF OnPath
<1>2. UNCHANGED <<rows, pattern, limit, single>> /\ EdgeCount' = EdgeCount /\ Vars' = Vars
  BY <1>0, SameCall
<1>3. ei \in 1..EdgeCount /\ ei - 1 \in 0..EdgeCount
  BY <1>0, <1>1
<1>4. /\ pos' \in [1..EdgeCount -> 0..Len(rows)] /\ pos'[ei] = 0
      /\ bound' \in [1..EdgeCount -> BOOLEAN] /\ (bound'[ei] <=> nodes[ToVar(ei)] # Unbound)
      /\ \A e \in 1..EdgeCount : e # ei => pos'[e] = pos[e] /\ bound'[e] = bound[e]
  <2> DEFINE q == nodes[ToVar(ei)] # Unbound
  <2>1. q \in BOOLEAN /\ bound' = [bound EXCEPT ![ei] = q]
    BY <1>0
  <2>2. /\ pos' \in [1..EdgeCount -> 0..Len(rows)] /\ pos'[ei] = 0
        /\ \A e \in 1..EdgeCount : e # ei => pos'[e] = pos[e]
    BY <1>0, <1>1, <1>3
  <2> HIDE DEF q
  <2>3. /\ bound' \in [1..EdgeCount -> BOOLEAN] /\ bound'[ei] = q
        /\ \A e \in 1..EdgeCount : e # ei => bound'[e] = bound[e]
    BY <1>1, <1>3, <2>1
  <2> QED BY <2>2, <2>3 DEF q
<1>5. Typed'
  BY <1>0, <1>2, <1>4 DEF Typed, SearchTypeOK
<1>6. start # Unbound
  <2>1. FromVar(ei) = 0 \/ \E f \in 1..(ei - 1) : TRUE
    BY <1>1, <1>3, CallParts
  <2>2. CASE FromVar(ei) = 0
    BY <1>0, <1>1, <2>2, CallParts DEF Matched
  <2>3. CASE \E f \in 1..(ei - 1) : TRUE
    <3>1. 1 \in 1..(ei - 1) /\ 1 \in 1..EdgeCount /\ 1..(1 - 1) = {}
      BY <1>1, <1>3, <2>3
    <3>2. FromVar(1) = 0
      BY <1>1, <3>1, CallParts
    <3>3. nodes[FromVar(1)] # Unbound
      BY <1>1, <1>3, <3>1, MatchedBound
    <3> QED BY <1>1, <3>2, <3>3 DEF Matched
  <2> QED BY <2>1, <2>2, <2>3
<1>7. nodes[ToVar(ei)] # Unbound <=> EndsInBound(ei)
  <2>1. ToVar(ei) \in Vars
    BY <1>1, <1>3, CallParts
  <2>2. CASE ToVar(ei) = 0
    BY <1>1, <1>6, <2>2 DEF Matched, EndsInBound
  <2>3. CASE ToVar(ei) # 0
    BY <1>1, <2>1, <2>3 DEF Matched, EndsInBound
  <2> QED BY <2>2, <2>3
<1>8. OnPath'
  <2>1. Matched(start, nodes, row, ei - 1)'
    BY <1>0, <1>1, MatchedNext
  <2>2. \A e \in 1..(ei' - 1) : pos'[e] = row'[e]
    <3>1. \A e \in 1..(ei - 1) : e # ei /\ e \in 1..EdgeCount /\ pos[e] = row[e]
      BY <1>0, <1>1, <1>3 DEF OnPath
    <3> QED BY <1>0, <1>4, <3>1
  <2>3. ASSUME NEW e \in 1..EdgeCount, Open(e)' PROVE bound'[e] <=> EndsInBound(e)'
    <3>1. EndsInBound(e)' = EndsInBound(e)
      BY <1>0, SameCall
    <3>2. CASE e = ei
      BY <1>4, <1>7, <3>1, <3>2
    <3>3. CASE e # ei
      <4>1. Open(e)
        BY <1>0, <2>3, <3>3 DEF Open
      <4> QED BY <1>0, <1>4, <3>1, <3>3, <4>1 DEF OnPath
    <3> QED BY <3>2, <3>3
  <2>4. ei' <= EdgeCount' /\ nodes'[FromVar(ei)'] \in CsrNodes
    <3>1. FromVar(ei)' = FromVar(ei)
      BY <1>0, <1>2 DEF FromVar
    <3> QED BY <1>0, <1>2, <3>1
  <2> QED BY <1>0, <1>2, <2>1, <2>2, <2>3, <2>4 DEF OnPath
<1>9. Starting' /\ Outside'
  BY <1>0, <1>2 DEF Starting, Outside, Searching
<1>10. ASSUME NEW s \in Tried, NEW k \in 0..EdgeCount, NEW d \in [1..k -> DOMAIN rows]
       PROVE  Passed(s, d)' <=> Passed(s, d)
  <2>1. pc # "done" /\ pc' # "done" /\ pc # "loop"
    BY <1>0
  <2>2. ~(ei \in DOMAIN d /\ d[ei] <= pos'[ei])
    BY <1>1, <1>4
  <2>3. \A e \in DOMAIN d : e = ei => ~(d[e] <= pos'[e])
    BY <2>2
  <2> QED BY <1>0, <2>1, <2>3 DEF Passed, Searching
<1>11. Complete'
  <2>1. \A s \in Tried : \A k \in 0..EdgeCount : \A d \in Embeddings(s, k) : Passed(s, d)' => Passed(s, d)
    BY <1>10, EmbeddingParts
  <2> QED BY <1>0, <2>1, CompleteStep
<1>12. Sound'
  <2>1. EdgeCount \in 0..EdgeCount
    BY <1>1
  <2>2. \A s \in Tried : \A d \in [1..EdgeCount -> DOMAIN rows] : Passed(s, d) => Passed(s, d)'
    BY <1>10, <2>1
  <2> QED BY <1>0, <2>2, SoundStep
<1> QED BY <1>5, <1>8, <1>9, <1>11, <1>12 DEF PInv

\* A non-empty set of natural numbers has a least element: the least of the
\* intervals 0..m by inclusion.
LEMMA LeastNatural ==
    ASSUME NEW T \in SUBSET Nat, T # {}
    PROVE  \E m \in T : \A k \in T : m <= k
<1> DEFINE F == {0..m : m \in T}
<1>1. F \subseteq FiniteSubsetsOf(Nat)
  <2> SUFFICES ASSUME NEW m \in T PROVE 0..m \in SUBSET Nat /\ IsFiniteSet(0..m)
    BY DEF FiniteSubsetsOf
  <2> QED BY FS_Interval
<1>2. F # {}
  OBVIOUS
<1>3. PICK x \in F : \A y \in F : ~(<<y, x>> \in StrictSubsetOrdering(Nat))
  <2> HIDE DEF F
  <2> QED BY <1>1, <1>2, FS_StrictSubsetOrderingWellFounded, WFMin
<1>4. PICK m \in T : x = 0..m
  OBVIOUS
<1>5. ASSUME NEW k \in T, k < m PROVE FALSE
  <2>1. 0..k \in F /\ 0..k \subseteq x /\ 0..k # x
    <3>1. m \in x /\ m \notin 0..k
      BY <1>4, <1>5
    <3> QED BY <1>4, <1>5, <3>1
  <2>2. <<0..k, x>> \in StrictSubsetOrdering(Nat)
    BY <2>1, <1>4 DEF StrictSubsetOrdering
  <2> QED BY <1>3, <2>1, <2>2
<1> QED BY <1>5

\* The row a loop comes to next, and what it goes past.
LEMMA LoopRowIs ==
    ASSUME PInv, pc = "loop", LoopHas
    PROVE  /\ ei \in 1..EdgeCount /\ nodes[FromVar(ei)] # Unbound /\ start # Unbound
           /\ Matched(start, nodes, row, ei - 1)
           /\ LoopRow \in Neighbors(nodes[FromVar(ei)])
           /\ LoopRow \in DOMAIN rows /\ LoopRow \in Nat /\ pos[ei] \in Nat /\ pos[ei] < LoopRow
           /\ \A r \in Neighbors(nodes[FromVar(ei)]) : pos[ei] < r => LoopRow <= r
           /\ (bound[ei] <=> nodes[ToVar(ei)] # Unbound)
           /\ \A r : Fits(r) <=> Fit(nodes, r, ei)
<1>0. /\ Typed /\ OnPath /\ Searching /\ Matched(start, nodes, row, ei - 1) /\ ei <= EdgeCount
      /\ nodes[FromVar(ei)] \in CsrNodes
  BY DEF PInv, OnPath, Searching
<1>1. /\ Called /\ EdgeCount \in Nat /\ ei \in Nat /\ 1 <= ei /\ Len(rows) \in Nat
      /\ DOMAIN rows = 1..Len(rows) /\ pos \in [1..EdgeCount -> 0..Len(rows)]
  BY <1>0, Types
<1>2. ei \in 1..EdgeCount /\ ei - 1 \in 0..EdgeCount
  BY <1>0, <1>1
<1>3. nodes[FromVar(ei)] # Unbound
  BY <1>0, <1>1, CallParts
<1>4. LoopRow \in Ahead /\ \A q \in Ahead : LoopRow <= q
  <2>1. Ahead \in SUBSET Nat /\ Ahead # {}
    BY <1>1 DEF LoopHas, Ahead, Neighbors
  <2>2. \E r \in Ahead : \A q \in Ahead : r <= q
    <3> DEFINE A == Ahead
    <3> HIDE DEF A
    <3>1. A \in SUBSET Nat /\ A # {}
      BY <2>1 DEF A
    <3> QED BY <3>1, LeastNatural DEF A
  <2> QED BY <2>2 DEF LoopRow
<1>5. Ahead = {r \in Neighbors(nodes[FromVar(ei)]) : pos[ei] < r}
  BY DEF Ahead, Pattern, FromVar
<1>6. /\ LoopRow \in Neighbors(nodes[FromVar(ei)]) /\ pos[ei] < LoopRow
      /\ \A r \in Neighbors(nodes[FromVar(ei)]) : pos[ei] < r => LoopRow <= r
  BY <1>4, <1>5
<1>7. LoopRow \in DOMAIN rows /\ LoopRow \in Nat /\ pos[ei] \in Nat
  BY <1>1, <1>2, <1>6 DEF Neighbors
<1>8. start # Unbound
  <2>1. FromVar(ei) = 0 \/ \E f \in 1..(ei - 1) : TRUE
    BY <1>1, <1>2, CallParts
  <2>2. CASE FromVar(ei) = 0
    BY <1>0, <1>3, <2>2 DEF Matched
  <2>3. CASE \E f \in 1..(ei - 1) : TRUE
    <3>1. 1 \in 1..(ei - 1) /\ 1 \in 1..EdgeCount /\ 1..(1 - 1) = {}
      BY <1>1, <1>2, <2>3
    <3>2. FromVar(1) = 0
      BY <1>1, <3>1, CallParts
    <3>3. nodes[FromVar(1)] # Unbound
      BY <1>0, <1>1, <1>2, <3>1, MatchedBound
    <3> QED BY <1>0, <3>2, <3>3 DEF Matched
  <2> QED BY <2>1, <2>2, <2>3
<1>9. bound[ei] <=> nodes[ToVar(ei)] # Unbound
  <2>1. ToVar(ei) \in Vars /\ (bound[ei] <=> EndsInBound(ei))
    BY <1>0, <1>1, <1>2, CallParts DEF OnPath, Open
  <2>2. CASE ToVar(ei) = 0
    BY <1>0, <1>8, <2>1, <2>2 DEF Matched, EndsInBound
  <2>3. CASE ToVar(ei) # 0
    BY <1>0, <2>1, <2>3 DEF Matched, EndsInBound
  <2> QED BY <2>2, <2>3
<1>10. \A r : Fits(r) <=> Fit(nodes, r, ei)
  BY <1>9 DEF Fits, Fit, Pattern, ToVar
<1> QED BY <1>0, <1>2, <1>3, <1>6, <1>7, <1>8, <1>9, <1>10

\* A row that does not fit ends no embedding of the path's next edge.
LEMMA SkipKeeps == ASSUME PInv, Skip PROVE PInv'
<1> DEFINE r == LoopRow
<1>0. /\ Typed /\ OnPath /\ Starting /\ Complete /\ Sound /\ Searching /\ pc = "loop" /\ pc' = "loop"
      /\ LoopHas /\ ~Fits(r) /\ pos' = [pos EXCEPT ![ei] = r]
      /\ UNCHANGED <<call, start, nodes, row, bound, ei, matches>>
  BY DEF PInv, Skip, Searching
<1>1. /\ Called /\ EdgeCount \in Nat /\ ei \in Nat /\ 1 <= ei /\ start \in Nat
      /\ Len(rows) \in Nat /\ DOMAIN rows = 1..Len(rows)
      /\ pos \in [1..EdgeCount -> 0..Len(rows)]
  BY <1>0, Types
<1>2. /\ ei \in 1..EdgeCount /\ nodes[FromVar(ei)] # Unbound /\ Matched(start, nodes, row, ei - 1)
      /\ r \in DOMAIN rows /\ r \in Nat /\ pos[ei] \in Nat /\ pos[ei] < r
      /\ \A q \in Neighbors(nodes[FromVar(ei)]) : pos[ei] < q => r <= q
      /\ ~Fit(nodes, r, ei)
  BY <1>0, LoopRowIs
<1> HIDE DEF r
<1>3. UNCHANGED <<rows, pattern, limit, single>> /\ EdgeCount' = EdgeCount /\ Vars' = Vars
  BY <1>0, SameCall
<1>4. /\ pos' \in [1..EdgeCount -> 0..Len(rows)] /\ pos'[ei] = r
      /\ \A e \in 1..EdgeCount : e # ei => pos'[e] = pos[e]
  BY <1>0, <1>1, <1>2
<1>5. Typed'
  BY <1>0, <1>3, <1>4 DEF Typed, SearchTypeOK
<1>6. OnPath'
  <2>1. Matched(start, nodes, row, ei - 1)'
    BY <1>0, <1>2, MatchedNext
  <2>2. \A e \in 1..(ei' - 1) : pos'[e] = row'[e]
    <3>1. \A e \in 1..(ei - 1) : e # ei /\ e \in 1..EdgeCount /\ pos[e] = row[e]
      BY <1>0, <1>1, <1>2 DEF OnPath
    <3> QED BY <1>0, <1>4, <3>1
  <2>3. \A e \in 1..EdgeCount : Open(e)' => (bound'[e] <=> EndsInBound(e)')
    <3>1. \A e : EndsInBound(e)' = EndsInBound(e) /\ Open(e)' = Open(e)
      BY <1>0, SameCall DEF Open
    <3> QED BY <1>0, <3>1 DEF OnPath
  <2>4. ei' <= EdgeCount' /\ nodes'[FromVar(ei)'] \in CsrNodes
    <3>1. FromVar(ei)' = FromVar(ei)
      BY <1>0, <1>3 DEF FromVar
    <3> QED BY <1>0, <1>3, <3>1 DEF OnPath
  <2> QED BY <1>0, <1>3, <2>1, <2>2, <2>3, <2>4 DEF OnPath
<1>7. Starting' /\ Outside'
  BY <1>0, <1>3 DEF Starting, Outside, Searching
<1>8. ASSUME NEW s \in Tried, NEW k \in 0..EdgeCount, NEW d \in [1..k -> DOMAIN rows]
      PROVE  /\ Passed(s, d) => Passed(s, d)'
             /\ Passed(s, d)' => \/ Passed(s, d)
                                 \/ /\ s = start /\ ei <= k /\ \A f \in 1..(ei - 1) : d[f] = row[f]
                                    /\ pos[ei] < d[ei] /\ d[ei] <= r
  <2>1. DOMAIN d = 1..k /\ \A f \in 1..k : d[f] \in Nat
    BY <1>1
  <2> DEFINE Before(e) == e <= ei /\ (\A f \in 1..(e - 1) : d[f] = row[f]) /\ e < ei /\ d[e] < row[e]
             Along     == \A f \in 1..(ei - 1) : d[f] = row[f]
  <2>2. Passed(s, d) <=> \/ s < start
                         \/ s = start /\ \E e \in 1..k : Before(e)
                         \/ s = start /\ ei \in 1..k /\ Along /\ d[ei] <= pos[ei]
    BY <1>0, <1>1, <2>1 DEF Passed
  <2>3. Passed(s, d)' <=> \/ s < start
                          \/ s = start /\ \E e \in 1..k : Before(e)
                          \/ s = start /\ ei \in 1..k /\ Along /\ d[ei] <= r
    BY <1>0, <1>1, <1>4, <2>1 DEF Passed, Searching
  <2>4. ei \in 1..k => d[ei] \in Nat /\ (d[ei] <= pos[ei] => d[ei] <= r) /\ (d[ei] <= pos[ei] \/ pos[ei] < d[ei])
                       /\ ei <= k
    BY <1>2, <2>1
  <2> HIDE DEF Before
  <2> QED BY <2>2, <2>3, <2>4
<1>9. Complete'
  <2> SUFFICES ASSUME NEW s \in Tried, NEW k \in 0..EdgeCount, NEW d \in Embeddings(s, k),
                      Passed(s, d)', ~Passed(s, d)
               PROVE  FALSE
    BY <1>0, CompleteStep
  <2>1. d \in [1..k -> DOMAIN rows]
    BY EmbeddingParts
  <2>2. /\ s = start /\ ei <= k /\ \A f \in 1..(ei - 1) : d[f] = row[f]
        /\ pos[ei] < d[ei] /\ d[ei] <= r
    BY <1>8, <2>1
  <2>3. d[ei] \in Neighbors(nodes[FromVar(ei)]) /\ Fit(nodes, d[ei], ei)
    <3> DEFINE m == ei - 1
    <3>1. /\ m \in 0..EdgeCount /\ m < k /\ Matched(start, nodes, row, m) /\ m + 1 = ei
          /\ \A f \in 1..m : d[f] = row[f]
      BY <1>1, <1>2, <2>2
    <3> HIDE DEF m
    <3> QED BY <1>1, <1>2, <2>2, <3>1, NextRow
  <2>4. d[ei] \in Nat
    BY <1>1, <2>3 DEF Neighbors
  <2>5. r <= d[ei]
    BY <1>2, <2>2, <2>3
  <2>6. d[ei] = r
    BY <1>2, <2>2, <2>4, <2>5
  <2> QED BY <1>2, <2>3, <2>6
<1>10. Sound'
  <2>1. EdgeCount \in 0..EdgeCount
    BY <1>1
  <2>2. \A s \in Tried : \A d \in [1..EdgeCount -> DOMAIN rows] : Passed(s, d) => Passed(s, d)'
    BY <1>8, <2>1
  <2>3. pc # "failed"
    BY <1>0
  <2> QED BY <1>0, <2>2, <2>3, SoundStep
<1> QED BY <1>5, <1>6, <1>7, <1>9, <1>10 DEF PInv

\* A row that fits is taken: the search is past the rows before it only.
LEMMA TakeKeeps == ASSUME PInv, Take PROVE PInv'
<1> DEFINE r == LoopRow
<1>0. /\ Typed /\ OnPath /\ Starting /\ Complete /\ Sound /\ Searching /\ pc = "loop" /\ pc' = "enter"
      /\ LoopHas /\ Fits(r) /\ pos' = [pos EXCEPT ![ei] = r] /\ row' = [row EXCEPT ![ei] = r]
      /\ nodes' = [nodes EXCEPT ![ToVar(ei)] = rows[r].dst] /\ ei' = ei + 1
      /\ UNCHANGED <<call, start, bound, matches>>
  BY DEF PInv, Take, Searching, Pattern, ToVar
<1>1. /\ Called /\ EdgeCount \in Nat /\ ei \in Nat /\ 1 <= ei /\ start \in Nat
      /\ Len(rows) \in Nat /\ DOMAIN rows = 1..Len(rows)
      /\ pos \in [1..EdgeCount -> 0..Len(rows)] /\ row \in [1..EdgeCount -> 0..Len(rows)]
      /\ row \in [1..EdgeCount -> Nat]
  BY <1>0, Types
<1>2. /\ ei \in 1..EdgeCount /\ nodes[FromVar(ei)] # Unbound /\ start # Unbound
      /\ Matched(start, nodes, row, ei - 1)
      /\ r \in Neighbors(nodes[FromVar(ei)])
      /\ r \in DOMAIN rows /\ r \in Nat /\ pos[ei] \in Nat /\ pos[ei] < r
      /\ \A q \in Neighbors(nodes[FromVar(ei)]) : pos[ei] < q => r <= q
      /\ Fit(nodes, r, ei)
  BY <1>0, LoopRowIs
<1> HIDE DEF r
<1>3. UNCHANGED <<rows, pattern, limit, single>> /\ EdgeCount' = EdgeCount /\ Vars' = Vars
  BY <1>0, SameCall
<1>4. /\ pos' \in [1..EdgeCount -> 0..Len(rows)] /\ pos'[ei] = r
      /\ row' \in [1..EdgeCount -> 0..Len(rows)] /\ row'[ei] = r
      /\ \A e \in 1..EdgeCount : e # ei => pos'[e] = pos[e] /\ row'[e] = row[e]
  BY <1>0, <1>1, <1>2
<1>5. Matched(start, nodes', row', ei)
  <2> DEFINE m == ei - 1
  <2>1. m \in 0..EdgeCount /\ ei = m + 1 /\ Matched(start, nodes, row, m)
    BY <1>1, <1>2
  <2> HIDE DEF m
  <2>2. Matched(start, [nodes EXCEPT ![ToVar(ei)] = rows[r].dst], [row EXCEPT ![ei] = r], ei)
    BY <1>1, <1>2, <2>1, TakeExtends
  <2> QED BY <1>0, <2>2
<1>6. Typed'
  <2>1. nodes' \in [Vars -> Nat]
    BY <1>5 DEF Matched
  <2>2. ei' \in 1..(EdgeCount + 1)
    BY <1>0, <1>1, <1>2
  <2> QED BY <1>0, <1>3, <1>4, <2>1, <2>2 DEF Typed, SearchTypeOK
<1>7. OnPath'
  <2>1. start' = start /\ ei' - 1 = ei
    BY <1>0, <1>1
  <2>2. Matched(start', nodes', row', ei' - 1)
    BY <1>5, <2>1
  <2>3. Matched(start, nodes, row, ei - 1)'
    BY <1>0, <2>2, MatchedNext
  <2>4. \A e \in 1..(ei' - 1) : pos'[e] = row'[e]
    <3>1. \A e \in 1..ei : e = ei \/ (e # ei /\ e \in 1..EdgeCount /\ pos[e] = row[e])
      BY <1>0, <1>1, <1>2 DEF OnPath
    <3> QED BY <1>4, <2>1, <3>1
  <2>5. \A e \in 1..EdgeCount : Open(e)' => (bound'[e] <=> EndsInBound(e)')
    <3>1. \A e : EndsInBound(e)' = EndsInBound(e)
      BY <1>0, SameCall
    <3>2. \A e \in 1..EdgeCount : Open(e)' => Open(e)
      BY <1>0, <1>1 DEF Open
    <3> QED BY <1>0, <3>1, <3>2 DEF OnPath
  <2> QED BY <1>0, <1>3, <2>3, <2>4, <2>5 DEF OnPath
<1>8. Starting' /\ Outside'
  BY <1>0, <1>3 DEF Starting, Outside, Searching
<1>9. ASSUME NEW s \in Tried, NEW k \in 0..EdgeCount, NEW d \in [1..k -> DOMAIN rows]
      PROVE  /\ Passed(s, d) => Passed(s, d)'
             /\ Passed(s, d)' => \/ Passed(s, d)
                                 \/ /\ s = start /\ ei <= k /\ \A f \in 1..(ei - 1) : d[f] = row[f]
                                    /\ pos[ei] < d[ei] /\ d[ei] < r
  <2>1. DOMAIN d = 1..k /\ \A f \in 1..k : d[f] \in Nat
    BY <1>1
  <2> DEFINE Before(e) == e <= ei /\ (\A f \in 1..(e - 1) : d[f] = row[f]) /\ e < ei /\ d[e] < row[e]
             Later(e)  == /\ e <= ei + 1 /\ \A f \in 1..(e - 1) : d[f] = row'[f]
                          /\ e < ei + 1 /\ d[e] < row'[e]
             Along     == \A f \in 1..(ei - 1) : d[f] = row[f]
  <2>2. Passed(s, d) <=> \/ s < start
                         \/ s = start /\ \E e \in 1..k : Before(e)
                         \/ s = start /\ ei \in 1..k /\ Along /\ d[ei] <= pos[ei]
    <3>1. Searching /\ pc = "loop" /\ pc # "done" /\ ei \in Nat
      BY <1>0, <1>1
    <3>2. Passed(s, d) <=> \/ s < start
                           \/ s = start /\ \E e \in 1..k :
                                 /\ e <= ei /\ \A f \in 1..(e - 1) : d[f] = row[f]
                                 /\ (e < ei /\ d[e] < row[e]) \/ (e = ei /\ d[e] <= pos[e])
      BY <2>1, <3>1 DEF Passed
    <3> QED BY <3>1, <3>2
  <2>3. Passed(s, d)' <=> \/ s < start
                          \/ s = start /\ \E e \in 1..k : Later(e)
    BY <1>0, <1>1, <2>1 DEF Passed, Searching
  <2>4. \A e \in 1..k : e # ei => (Later(e) <=> Before(e))
    <3> SUFFICES ASSUME NEW e \in 1..k, e # ei PROVE Later(e) <=> Before(e)
      OBVIOUS
    <3>1. CASE ei < e
      BY <1>1, <3>1
    <3>2. CASE e < ei
      <4>1. \A f \in 1..e : f # ei /\ f \in 1..EdgeCount
        BY <1>1, <1>2, <3>2
      <4>2. \A f \in 1..(e - 1) : row'[f] = row[f]
        BY <1>4, <4>1
      <4>3. row'[e] = row[e] /\ e < ei + 1
        BY <1>1, <1>4, <3>2, <4>1
      <4>4. e <= ei /\ e <= ei + 1
        BY <1>1, <3>2
      <4> QED BY <3>2, <4>2, <4>3, <4>4
    <3> QED BY <1>1, <3>1, <3>2
  <2>5. ei \in 1..k => (Later(ei) <=> Along /\ d[ei] < r)
    <3>1. \A f \in 1..(ei - 1) : f # ei /\ f \in 1..EdgeCount
      BY <1>1, <1>2
    <3>2. \A f \in 1..(ei - 1) : row'[f] = row[f]
      BY <1>4, <3>1
    <3>3. ei < ei + 1 /\ row'[ei] = r
      BY <1>1, <1>4
    <3> QED BY <3>2, <3>3
  <2>6. ei \in 1..k => d[ei] \in Nat /\ (d[ei] <= pos[ei] => d[ei] < r) /\ (d[ei] <= pos[ei] \/ pos[ei] < d[ei])
                       /\ ei <= k
    BY <1>2, <2>1
  <2>7. ~Before(ei)
    BY <1>1
  <2> HIDE DEF Before, Later, Along
  <2>8. Passed(s, d) => Passed(s, d)'
    BY <2>2, <2>3, <2>4, <2>5, <2>6, <2>7
  <2>9. Passed(s, d)' => \/ Passed(s, d)
                         \/ s = start /\ ei <= k /\ Along /\ pos[ei] < d[ei] /\ d[ei] < r
    BY <2>2, <2>3, <2>4, <2>5, <2>6
  <2> QED BY <2>8, <2>9 DEF Along
<1>10. Complete'
  <2> SUFFICES ASSUME NEW s \in Tried, NEW k \in 0..EdgeCount, NEW d \in Embeddings(s, k),
                      Passed(s, d)', ~Passed(s, d)
               PROVE  FALSE
    BY <1>0, CompleteStep
  <2>1. d \in [1..k -> DOMAIN rows]
    BY EmbeddingParts
  <2>2. /\ s = start /\ ei <= k /\ \A f \in 1..(ei - 1) : d[f] = row[f]
        /\ pos[ei] < d[ei] /\ d[ei] < r
    BY <1>9, <2>1
  <2>3. d[ei] \in Neighbors(nodes[FromVar(ei)])
    <3> DEFINE m == ei - 1
    <3>1. /\ m \in 0..EdgeCount /\ m < k /\ Matched(start, nodes, row, m) /\ m + 1 = ei
          /\ \A f \in 1..m : d[f] = row[f]
      BY <1>1, <1>2, <2>2
    <3> HIDE DEF m
    <3> QED BY <1>1, <1>2, <2>2, <3>1, NextRow
  <2>4. d[ei] \in Nat
    BY <1>1, <2>3 DEF Neighbors
  <2>5. r <= d[ei]
    BY <1>2, <2>2, <2>3
  <2> QED BY <1>2, <2>2, <2>4, <2>5
<1>11. Sound'
  <2>1. EdgeCount \in 0..EdgeCount
    BY <1>1
  <2>2. \A s \in Tried : \A d \in [1..EdgeCount -> DOMAIN rows] : Passed(s, d) => Passed(s, d)'
    BY <1>9, <2>1
  <2>3. pc # "failed"
    BY <1>0
  <2> QED BY <1>0, <2>2, <2>3, SoundStep
<1> QED BY <1>6, <1>7, <1>8, <1>10, <1>11 DEF PInv

\* Nothing is searched before the call.
LEMMA InitPInv == SearchInit => PInv
<1> SUFFICES ASSUME SearchInit PROVE PInv
  OBVIOUS
<1>1. Called /\ pc = "start" /\ ei = 1 /\ matches = <<>> /\ nodes = Fresh(start)
  BY DEF SearchInit, Called
<1>2. start \in Nat /\ (~single => start = 0)
  <2>1. CASE single
    BY <2>1, PatternAssumption DEF SearchInit
  <2>2. CASE ~single
    BY <2>2 DEF SearchInit
  <2> QED BY <2>1, <2>2
<1>3. /\ EdgeCount \in Nat /\ 0 \in Vars /\ Unbound \in Nat /\ Len(rows) \in Nat /\ limit \in Nat
      /\ NodeCount \in Nat
  BY <1>1, CallParts
<1>4. nodes \in [Vars -> Nat]
  BY <1>1, <1>2, <1>3 DEF Fresh
<1>5. Len(matches) = 0
  BY <1>1
<1>6. /\ row \in [1..EdgeCount -> 0..Len(rows)] /\ pos \in [1..EdgeCount -> 0..Len(rows)]
      /\ bound \in [1..EdgeCount -> BOOLEAN]
  BY <1>3 DEF SearchInit
<1>7. Typed
  BY <1>1, <1>2, <1>3, <1>4, <1>5, <1>6 DEF Typed, SearchTypeOK, Called
<1>8. OnPath /\ Starting /\ Outside
  BY <1>1, <1>2, <1>3 DEF OnPath, Starting, Outside, Searching
<1>9. \A s \in Tried : \A d : ~Passed(s, d)
  <2>1. \A s \in Tried : ~(s < start)
    <3>1. CASE single
      BY <1>2, <3>1 DEF Tried
    <3>2. CASE ~single
      BY <1>2, <1>3, <3>2 DEF Tried, CsrNodes
    <3> QED BY <3>1, <3>2
  <2> QED BY <1>1, <2>1 DEF Passed, Searching
<1>10. Complete
  BY <1>9 DEF Complete
<1>11. Sound
  BY <1>1 DEF Sound
<1> QED BY <1>7, <1>8, <1>10, <1>11 DEF PInv

\* Every step of the search keeps the invariant.
LEMMA NextPInv == PInv /\ [SearchNext]_searchVars => PInv'
<1> SUFFICES ASSUME PInv, [SearchNext]_searchVars PROVE PInv'
  OBVIOUS
<1>1. CASE UNCHANGED searchVars
  <2>1. UNCHANGED <<call, start, nodes, row, pos, bound, ei, pc, matches>>
    BY <1>1 DEF searchVars
  <2>2. /\ UNCHANGED <<rows, pattern, limit, single>> /\ EdgeCount' = EdgeCount /\ Vars' = Vars
        /\ Tried' = Tried /\ Found' = Found
        /\ \A e : FromVar(e)' = FromVar(e) /\ EndsInBound(e)' = EndsInBound(e)
        /\ \A s, d : Binding(s, d)' = Binding(s, d) /\ MatchOf(s, d)' = MatchOf(s, d)
        /\ \A s, k : Embeddings(s, k)' = Embeddings(s, k)
        /\ \A s : LeadsOutside(s)' = LeadsOutside(s)
        /\ \A d : Ordered(d)' = Ordered(d)
    BY <2>1, SameCall, SameTried
  <2>3. Typed'
    BY <2>1, <2>2 DEF PInv, Typed, SearchTypeOK
  <2>4. OnPath'
    <3>1. Searching => Matched(start', nodes', row', ei' - 1)
      BY <2>1 DEF PInv, OnPath
    <3>2. Searching => Matched(start, nodes, row, ei - 1)'
      BY <2>1, <3>1, MatchedNext
    <3>3. FromVar(ei)' = FromVar(ei) /\ \A e : Open(e)' = Open(e)
      BY <2>1, <2>2 DEF FromVar, Open
    <3> QED BY <2>1, <2>2, <3>2, <3>3 DEF PInv, OnPath, Searching
  <2>5. Starting' /\ Outside'
    BY <2>1, <2>2 DEF PInv, Starting, Outside, Searching
  <2>6. \A s, d : Passed(s, d)' = Passed(s, d)
    BY <2>1, <2>2 DEF Passed, Searching
  <2>7. Complete'
    BY <2>1, <2>2, <2>6 DEF PInv, Complete, Handled
  <2>8. Sound'
    BY <2>1, <2>2, <2>6 DEF PInv, Sound
  <2> QED BY <2>3, <2>4, <2>5, <2>7, <2>8 DEF PInv
<1> QED BY <1>1, BeginStartKeeps, AllTriedKeeps, EnterReturnsKeeps, EnterCompleteKeeps,
           EnterFailsKeeps, EnterLoopKeeps, SkipKeeps, TakeKeeps, LoopEndsKeeps
        DEF SearchNext, Step, Ended

\* The invariant of every behaviour of the search.
LEMMA SpecPInv == SearchSpec => []PInv
BY InitPInv, NextPInv, PTL DEF SearchSpec

\* The search state that dfs shares between its calls follows the recursion.
THEOREM StateIsThatOfRecursion == SearchSpec => []StateFollowsRecursion
<1>1. PInv => StateFollowsRecursion
  BY DEF PInv, Typed, StateFollowsRecursion, OnPath, Searching, Matched, Joins, FromVar, ToVar
<1> QED BY <1>1, SpecPInv, PTL

\* At the end of a call that its limit has not cut short, the search is past
\* everything there is to choose.
LEMMA EndPassesAll ==
    ASSUME PInv, pc = "done", Len(matches) < limit
    PROVE  \A s \in Tried : \A k \in 0..EdgeCount : \A d \in Embeddings(s, k) : Handled(s, d, k)
<1>1. Typed /\ Starting /\ Complete
  BY DEF PInv
<1>2. NodeCount \in Nat /\ (~single => Tried = CsrNodes) /\ Tried \subseteq Nat
  BY <1>1, Types
<1>3. \A s \in Tried : \A d : Passed(s, d)
  <2>1. CASE single
    BY <2>1 DEF Passed
  <2>2. CASE ~single
    <3>1. \A s \in Tried : s < start
      BY <1>1, <1>2, <2>2 DEF Starting, CsrNodes
    <3> QED BY <3>1 DEF Passed
  <2> QED BY <2>1, <2>2
<1> QED BY <1>1, <1>3 DEF Complete

\* find and find_from return an error only if some matching of a prefix of the
\* pattern leads to an id that is no node, and always do unless the limit is
\* reached first.
THEOREM FailureIsExact == SearchSpec => []FailsIffOutside
<1>1. ASSUME PInv, pc = "done", Len(matches) < limit, NEW s \in Tried, LeadsOutside(s) PROVE FALSE
  <2>0. EdgeCount \in Nat
    BY <1>1, Types DEF PInv
  <2>1. PICK k \in 0..(EdgeCount - 1) : \E c \in Embeddings(s, k) :
             Binding(s, c)[FromVar(k + 1)] \notin CsrNodes \cup {Unbound}
    BY <1>1 DEF LeadsOutside, FromVar
  <2>2. PICK c \in Embeddings(s, k) : Binding(s, c)[FromVar(k + 1)] \notin CsrNodes \cup {Unbound}
    BY <2>1
  <2>3. k \in 0..EdgeCount /\ k < EdgeCount
    BY <2>0
  <2>4. Handled(s, c, k)
    BY <1>1, <2>3, EndPassesAll
  <2> QED BY <2>2, <2>3, <2>4 DEF Handled
<1>2. PInv => FailsIffOutside
  BY <1>1 DEF PInv, Outside, FailsIffOutside
<1> QED BY <1>2, SpecPInv, PTL

\* There are finitely many ways to choose a row for each edge.
LEMMA FiniteChoices ==
    ASSUME NEW m \in Nat, NEW l \in Nat
    PROVE  IsFiniteSet([1..m -> 1..l])
<1> DEFINE F == [1..m -> 1..l]
           P == (1..m) \X (1..l)
           g == [c \in F |-> {x \in P : c[x[1]] = x[2]}]
<1>1. IsFiniteSet(SUBSET P)
  <2>1. 1 \in Int /\ m \in Int /\ l \in Int
    OBVIOUS
  <2>2. IsFiniteSet(1..m) /\ IsFiniteSet(1..l)
    BY <2>1, FS_Interval
  <2>3. IsFiniteSet(P)
    BY <2>2, FS_Product
  <2> HIDE DEF P
  <2> QED BY <2>3, FS_SUBSET
<1>2. \A c \in F : g[c] \in SUBSET P
  OBVIOUS
<1>3. ASSUME NEW c \in F, NEW d \in F, g[c] = g[d] PROVE c = d
  <2>1. ASSUME NEW e \in 1..m PROVE c[e] = d[e]
    <3>1. <<e, c[e]>> \in P
      OBVIOUS
    <3>2. <<e, c[e]>> \in g[c]
      BY <3>1
    <3>3. <<e, c[e]>> \in g[d]
      BY <1>3, <3>2
    <3> QED BY <3>3
  <2> QED BY <2>1
<1>4. g \in [F -> SUBSET P]
  BY <1>2
<1>5. g \in Injection(F, SUBSET P)
  <2> HIDE DEF g, F, P
  <2> QED BY <1>3, <1>4 DEF Injection, IsInjective
<1> HIDE DEF g, F, P
<1>6. IsFiniteSet(F)
  BY <1>1, <1>5, FS_Injection
<1> QED BY <1>6 DEF F

\* So there are finitely many matches.
LEMMA FiniteFound == ASSUME Typed PROVE IsFiniteSet(Found)
<1>1. /\ EdgeCount \in Nat /\ Len(rows) \in Nat /\ DOMAIN rows = 1..Len(rows) /\ NodeCount \in Nat
      /\ (single => Tried = {start}) /\ (~single => Tried = CsrNodes) /\ single \in BOOLEAN
  BY Types DEF Typed, SearchTypeOK
<1>2. IsFiniteSet(Tried)
  <2>1. CASE single
    BY <1>1, <2>1, FS_Singleton
  <2>2. CASE ~single
    <3>1. 0 \in Int /\ NodeCount - 1 \in Int
      BY <1>1
    <3> QED BY <1>1, <2>2, <3>1, FS_Interval DEF CsrNodes
  <2> QED BY <2>1, <2>2
<1> DEFINE F == [1..EdgeCount -> DOMAIN rows]
           P == {x \in Tried \X F : x[2] \in Embeddings(x[1], EdgeCount) /\ Ordered(x[2])}
           g == [x \in P |-> MatchOf(x[1], x[2])]
<1>3. IsFiniteSet(F)
  BY <1>1, FiniteChoices
<1>4. IsFiniteSet(Tried \X F)
  <2> HIDE DEF F
  <2> QED BY <1>2, <1>3, FS_Product
<1>5. IsFiniteSet(P)
  <2>1. P \in SUBSET (Tried \X F)
    OBVIOUS
  <2> HIDE DEF P, F
  <2> QED BY <1>4, <2>1, FS_Subset
<1>6. ASSUME NEW y PROVE y \in Found <=> \E x \in P : g[x] = y
  <2>1. ASSUME y \in Found PROVE \E x \in P : g[x] = y
    <3>1. PICK s \in Tried : \E d \in Embeddings(s, EdgeCount) : Ordered(d) /\ y = MatchOf(s, d)
      BY <2>1, FoundIs
    <3>2. PICK d \in Embeddings(s, EdgeCount) : Ordered(d) /\ y = MatchOf(s, d)
      BY <3>1
    <3>3. d \in F
      BY EmbeddingParts
    <3>4. <<s, d>> \in P
      BY <3>2, <3>3
    <3>5. g[<<s, d>>] = MatchOf(s, d)
      BY <3>4
    <3> HIDE DEF g, P
    <3> QED BY <3>2, <3>4, <3>5
  <2>2. ASSUME NEW x \in P, g[x] = y PROVE y \in Found
    BY <2>2, FoundIs
  <2> QED BY <2>1, <2>2
<1>7. g \in Surjection(P, Found)
  <2>1. DOMAIN g = P /\ g = [x \in P |-> g[x]]
    OBVIOUS
  <2> HIDE DEF g, P
  <2>2. \A x \in P : g[x] \in Found
    BY <1>6
  <2>3. g \in [P -> Found]
    BY <2>1, <2>2
  <2> QED BY <1>6, <2>3 DEF Surjection
<1> HIDE DEF g, P
<1> QED BY <1>5, <1>7, FS_Surjection

\* find and find_from return exactly the matches there are, each once, and no
\* fewer than the limit while there are more.
THEOREM ResultIsExact == SearchSpec => []FoundExact
<1>1. ASSUME PInv, pc = "done" PROVE FoundExact
  <2>0. /\ Typed /\ EdgeCount \in Nat /\ limit \in Nat
        /\ matches \in Seq(Found) /\ \A g, h \in DOMAIN matches : matches[g] = matches[h] => g = h
    BY <1>1, Types DEF PInv, Sound
  <2> DEFINE l == Len(matches)
  <2>1. l \in Nat /\ DOMAIN matches = 1..l /\ matches \in [1..l -> Found] /\ l <= limit
    BY <2>0 DEF Typed, SearchTypeOK
  <2> HIDE DEF l
  <2>2. IsFiniteSet(Found)
    BY <2>0, FiniteFound
  <2>3. Cardinality(Found) \in Nat
    BY <2>2, FS_CardinalityType
  <2>4. matches \in Injection(1..l, Found)
    BY <2>0, <2>1 DEF Injection, IsInjective
  <2>5. Cardinality(1..l) = l
    <3>1. 1 \in Int /\ l \in Int
      BY <2>1
    <3> QED BY <2>1, <3>1, FS_Interval
  <2>6. l <= Cardinality(Found) /\ (l = Cardinality(Found) <=> matches \in Surjection(1..l, Found))
    BY <2>2, <2>4, <2>5, FS_Injection
  <2>7. ASSUME l < limit PROVE l = Cardinality(Found)
    <3>1. ASSUME NEW x \in Found PROVE \E i \in 1..l : matches[i] = x
      <4>1. PICK s \in Tried : \E d \in Embeddings(s, EdgeCount) : Ordered(d) /\ x = MatchOf(s, d)
        BY FoundIs
      <4>2. PICK d \in Embeddings(s, EdgeCount) : Ordered(d) /\ x = MatchOf(s, d)
        BY <4>1
      <4>3. EdgeCount \in 0..EdgeCount
        BY <2>0
      <4>4. Handled(s, d, EdgeCount)
        BY <1>1, <2>7, <4>3, EndPassesAll DEF l
      <4> QED BY <2>1, <4>2, <4>4 DEF Handled
    <3>2. matches \in Surjection(1..l, Found)
      BY <2>1, <3>1 DEF Surjection
    <3> QED BY <2>6, <3>2
  <2>8. l = (IF Cardinality(Found) < limit THEN Cardinality(Found) ELSE limit)
    BY <2>0, <2>1, <2>3, <2>6, <2>7
  <2>9. \A i \in DOMAIN matches : matches[i] \in Found
    BY <2>1
  <2> QED BY <2>0, <2>8, <2>9 DEF FoundExact, l
<1>2. PInv => FoundExact
  BY <1>1 DEF FoundExact
<1> QED BY <1>2, SpecPInv, PTL
================================================================================
