------------------------------ MODULE ColumnProofs ------------------------------
(***************************************************************************)
(* The passes over columns, proved for columns of every length.            *)
(*                                                                         *)
(* BucketJoin: for every chunk size, bucket width, tolerance and           *)
(* interleaving of the workers, the parallel joins read within their       *)
(* columns, store each row once and answer what the row-by-row reference   *)
(* answers.                                                                *)
(*                                                                         *)
(* RollingWindow: for every window size and integer width, mavg, msum and  *)
(* deltas put out what their definitions say.                              *)
(*                                                                         *)
(* AsofJoin, as the instance Asof: each left time gets its as-of match,    *)
(* whatever the order of the left times, as long as the right times        *)
(* ascend.                                                                 *)
(***************************************************************************)
EXTENDS BucketJoin, RollingWindow, FiniteSetTheorems, TLAPS

\* Multiplying by a number keeps the order.
LEMMA Scaled ==
    ASSUME NEW a \in Int, NEW b \in Int, a <= b, NEW w \in Nat
    PROVE  a * w \in Int /\ b * w \in Int /\ a * w <= b * w
<1>1. (b - a) * w >= 0
  <2>1. b - a \in Nat
    OBVIOUS
  <2> DEFINE d == b - a
  <2> HIDE DEF d
  <2>2. d \in Nat
    BY <2>1 DEF d
  <2>3. d * w >= 0
    BY <2>2
  <2> QED BY <2>3 DEF d
<1>2. (b - a) * w = b * w - a * w /\ a * w \in Int /\ b * w \in Int
  OBVIOUS
<1> QED BY <1>1, <1>2

\* A quotient, rounded down.
LEMMA Quotient ==
    ASSUME NEW x \in Int, NEW w \in Nat \ {0}
    PROVE  /\ x \div w \in Int
           /\ (x \div w) * w <= x /\ x < (x \div w) * w + w
           /\ x >= 0 => x \div w >= 0
OBVIOUS

\* A number is below c widths iff its quotient is below c.
LEMMA BelowMultiple ==
    ASSUME NEW x \in Int, NEW w \in Nat \ {0}, NEW c \in Int
    PROVE  x \div w < c <=> x < c * w
<1> DEFINE q == x \div w
<1>1. q \in Int /\ q * w <= x /\ x < q * w + w
  BY Quotient
<1> HIDE DEF q
<1>2. CASE q < c
  <2>1. (q + 1) * w <= c * w /\ (q + 1) * w = q * w + w
    BY <1>1, <1>2, Scaled
  <2> QED BY <1>1, <1>2, <2>1 DEF q
<1>3. CASE c <= q
  <2>1. c * w <= q * w
    BY <1>1, <1>3, Scaled
  <2> QED BY <1>1, <1>3, <2>1 DEF q
<1> QED BY <1>1, <1>2, <1>3

\* A quotient grows with what is divided.
LEMMA QuotientOrder ==
    ASSUME NEW x \in Int, NEW y \in Int, x <= y, NEW w \in Nat \ {0}
    PROVE  x \div w <= y \div w
<1>1. x \div w \in Int /\ y \div w \in Int
  BY Quotient
<1>2. ~(y \div w < x \div w)
  <2> DEFINE c == x \div w
  <2>1. ~(c < c)
    BY <1>1
  <2>2. ~(x < c * w)
    BY <1>1, <2>1, BelowMultiple
  <2>3. ~(y < c * w)
    <3> HIDE DEF c
    <3>1. c * w \in Int
      BY <1>1 DEF c
    <3> QED BY <2>2, <3>1
  <2> QED BY <1>1, <2>3, BelowMultiple
<1> QED BY <1>1, <1>2

--------------------------------------------------------------------------------
\* The right rows before bucket b.
Before(b) == {i \in 1..Len(right) : right[i] < right[1] + b * width}

\* The call's arguments.
Called ==
    /\ variant \in Variants /\ left \in Columns(MaxLeft) /\ right \in Columns(MaxRight)
    /\ tol \in Tolerances /\ width \in Widths

\* The parameters the code asks nothing more of.
LEMMA Parameters ==
    ASSUME Called
    PROVE  /\ Len(left) \in Nat /\ left \in [1..Len(left) -> Int] /\ Ascending(left)
           /\ Len(right) \in Nat /\ right \in [1..Len(right) -> Int] /\ Ascending(right)
           /\ tol \in Nat /\ width \in Nat \ {0} /\ Chunk \in Nat \ {0}
           /\ variant.bucketed \in BOOLEAN /\ variant.gather \in BOOLEAN
           /\ variant.fill \in {-1, 0} /\ (variant.gather => variant.bucketed)
<1> USE BucketJoinAssumption, ColumnsAssumption
<1>1. tol \in Nat /\ width \in Nat \ {0} /\ Chunk \in Nat \ {0}
  BY DEF Called
<1>2. ASSUME NEW m \in Nat, NEW s \in Columns(m)
      PROVE  Len(s) \in Nat /\ s \in [1..Len(s) -> Int] /\ Ascending(s)
  <2>1. PICK len \in 0..m : s \in [1..len -> Times]
    BY DEF Columns, ColumnsUpTo
  <2>2. len \in Nat /\ Len(s) = len
    BY <2>1
  <2>3. Ascending(s)
    BY DEF Columns
  <2> QED BY <2>1, <2>2, <2>3
<1>3. /\ variant.bucketed \in BOOLEAN /\ variant.gather \in BOOLEAN
      /\ variant.fill \in {-1, 0} /\ (variant.gather => variant.bucketed)
  <2>1. variant \in {Fast, L2Bucket, Ultimate, Fused, Cuda}
    BY DEF Called
  <2> USE DEF Fast, L2Bucket, Ultimate, Fused, Cuda, None, Unwritten
  <2>2. CASE variant = Fast
    BY <2>2
  <2>3. CASE variant = L2Bucket
    BY <2>3
  <2>4. CASE variant = Ultimate
    BY <2>4
  <2>5. CASE variant = Fused
    BY <2>5
  <2>6. CASE variant = Cuda
    BY <2>6
  <2> QED BY <2>1, <2>2, <2>3, <2>4, <2>5, <2>6
<1> QED BY <1>1, <1>2, <1>3 DEF Called

\* The chunks are consecutive runs of left rows that cover all of them.
LEMMA ChunkRows ==
    ASSUME Called
    PROVE  /\ \A c \in Chunks : /\ c \in Nat /\ First(c) \in Nat /\ Last(c) \in Nat
                                /\ 1 <= First(c) /\ First(c) <= Last(c) /\ Last(c) <= Len(left)
           /\ \A c, d \in Chunks : c < d => Last(c) < First(d)
           /\ \A i \in Rows : \E c \in Chunks : i \in First(c)..Last(c)
<1> DEFINE L == Len(left)
           q == (L + Chunk - 1) \div Chunk
<1>0. L \in Nat /\ Chunk \in Nat \ {0}
  BY Parameters
<1>1. q \in Int /\ q * Chunk <= L + Chunk - 1 /\ L + Chunk - 1 < q * Chunk + Chunk
  <2> DEFINE x == L + Chunk - 1
  <2>1. x \in Int
    BY <1>0
  <2> HIDE DEF x
  <2>2. x \div Chunk \in Int /\ (x \div Chunk) * Chunk <= x /\ x < (x \div Chunk) * Chunk + Chunk
    BY <1>0, <2>1, Quotient
  <2> QED BY <2>2 DEF x
<1>2. Chunks = 1..q /\ Rows = 1..L
  BY DEF Chunks, Rows
<1> HIDE DEF L, q
<1>3. ASSUME NEW c \in 1..q
      PROVE  /\ c \in Nat /\ c * Chunk \in Nat /\ First(c) = c * Chunk - Chunk + 1
             /\ First(c) <= L /\ 1 <= First(c)
             /\ Last(c) = IF c * Chunk < L THEN c * Chunk ELSE L
  <2>0. c \in Nat /\ c - 1 \in Nat /\ c <= q
    BY <1>1
  <2>1. c * Chunk \in Int /\ c * Chunk <= q * Chunk /\ q * Chunk \in Int
    BY <1>0, <1>1, <2>0, Scaled
  <2>2. (c - 1) * Chunk = c * Chunk - Chunk
    BY <1>0, <2>0
  <2>3. 0 * Chunk <= (c - 1) * Chunk /\ 0 * Chunk = 0
    BY <1>0, <2>0, Scaled
  <2> QED BY <1>0, <1>1, <2>0, <2>1, <2>2, <2>3 DEF First, Last, L
<1>4. ASSUME NEW c \in 1..q
      PROVE  /\ c \in Nat /\ First(c) \in Nat /\ Last(c) \in Nat
             /\ 1 <= First(c) /\ First(c) <= Last(c) /\ Last(c) <= L
  BY <1>0, <1>3
<1>5. ASSUME NEW c \in 1..q, NEW d \in 1..q, c < d PROVE Last(c) < First(d)
  <2>0. c \in Int /\ d \in Int /\ c <= d - 1 /\ d - 1 \in Int
    BY <1>1, <1>5
  <2>1. c * Chunk <= (d - 1) * Chunk
    BY <1>0, <2>0, Scaled
  <2>2. (d - 1) * Chunk = d * Chunk - Chunk
    BY <1>0, <2>0
  <2> QED BY <1>0, <1>3, <2>1, <2>2
<1>6. ASSUME NEW i \in 1..L PROVE \E c \in 1..q : i \in First(c)..Last(c)
  <2> DEFINE x == i - 1
             b == x \div Chunk
  <2>1. x \in Int /\ x >= 0 /\ x < L
    BY <1>0
  <2>2. b \in Int /\ b * Chunk <= x /\ x < b * Chunk + Chunk /\ b >= 0
    <3> HIDE DEF x
    <3> QED BY <1>0, <2>1, Quotient
  <2> HIDE DEF b
  <2>3. (b + 1) * Chunk = b * Chunk + Chunk /\ b * Chunk \in Int /\ q * Chunk \in Int
    BY <1>0, <1>1, <2>2
  <2>4. b + 1 <= q
    <3>1. ~(q <= b)
      <4>1. q <= b => q * Chunk <= b * Chunk
        BY <1>0, <1>1, <2>2, Scaled
      <4> QED BY <1>0, <1>1, <2>1, <2>2, <2>3, <4>1
    <3> QED BY <1>1, <2>2, <3>1
  <2>5. b + 1 \in 1..q
    BY <1>1, <2>2, <2>4
  <2>6. i \in First(b + 1)..Last(b + 1)
    <3>1. /\ First(b + 1) = (b + 1) * Chunk - Chunk + 1
          /\ Last(b + 1) = IF (b + 1) * Chunk < L THEN (b + 1) * Chunk ELSE L
      BY <1>3, <2>5
    <3> QED BY <1>0, <2>1, <2>2, <2>3, <3>1
  <2> QED BY <2>5, <2>6
<1> QED BY <1>2, <1>4, <1>5, <1>6 DEF L
--------------------------------------------------------------------------------
\* The last right row not after left row i, and what the reference says of it.
Match(i)  == PartitionPoint(left[i])
Answer(i) == Reference(left[i])

\* Where the variables stand before the sweep, and what each pass may assume.
Shape ==
    /\ pos \in [Chunks -> Nat]
    /\ pc = "call" => row = 1 /\ bcurr = 0
    /\ pc = "index" => variant.bucketed
    /\ pc = "gather" => variant.gather
    /\ pc \in {"index", "sweep", "gather"} /\ variant.bucketed => left # <<>> /\ right # <<>>
    /\ pc \in {"call", "index"} => \A c \in Chunks : ptr[c] = -1 /\ pos[c] = First(c)

\* The build loop has filled the buckets up to that of the last row it passed.
Indexing ==
    pc = "index" =>
        /\ bcurr = IF row = 1 THEN 0 ELSE BucketOf(right[row - 1]) + 1
        /\ \A b \in 0..NumBuckets : b < bcurr => offsets[b] = Cardinality(Before(b))

\* A chunk's pointer never overtakes the match of the left row it is at, except
\* that the bucketed variants start no lower than the first right row.
Chasing ==
    pc = "sweep" => \A c \in Chunks :
        /\ ptr[c] = -1 => pos[c] = First(c)
        /\ \A i \in First(c)..Last(c) :
              ptr[c] # -1 /\ i = pos[c] => ptr[c] <= Match(i) \/ (variant.bucketed /\ ptr[c] = 1)

\* Row i holds its answer.
Settled(i) ==
    out[i] = Answer(i) /\ writes[i] \in IF variant.bucketed THEN {1} ELSE {0, 1}

\* What is stored for the rows each pass has and has not come to.
Storing ==
    /\ pc \in {"call", "index"} => \A i \in Rows : writes[i] = 0
    /\ pc \in {"sweep", "gather"} =>
          \A c \in Chunks : \A i \in First(c)..Last(c) :
              IF i >= pos[c] \/ (pc = "sweep" /\ variant.gather) THEN writes[i] = 0 ELSE Settled(i)
    /\ pc = "sweep" /\ variant.gather =>
          \A c \in Chunks : \A i \in First(c)..Last(c) : i < pos[c] => matched[i] = Answer(i)
    /\ pc = "gather" => \A i \in Rows : matched[i] = Answer(i)
    /\ pc = "returned" => \A i \in Rows : Settled(i)

Inv == UncheckedInRange /\ Shape /\ Indexing /\ Chasing /\ Storing

--------------------------------------------------------------------------------
\* The number of members of an initial run of 1..z says which they are.
LEMMA PrefixCount ==
    ASSUME NEW z \in Nat, NEW D \in SUBSET (1..z), \A p \in D : \A q \in 1..z : q <= p => q \in D
    PROVE  Cardinality(D) \in 0..z /\ \A r \in 1..z : r \in D <=> r <= Cardinality(D)
<1>1. \A k \in 0..z : IsFiniteSet(1..k) /\ Cardinality(1..k) = k
  <2> SUFFICES ASSUME NEW k \in 0..z PROVE IsFiniteSet(1..k) /\ Cardinality(1..k) = k
    OBVIOUS
  <2>1. 1 \in Int /\ k \in Int /\ k >= 0
    OBVIOUS
  <2>2. IsFiniteSet(1..k) /\ Cardinality(1..k) = IF 1 > k THEN 0 ELSE k - 1 + 1
    BY <2>1, FS_Interval
  <2> QED BY <2>1, <2>2
<1>2. IsFiniteSet(D) /\ Cardinality(D) \in Nat /\ Cardinality(D) <= z
  <2>1. IsFiniteSet(1..z) /\ Cardinality(1..z) = z
    <3>1. z \in 0..z
      OBVIOUS
    <3> QED BY <1>1, <3>1
  <2>2. IsFiniteSet(D) /\ Cardinality(D) <= Cardinality(1..z)
    BY <2>1, FS_Subset
  <2>3. Cardinality(D) \in Nat
    BY <2>2, FS_CardinalityType
  <2> QED BY <2>1, <2>2, <2>3
<1>3. ASSUME NEW r \in 1..z, r \in D PROVE r <= Cardinality(D)
  <2>1. 1..r \in SUBSET D /\ r \in 0..z
    BY <1>3
  <2> QED BY <1>1, <1>2, <2>1, FS_Subset
<1>4. ASSUME NEW r \in 1..z, r \notin D PROVE Cardinality(D) < r
  <2>1. D \in SUBSET (1..(r - 1))
    <3>1. ASSUME NEW p \in D PROVE p \in 1..(r - 1)
      <4>1. p \in Int /\ 1 <= p /\ ~(r <= p)
        BY <1>4
      <4> QED BY <4>1
    <3> QED BY <3>1
  <2>2. r - 1 \in 0..z
    OBVIOUS
  <2>3. IsFiniteSet(1..(r - 1)) /\ Cardinality(1..(r - 1)) = r - 1
    BY <1>1, <2>2
  <2>4. Cardinality(D) <= Cardinality(1..(r - 1))
    BY <2>1, <2>3, FS_Subset
  <2> QED BY <1>2, <2>3, <2>4
<1> QED BY <1>2, <1>3, <1>4

\* partition_point counts exactly the right rows that are not after l.
LEMMA Partition ==
    ASSUME Called, NEW l \in Int
    PROVE  /\ PartitionPoint(l) \in 0..Len(right)
           /\ \A r \in 1..Len(right) : r <= PartitionPoint(l) <=> right[r] <= l
<1> DEFINE N == Len(right)
           D == {i \in 1..N : right[i] <= l}
<1>1. N \in Nat /\ right \in [1..N -> Int] /\ \A i, j \in 1..N : i < j => right[i] <= right[j]
  BY Parameters DEF Ascending
<1> HIDE DEF N
<1>2. \A p \in D : \A q \in 1..N : q <= p => q \in D
  <2> SUFFICES ASSUME NEW p \in D, NEW q \in 1..N, q <= p PROVE right[q] <= l
    OBVIOUS
  <2>1. right[q] <= right[p] /\ right[p] <= l /\ right[q] \in Int /\ right[p] \in Int
    <3>1. q = p \/ q < p
      BY <1>1
    <3> QED BY <1>1, <3>1
  <2> QED BY <2>1
<1>3. D \in SUBSET (1..N)
  OBVIOUS
<1>4. Cardinality(D) \in 0..N /\ \A r \in 1..N : r \in D <=> r <= Cardinality(D)
  <2> HIDE DEF D
  <2> QED BY <1>1, <1>2, <1>3, PrefixCount
<1>5. PartitionPoint(l) = Cardinality(D)
  BY DEF PartitionPoint, N
<1> QED BY <1>4, <1>5 DEF N

\* Buckets do not go back, and a row is before bucket b iff its own bucket is.
LEMMA Buckets ==
    ASSUME Called, right # <<>>
    PROVE  /\ Len(right) \in Nat \ {0} /\ right \in [1..Len(right) -> Int] /\ width \in Nat \ {0}
           /\ NumBuckets = BucketOf(right[Len(right)]) + 1 /\ NumBuckets \in Nat
           /\ \A t \in Int : BucketOf(t) \in Int /\ (right[1] <= t => BucketOf(t) \in Nat)
           /\ \A t, u \in Int : t <= u => BucketOf(t) <= BucketOf(u)
           /\ \A t \in Int, b \in Int : BucketOf(t) < b <=> t < right[1] + b * width
           /\ \A i, j \in 1..Len(right) : i <= j => right[i] <= right[j]
<1> DEFINE N == Len(right)
           r == right[1]
<1>1. N \in Nat /\ right \in [1..N -> Int] /\ width \in Nat \ {0} /\ Ascending(right)
  BY Parameters
<1>2. N # 0 /\ r \in Int /\ right[N] \in Int
  <2>1. N # 0
    <3>1. CASE N = 0
      <4>1. right = <<>>
        BY <1>1, <3>1
      <4> QED BY <4>1
    <3> QED BY <3>1
  <2> QED BY <1>1, <2>1
<1>3. \A i, j \in 1..N : i <= j => right[i] <= right[j]
  <2> SUFFICES ASSUME NEW i \in 1..N, NEW j \in 1..N, i <= j PROVE right[i] <= right[j]
    OBVIOUS
  <2>1. i = j \/ i < j
    BY <1>1
  <2>2. right[i] \in Int
    BY <1>1
  <2> QED BY <1>1, <2>1, <2>2 DEF Ascending
<1> HIDE DEF r
<1>4. ASSUME NEW t \in Int PROVE BucketOf(t) \in Int /\ (r <= t => BucketOf(t) \in Nat)
  <2>1. t - r \in Int /\ (r <= t => t - r >= 0)
    BY <1>2
  <2>2. (t - r) \div width \in Int /\ (t - r >= 0 => (t - r) \div width >= 0)
    BY <1>1, <2>1, Quotient
  <2> QED BY <2>1, <2>2 DEF BucketOf, r
<1>5. ASSUME NEW t \in Int, NEW u \in Int, t <= u PROVE BucketOf(t) <= BucketOf(u)
  <2>1. t - r \in Int /\ u - r \in Int /\ t - r <= u - r
    BY <1>2, <1>5
  <2>2. (t - r) \div width <= (u - r) \div width
    BY <1>1, <2>1, QuotientOrder
  <2> QED BY <2>2 DEF BucketOf, r
<1>6. ASSUME NEW t \in Int, NEW b \in Int PROVE BucketOf(t) < b <=> t < r + b * width
  <2>1. t - r \in Int /\ b * width \in Int
    BY <1>1, <1>2
  <2>2. (t - r) \div width < b <=> t - r < b * width
    BY <1>1, <2>1, BelowMultiple
  <2>3. t - r < b * width <=> t < r + b * width
    BY <1>2, <2>1
  <2> QED BY <2>2, <2>3 DEF BucketOf, r
<1>7. NumBuckets = BucketOf(right[N]) + 1 /\ NumBuckets \in Nat
  <2>1. r <= right[N]
    BY <1>1, <1>2, <1>3 DEF r
  <2>2. BucketOf(right[N]) \in Nat
    BY <1>2, <1>4, <2>1
  <2>3. NumBuckets = BucketOf(right[N]) + 1
    BY DEF NumBuckets
  <2> HIDE DEF N
  <2> QED BY <2>2, <2>3
<1> QED BY <1>1, <1>2, <1>3, <1>4, <1>5, <1>6, <1>7 DEF r

\* The rows before a bucket are an initial run of the right rows.
LEMMA RowsBefore ==
    ASSUME Called, right # <<>>, NEW b \in Int
    PROVE  /\ Cardinality(Before(b)) \in 0..Len(right)
           /\ \A r \in 1..Len(right) : r <= Cardinality(Before(b)) <=> BucketOf(right[r]) < b
<1> DEFINE N == Len(right)
           D == Before(b)
<1>1. /\ N \in Nat \ {0} /\ right \in [1..N -> Int]
      /\ \A t, u \in Int : t <= u => BucketOf(t) <= BucketOf(u)
      /\ \A t \in Int : BucketOf(t) \in Int
      /\ \A i, j \in 1..N : i <= j => right[i] <= right[j]
      /\ \A t \in Int : BucketOf(t) < b <=> t < right[1] + b * width
  BY Buckets
<1>2. D = {i \in 1..N : BucketOf(right[i]) < b}
  <2>1. \A i \in 1..N : BucketOf(right[i]) < b <=> right[i] < right[1] + b * width
    BY <1>1
  <2> HIDE DEF N
  <2> QED BY <2>1 DEF Before, N
<1> HIDE DEF N, D
<1>3. \A p \in D : \A q \in 1..N : q <= p => q \in D
  <2> SUFFICES ASSUME NEW p \in D, NEW q \in 1..N, q <= p PROVE BucketOf(right[q]) < b
    BY <1>2
  <2>1. p \in 1..N /\ BucketOf(right[p]) < b
    BY <1>2
  <2>2. right[q] \in Int /\ right[p] \in Int /\ right[q] <= right[p]
    BY <1>1, <2>1
  <2>3. BucketOf(right[q]) \in Int /\ BucketOf(right[p]) \in Int /\ BucketOf(right[q]) <= BucketOf(right[p])
    BY <1>1, <2>2
  <2> QED BY <2>1, <2>3
<1>4. D \in SUBSET (1..N) /\ N \in Nat
  BY <1>1, <1>2
<1>5. Cardinality(D) \in 0..N /\ \A r \in 1..N : r \in D <=> r <= Cardinality(D)
  BY <1>3, <1>4, PrefixCount
<1> QED BY <1>2, <1>5 DEF N, D

--------------------------------------------------------------------------------
\* A step that keeps the arguments keeps all that is defined from them.
LEMMA SameCall ==
    ASSUME UNCHANGED input
    PROVE  /\ Rows' = Rows /\ Chunks' = Chunks /\ NumBuckets' = NumBuckets
           /\ \A c : First(c)' = First(c) /\ Last(c)' = Last(c)
           /\ \A i : Match(i)' = Match(i) /\ Answer(i)' = Answer(i)
           /\ \A b : Before(b)' = Before(b)
           /\ \A t : BucketOf(t)' = BucketOf(t)
           /\ UNCHANGED <<variant, left, right, tol, width>>
<1>1. UNCHANGED <<variant, left, right, tol, width>>
  BY DEF input
<1>2. Rows' = Rows /\ Chunks' = Chunks /\ NumBuckets' = NumBuckets
  BY <1>1 DEF Rows, Chunks, NumBuckets, BucketOf
<1>3. \A c : First(c)' = First(c) /\ Last(c)' = Last(c)
  BY <1>1 DEF First, Last
<1>4. \A i : Match(i)' = Match(i) /\ Answer(i)' = Answer(i)
  BY <1>1 DEF Match, Answer, Reference, PartitionPoint
<1>5. \A b : Before(b)' = Before(b)
  BY <1>1 DEF Before
<1>6. \A t : BucketOf(t)' = BucketOf(t)
  BY <1>1 DEF BucketOf
<1> QED BY <1>1, <1>2, <1>3, <1>4, <1>5, <1>6

\* The arguments are typed in every state.
LEMMA InvCalled == Inv => Called
BY DEF Inv, UncheckedInRange, TypeOK, Called

\* The state of a call.
LEMMA InitInv == Init => Inv
<1> SUFFICES ASSUME Init PROVE Inv
  OBVIOUS
<1>1. Called
  BY DEF Init, Called
<1>2. Len(left) \in Nat /\ Len(right) \in Nat /\ variant.fill \in {-1, 0}
  BY <1>1, Parameters
<1>3. \A c \in Chunks : First(c) \in Nat /\ Last(c) \in Nat /\ First(c) <= Last(c)
  BY <1>1, ChunkRows
<1>4. pos \in [Chunks -> Nat] /\ \A c \in Chunks : pos[c] = First(c) /\ ptr[c] = -1
  BY <1>3 DEF Init
<1>5. \A c \in Chunks : pos[c] \in First(c)..(Last(c) + 1)
  BY <1>3, <1>4
<1>6. ptr \in [Chunks -> -1..Len(right)] /\ matched \in [Rows -> 0..Len(right)]
  BY <1>2 DEF Init, None
<1>7. out \in [Rows -> -1..Len(right)] /\ writes \in [Rows -> Nat] /\ \A i \in Rows : writes[i] = 0
  BY <1>2 DEF Init
<1>8. bcurr \in Nat /\ row \in 1..(Len(right) + 1)
  BY <1>2 DEF Init
<1>9. TypeOK
  BY <1>1, <1>5, <1>6, <1>7, <1>8 DEF Init, TypeOK, Called
<1>10. BucketsSound /\ Indexing /\ Chasing
  BY DEF Init, BucketsSound, Indexing, Chasing
<1>11. Shape
  BY <1>4 DEF Init, Shape
<1>12. Storing
  BY <1>7 DEF Init, Storing
<1> QED BY <1>4, <1>9, <1>10, <1>11, <1>12 DEF Inv, UncheckedInRange

\* With a column empty every answer is none.
LEMMA ReturnEarlyKeeps == ASSUME Inv, ReturnEarly PROVE Inv'
<1>0. /\ pc = "call" /\ Early /\ pc' = "returned" /\ UNCHANGED <<input, index, ptr, pos, matched>>
      /\ out' = [i \in Rows |-> None] /\ writes' = [i \in Rows |-> 1]
  BY DEF ReturnEarly
<1> USE SameCall, <1>0
<1>1. Called /\ TypeOK /\ Shape
  BY InvCalled DEF Inv, UncheckedInRange
<1>2. Len(left) \in Nat /\ Len(right) \in Nat
  BY <1>1, Parameters
<1>3. out' \in [Rows -> -1..Len(right)] /\ writes' \in [Rows -> Nat]
  BY <1>2 DEF None
<1>4. TypeOK'
  BY <1>1, <1>3 DEF TypeOK, index
<1>5. \A c \in Chunks : ptr[c] = -1
  BY <1>1 DEF Shape
<1>6. UncheckedInRange'
  BY <1>4, <1>5 DEF UncheckedInRange, BucketsSound
<1>7. Shape' /\ Indexing' /\ Chasing'
  BY <1>1 DEF Shape, Indexing, Chasing
<1>8. ASSUME NEW i \in Rows PROVE Answer(i) = None
  <2>1. left # <<>>
    <3>1. i \in 1..Len(left)
      BY DEF Rows
    <3> QED BY <3>1
  <2>2. Len(right) = 0
    BY <2>1 DEF Early
  <2>3. left[i] \in Int
    BY <1>1, Parameters DEF Rows
  <2>4. PartitionPoint(left[i]) = 0
    BY <1>1, <2>2, <2>3, Partition
  <2> QED BY <2>4 DEF Answer, Reference
<1>9. \A i \in Rows : Settled(i)'
  BY <1>8 DEF Settled, Early
<1>10. Storing'
  BY <1>9 DEF Storing
<1> QED BY <1>6, <1>7, <1>10 DEF Inv

\* The offsets are allocated, or the sweep begins.
LEMMA BeginKeeps == ASSUME Inv, Begin PROVE Inv'
<1>0. /\ pc = "call" /\ ~Early /\ UNCHANGED <<input, bcurr, row, ptr, pos, matched, out, writes>>
      /\ offsets' = IF variant.bucketed THEN [b \in 0..NumBuckets |-> 0] ELSE offsets
      /\ pc' = IF variant.bucketed THEN "index" ELSE "sweep"
  BY DEF Begin
<1> USE SameCall, <1>0
<1>1. Called /\ TypeOK /\ Shape /\ Storing
  BY InvCalled DEF Inv, UncheckedInRange
<1>2. /\ Len(right) \in Nat
      /\ variant.bucketed \in BOOLEAN /\ variant.gather \in BOOLEAN /\ (variant.gather => variant.bucketed)
  BY <1>1, Parameters
<1>3. TypeOK'
  <2>1. variant.bucketed => offsets' \in [0..NumBuckets -> 0..Len(right)]
    BY <1>2
  <2> QED BY <1>1, <2>1 DEF TypeOK
<1>4. \A c \in Chunks : ptr[c] = -1 /\ pos[c] = First(c)
  BY <1>1 DEF Shape
<1>5. UncheckedInRange'
  BY <1>2, <1>3, <1>4 DEF UncheckedInRange, BucketsSound
<1>6. Shape' /\ Chasing'
  BY <1>1, <1>2, <1>4 DEF Shape, Chasing, Early
<1>7. Indexing'
  <2> SUFFICES ASSUME variant.bucketed PROVE Indexing'
    BY <1>2 DEF Indexing
  <2>1. row = 1 /\ bcurr = 0
    BY <1>1 DEF Shape
  <2>2. \A b \in 0..NumBuckets : ~(b < 0)
    OBVIOUS
  <2> QED BY <2>1, <2>2 DEF Indexing
<1>8. Storing'
  <2>1. \A i \in Rows : writes[i] = 0
    BY <1>1 DEF Storing
  <2>2. ASSUME NEW c \in Chunks, NEW i \in First(c)..Last(c) PROVE i \in Rows /\ i >= pos[c]
    <3>1. First(c) \in Nat /\ Last(c) \in Nat /\ 1 <= First(c) /\ Last(c) <= Len(left) /\ Len(left) \in Nat
      BY <1>1, ChunkRows, Parameters
    <3> QED BY <1>4, <3>1 DEF Rows
  <2>3. \A c \in Chunks : \A i \in First(c)..Last(c) : ~(i < pos[c])
    <3> SUFFICES ASSUME NEW c \in Chunks, NEW i \in First(c)..Last(c) PROVE ~(i < pos[c])
      OBVIOUS
    <3>1. First(c) \in Nat /\ Last(c) \in Nat
      BY <1>1, ChunkRows
    <3> QED BY <1>4, <3>1
  <2> QED BY <1>2, <2>1, <2>2, <2>3 DEF Storing
<1> QED BY <1>5, <1>6, <1>7, <1>8 DEF Inv

\* One right row of the build loop starts the buckets after the last row's, up to
\* its own.
LEMMA IndexRowKeeps == ASSUME Inv, IndexRow PROVE Inv'
<1> DEFINE N == Len(right)
           b == BucketOf(right[row])
           prev == BucketOf(right[row - 1])
<1>0. /\ pc = "index" /\ row <= N /\ row' = row + 1
      /\ offsets' = [c \in 0..NumBuckets |-> IF c \in Starts(b) THEN row - 1 ELSE offsets[c]]
      /\ bcurr' = IF bcurr <= b THEN b + 1 ELSE bcurr
      /\ UNCHANGED <<input, pc, ptr, pos, matched, out, writes>>
  BY DEF IndexRow
<1>1. Called /\ TypeOK /\ Shape /\ Storing /\ Indexing /\ variant.bucketed /\ right # <<>>
  BY <1>0, InvCalled DEF Inv, UncheckedInRange, Shape
<1>2. /\ N \in Nat \ {0} /\ right \in [1..N -> Int]
      /\ NumBuckets = BucketOf(right[N]) + 1 /\ NumBuckets \in Nat
      /\ \A t \in Int : BucketOf(t) \in Int /\ (right[1] <= t => BucketOf(t) \in Nat)
      /\ \A t, u \in Int : t <= u => BucketOf(t) <= BucketOf(u)
      /\ \A i, j \in 1..N : i <= j => right[i] <= right[j]
  BY <1>1, Buckets
<1> HIDE DEF N
<1>3. row \in 1..N /\ 1 \in 1..N /\ N \in 1..N /\ right[row] \in Int
  <2>1. row \in 1..(N + 1)
    BY <1>1 DEF TypeOK, N
  <2>2. row \in 1..N /\ 1 \in 1..N /\ N \in 1..N
    BY <1>0, <1>2, <2>1
  <2> QED BY <1>2, <2>2
<1>4. b \in Nat /\ b < NumBuckets
  <2>1. right[1] <= right[row] /\ right[row] <= right[N] /\ right[N] \in Int
    BY <1>2, <1>3
  <2>2. /\ BucketOf(right[row]) <= BucketOf(right[N])
        /\ BucketOf(right[row]) \in Nat /\ BucketOf(right[N]) \in Int
    BY <1>2, <1>3, <2>1
  <2> QED BY <1>2, <2>2
<1>5. row # 1 => prev \in Int /\ prev <= b /\ row - 1 \in 1..N
  <2> SUFFICES ASSUME row # 1 PROVE prev \in Int /\ prev <= b /\ row - 1 \in 1..N
    OBVIOUS
  <2>1. row - 1 \in 1..N /\ row - 1 <= row
    BY <1>2, <1>3
  <2>2. right[row - 1] \in Int /\ right[row - 1] <= right[row]
    BY <1>2, <1>3, <2>1
  <2> QED BY <1>2, <1>3, <2>1, <2>2
<1>6. /\ bcurr = IF row = 1 THEN 0 ELSE prev + 1
      /\ \A c \in 0..NumBuckets : c < bcurr => offsets[c] = Cardinality(Before(c))
  BY <1>0, <1>1 DEF Indexing
<1> HIDE DEF b, prev
<1>7. bcurr \in Int /\ bcurr <= b + 1 /\ bcurr' = b + 1 /\ row - 1 \in 0..N /\ row \in Int
  <2>1. row \in Int /\ row - 1 \in 0..N
    BY <1>2, <1>3
  <2>2. bcurr \in Int /\ bcurr <= b + 1
    BY <1>4, <1>5, <1>6
  <2>3. bcurr' = b + 1
    BY <1>0, <1>4, <2>2
  <2> QED BY <2>1, <2>2, <2>3
<1>8. ASSUME NEW c \in 0..NumBuckets, c < b + 1 PROVE offsets'[c] = Cardinality(Before(c))
  <2>0. c \in Int
    OBVIOUS
  <2>1. offsets'[c] = IF c \in bcurr..b THEN row - 1 ELSE offsets[c]
    BY <1>0 DEF Starts
  <2>2. CASE c < bcurr
    BY <1>4, <1>6, <1>7, <2>0, <2>1, <2>2
  <2>3. CASE bcurr <= c
    <3> DEFINE K == Cardinality(Before(c))
    <3>1. K \in 0..N /\ \A r \in 1..N : r <= K <=> BucketOf(right[r]) < c
      BY <1>1, <2>0, RowsBefore DEF N
    <3> HIDE DEF K
    <3>2. ~(row <= K)
      <4>1. ~(b < c)
        BY <1>4, <1>8, <2>0
      <4> QED BY <1>3, <3>1, <4>1 DEF b
    <3>3. row # 1 => row - 1 <= K
      <4> SUFFICES ASSUME row # 1 PROVE row - 1 <= K
        OBVIOUS
      <4>1. prev < c
        BY <1>5, <1>6, <2>0, <2>3
      <4> QED BY <1>5, <3>1, <4>1 DEF prev
    <3>4. K = row - 1
      BY <1>2, <1>3, <1>7, <3>1, <3>2, <3>3
    <3>5. c \in bcurr..b
      BY <1>4, <1>7, <1>8, <2>0, <2>3
    <3> QED BY <2>1, <3>4, <3>5 DEF K
  <2> QED BY <1>7, <2>0, <2>2, <2>3
<1>9. offsets' \in [0..NumBuckets -> 0..N]
  <2>1. offsets \in [0..NumBuckets -> 0..N]
    BY <1>0, <1>1 DEF TypeOK, N
  <2> QED BY <1>0, <1>7, <2>1
<1>10. bcurr' \in Nat /\ row' \in 1..(N + 1)
  BY <1>0, <1>2, <1>3, <1>4, <1>7
<1> USE SameCall, <1>0
<1>11. TypeOK'
  BY <1>1, <1>9, <1>10 DEF TypeOK, N
<1>12. UncheckedInRange'
  BY <1>1, <1>11 DEF UncheckedInRange, BucketsSound, Shape
<1>13. Shape' /\ Chasing' /\ Storing'
  BY <1>1 DEF Shape, Chasing, Storing
<1>14. Indexing'
  <2>1. row' - 1 = row /\ row' # 1
    BY <1>3, <1>7
  <2>2. BucketOf(right[row - 1])' = b
    BY <2>1 DEF BucketOf, b
  <2> QED BY <1>7, <1>8, <2>1, <2>2 DEF Indexing
<1> QED BY <1>12, <1>13, <1>14 DEF Inv

\* The remaining buckets start past the end, and the index is what its comment says.
LEMMA IndexTailKeeps == ASSUME Inv, IndexTail PROVE Inv'
<1> DEFINE N == Len(right)
<1>0. /\ pc = "index" /\ row > N /\ pc' = "sweep"
      /\ offsets' = [b \in 0..NumBuckets |-> IF b >= bcurr THEN N ELSE offsets[b]]
      /\ UNCHANGED <<input, bcurr, row, ptr, pos, matched, out, writes>>
  BY DEF IndexTail
<1>1. /\ Called /\ TypeOK /\ Shape /\ Storing /\ Indexing
      /\ variant.bucketed /\ left # <<>> /\ right # <<>>
  BY <1>0, InvCalled DEF Inv, UncheckedInRange, Shape
<1>2. /\ N \in Nat \ {0} /\ right \in [1..N -> Int]
      /\ NumBuckets = BucketOf(right[N]) + 1 /\ NumBuckets \in Nat
  BY <1>1, Buckets
<1> HIDE DEF N
<1>3. row = N + 1 /\ row # 1 /\ row - 1 = N
  BY <1>0, <1>1, <1>2 DEF TypeOK, N
<1>4. bcurr = NumBuckets /\ \A b \in 0..NumBuckets : b < bcurr => offsets[b] = Cardinality(Before(b))
  BY <1>0, <1>1, <1>2, <1>3 DEF Indexing
<1>5. ASSUME NEW b \in 0..NumBuckets PROVE offsets'[b] = Cardinality(Before(b))
  <2>1. CASE b < NumBuckets
    BY <1>0, <1>2, <1>4, <2>1
  <2>2. CASE b = NumBuckets
    <3>1. /\ Cardinality(Before(b)) \in 0..N
          /\ \A r \in 1..N : r <= Cardinality(Before(b)) <=> BucketOf(right[r]) < b
      BY <1>1, <1>2, RowsBefore DEF N
    <3>2. BucketOf(right[N]) < b
      <4>1. BucketOf(right[N]) \in Int
        BY <1>1, <1>2, Buckets
      <4> QED BY <1>2, <2>2, <4>1
    <3>3. N \in 1..N
      BY <1>2
    <3>4. Cardinality(Before(b)) = N
      BY <1>2, <3>1, <3>2, <3>3
    <3> QED BY <1>0, <1>2, <1>4, <2>2, <3>4
  <2> QED BY <1>2, <2>1, <2>2
<1>6. offsets' \in [0..NumBuckets -> 0..N]
  <2>1. offsets \in [0..NumBuckets -> 0..N] /\ N \in 0..N
    BY <1>0, <1>1, <1>2 DEF TypeOK, N
  <2> QED BY <1>0, <2>1
<1> USE SameCall, <1>0
<1>7. TypeOK'
  BY <1>1, <1>6 DEF TypeOK, N
<1>8. BucketsSound'
  <2>1. \A b \in 0..NumBuckets :
            offsets'[b] = Cardinality({i \in 1..Len(right) : right[i] < right[1] + b * width})
    BY <1>5 DEF Before
  <2> QED BY <2>1 DEF BucketsSound
<1>9. \A c \in Chunks : ptr[c] = -1 /\ pos[c] = First(c)
  BY <1>1 DEF Shape
<1>10. UncheckedInRange'
  BY <1>7, <1>8, <1>9 DEF UncheckedInRange
<1>11. Shape' /\ Chasing' /\ Indexing'
  BY <1>1, <1>9 DEF Shape, Chasing, Indexing
<1>12. Storing'
  <2>1. \A i \in Rows : writes[i] = 0
    BY <1>1 DEF Storing
  <2>2. ASSUME NEW c \in Chunks, NEW i \in First(c)..Last(c)
        PROVE  i \in Rows /\ i >= pos[c] /\ ~(i < pos[c])
    <3>1. First(c) \in Nat /\ Last(c) \in Nat /\ 1 <= First(c) /\ Last(c) <= Len(left) /\ Len(left) \in Nat
      BY <1>1, ChunkRows, Parameters
    <3> QED BY <1>9, <3>1 DEF Rows
  <2> QED BY <2>1, <2>2 DEF Storing
<1> QED BY <1>10, <1>11, <1>12 DEF Inv

--------------------------------------------------------------------------------
\* A left row is in one chunk only.
LEMMA OneChunk ==
    ASSUME Called, NEW c \in Chunks, NEW i \in First(c)..Last(c)
    PROVE  /\ i \in Rows /\ i \in Int /\ \A d \in Chunks : i \in First(d)..Last(d) => d = c
<1>1. /\ c \in Nat /\ First(c) \in Nat /\ Last(c) \in Nat
      /\ 1 <= First(c) /\ Last(c) <= Len(left) /\ Len(left) \in Nat
  BY ChunkRows, Parameters
<1>2. i \in Rows /\ i \in Int
  BY <1>1 DEF Rows
<1>3. ASSUME NEW d \in Chunks, i \in First(d)..Last(d) PROVE d = c
  <2>1. d \in Nat /\ First(d) \in Nat /\ Last(d) \in Nat
    BY ChunkRows
  <2>2. ~(c < d)
    <3>1. c < d => Last(c) < First(d)
      BY ChunkRows
    <3> QED BY <1>1, <1>3, <2>1, <3>1
  <2>3. ~(d < c)
    <3>1. d < c => Last(d) < First(c)
      BY ChunkRows
    <3> QED BY <1>1, <1>3, <2>1, <3>1
  <2> QED BY <1>1, <2>1, <2>2, <2>3
<1> QED BY <1>2, <1>3

\* The match of a left row is the last right row not after it.
LEMMA MatchIs ==
    ASSUME Called, NEW i \in Rows
    PROVE  /\ left[i] \in Int /\ Len(right) \in Nat /\ right \in [1..Len(right) -> Int]
           /\ Match(i) \in 0..Len(right)
           /\ \A r \in 1..Len(right) : r <= Match(i) <=> right[r] <= left[i]
<1>1. left[i] \in Int /\ Len(right) \in Nat /\ right \in [1..Len(right) -> Int]
  BY Parameters DEF Rows
<1> DEFINE l == left[i]
<1>2. Match(i) = PartitionPoint(l) /\ l \in Int
  BY <1>1 DEF Match
<1> HIDE DEF l
<1>3. /\ PartitionPoint(l) \in 0..Len(right)
      /\ \A r \in 1..Len(right) : r <= PartitionPoint(l) <=> right[r] <= l
  BY <1>2, Partition
<1> QED BY <1>1, <1>2, <1>3 DEF l

\* The bucket of a left time starts no later than the time, so the row before it
\* is a right row that does not overtake the match.
LEMMA BucketStartIs ==
    ASSUME Called, right # <<>>, NEW i \in Rows,
           \A b \in 0..NumBuckets : offsets[b] = Cardinality(Before(b))
    PROVE  /\ BucketStart(left[i]) \in 1..Len(right)
           /\ BucketStart(left[i]) <= Match(i) \/ BucketStart(left[i]) = 1
<1> DEFINE N == Len(right)
           l == left[i]
           k == BucketIndex(l)
           s == offsets[k]
<1>1. /\ N \in Nat \ {0} /\ right \in [1..N -> Int]
      /\ NumBuckets \in Nat
      /\ \A t \in Int : BucketOf(t) \in Int /\ (right[1] <= t => BucketOf(t) \in Nat)
      /\ \A t, u \in Int : t <= u => BucketOf(t) <= BucketOf(u)
      /\ \A p, q \in 1..N : p <= q => right[p] <= right[q]
  BY Buckets
<1>2. l \in Int /\ Match(i) \in 0..N /\ \A r \in 1..N : r <= Match(i) <=> right[r] <= l
  BY MatchIs
<1> HIDE DEF N, l
<1>3. 1 \in 1..N /\ right[1] \in Int
  BY <1>1
<1>4. /\ k \in 0..NumBuckets
      /\ l < right[1] => k = 0
      /\ ~(l < right[1]) => k <= BucketOf(l) /\ BucketOf(l) \in Nat
  <2>1. CASE l < right[1]
    BY <1>1, <2>1 DEF BucketIndex
  <2>2. CASE ~(l < right[1])
    <3>1. right[1] <= l
      BY <1>2, <1>3, <2>2
    <3>2. BucketOf(l) \in Nat
      BY <1>1, <1>2, <3>1
    <3>3. k = IF BucketOf(l) < NumBuckets THEN BucketOf(l) ELSE NumBuckets
      BY <2>2 DEF BucketIndex
    <3>4. k \in 0..NumBuckets /\ k <= BucketOf(l)
      <4> DEFINE B == BucketOf(l)
                 M == NumBuckets
      <4>1. B \in Nat /\ M \in Nat /\ k = IF B < M THEN B ELSE M
        BY <1>1, <3>2, <3>3
      <4> HIDE DEF k, B, M
      <4>2. k \in 0..M /\ k <= B
        BY <4>1
      <4> QED BY <4>2 DEF B, M
    <3> QED BY <2>2, <3>2, <3>4
  <2> QED BY <2>1, <2>2
<1> HIDE DEF k
<1>5. s = Cardinality(Before(k)) /\ k \in Int
  BY <1>1, <1>4
<1>6. s \in 0..N /\ \A r \in 1..N : r <= s <=> BucketOf(right[r]) < k
  BY <1>5, RowsBefore DEF N
<1>7. BucketStart(l) = IF s > 0 THEN s ELSE 1
  BY DEF BucketStart, k
<1> HIDE DEF s
<1>8. ASSUME s > 0 PROVE s <= Match(i) /\ s \in 1..N
  <2>1. s \in 1..N
    BY <1>1, <1>6, <1>8
  <2>2. BucketOf(right[s]) < k /\ right[s] \in Int /\ right[1] <= right[s]
    <3>1. s <= s
      BY <2>1
    <3>2. BucketOf(right[s]) < k
      BY <1>6, <2>1, <3>1
    <3>3. 1 <= s
      BY <2>1
    <3> QED BY <1>1, <1>3, <2>1, <3>2, <3>3
  <2>3. BucketOf(right[s]) \in Nat
    BY <1>1, <2>2
  <2>4. ~(l < right[1]) /\ k <= BucketOf(l) /\ BucketOf(l) \in Nat
    BY <1>4, <2>2, <2>3
  <2>5. right[s] <= l
    <3>1. l <= right[s] => BucketOf(l) <= BucketOf(right[s])
      BY <1>1, <1>2, <2>2
    <3> QED BY <1>2, <1>5, <2>2, <2>3, <2>4, <3>1
  <2> QED BY <1>2, <2>1, <2>5
<1>9. BucketStart(l) \in 1..N /\ (BucketStart(l) <= Match(i) \/ BucketStart(l) = 1)
  BY <1>3, <1>6, <1>7, <1>8
<1> QED BY <1>9 DEF l, N

\* A worker starts its chunk.
LEMMA StartChunkKeeps == ASSUME Inv, NEW c \in Chunks, StartChunk(c) PROVE Inv'
<1> DEFINE N == Len(right)
           f == First(c)
           v == IF variant.bucketed THEN BucketStart(left[f]) ELSE PartitionPoint(left[f])
<1>0. /\ pc = "sweep" /\ ptr[c] = -1 /\ ptr' = [ptr EXCEPT ![c] = v]
      /\ UNCHANGED <<input, pc, index, pos, matched, out, writes>>
  BY DEF StartChunk
<1>1. /\ Called /\ TypeOK /\ BucketsSound /\ Shape /\ Storing /\ Chasing /\ Indexing
      /\ \A d \in Chunks : variant.bucketed /\ ptr[d] # -1 => ptr[d] \in 1..N
  BY InvCalled DEF Inv, UncheckedInRange
<1>2. f \in First(c)..Last(c) /\ f \in Rows
  <2>1. First(c) \in Nat /\ Last(c) \in Nat /\ First(c) <= Last(c)
    BY <1>1, ChunkRows
  <2>2. f \in First(c)..Last(c)
    BY <2>1
  <2> QED BY <1>1, <2>2, OneChunk
<1>3. N \in Nat /\ Match(f) \in 0..N /\ variant.bucketed \in BOOLEAN
  BY <1>1, <1>2, MatchIs, Parameters
<1>4. variant.bucketed => v \in 1..N /\ (v <= Match(f) \/ v = 1)
  <2> SUFFICES ASSUME variant.bucketed PROVE v \in 1..N /\ (v <= Match(f) \/ v = 1)
    OBVIOUS
  <2>1. right # <<>>
    BY <1>0, <1>1 DEF Shape
  <2>2. \A b \in 0..NumBuckets : offsets[b] = Cardinality(Before(b))
    BY <1>0, <1>1 DEF BucketsSound, Before
  <2> HIDE DEF f
  <2> QED BY <1>1, <1>2, <2>1, <2>2, BucketStartIs
<1>5. ~variant.bucketed => v = Match(f)
  BY DEF Match
<1>6. v \in 0..N /\ v # -1 /\ (v <= Match(f) \/ (variant.bucketed /\ v = 1))
  <2> HIDE DEF v, N, f
  <2> QED BY <1>3, <1>4, <1>5
<1>7. ptr \in [Chunks -> -1..N] /\ ptr' = [ptr EXCEPT ![c] = v]
  BY <1>0, <1>1 DEF TypeOK
<1> HIDE DEF v, N
<1>8. ptr' \in [Chunks -> -1..N] /\ ptr'[c] = v /\ \A d \in Chunks \ {c} : ptr'[d] = ptr[d]
  BY <1>3, <1>6, <1>7
<1> USE SameCall, <1>0
<1>9. TypeOK'
  BY <1>1, <1>8 DEF TypeOK, index, N
<1>10. UncheckedInRange'
  <2>1. BucketsSound'
    BY <1>1 DEF BucketsSound, index
  <2>2. \A d \in Chunks : variant.bucketed /\ ptr'[d] # -1 => ptr'[d] \in 1..N
    BY <1>1, <1>4, <1>8
  <2> QED BY <1>9, <2>1, <2>2 DEF UncheckedInRange, N
<1>11. Shape' /\ Indexing'
  BY <1>1 DEF Shape, Indexing
<1>12. Storing'
  BY <1>1 DEF Storing, Settled
<1>13. Chasing'
  <2>1. pos[c] = f
    BY <1>1 DEF Chasing
  <2>2. ASSUME NEW d \in Chunks
        PROVE  /\ ptr'[d] = -1 => pos[d] = First(d)
               /\ \A i \in First(d)..Last(d) :
                     ptr'[d] # -1 /\ i = pos[d] => ptr'[d] <= Match(i) \/ (variant.bucketed /\ ptr'[d] = 1)
    <3>1. CASE d = c
      BY <1>6, <1>8, <2>1, <3>1
    <3>2. CASE d # c
      BY <1>1, <1>8, <3>2 DEF Chasing
    <3> QED BY <3>1, <3>2
  <2> QED BY <2>2 DEF Chasing
<1> QED BY <1>10, <1>11, <1>12, <1>13 DEF Inv

\* The pointer passes a right row that is not after the left row.
LEMMA AdvanceKeeps == ASSUME Inv, NEW c \in Chunks, Advance(c) PROVE Inv'
<1> DEFINE N == Len(right)
           v == ptr[c] + 1
           i == pos[c]
<1>0. /\ pc = "sweep" /\ ptr[c] # -1 /\ i <= Last(c) /\ ptr[c] < N /\ right[v] <= left[i]
      /\ ptr' = [ptr EXCEPT ![c] = v]
      /\ UNCHANGED <<input, pc, index, pos, matched, out, writes>>
  BY DEF Advance, Sweeping, Passes
<1>1. /\ Called /\ TypeOK /\ BucketsSound /\ Shape /\ Storing /\ Chasing /\ Indexing
      /\ \A d \in Chunks : variant.bucketed /\ ptr[d] # -1 => ptr[d] \in 1..N
  BY InvCalled DEF Inv, UncheckedInRange
<1>2. i \in First(c)..Last(c) /\ i \in Rows
  <2>1. First(c) \in Nat /\ Last(c) \in Nat /\ i \in First(c)..(Last(c) + 1)
    BY <1>1, ChunkRows DEF TypeOK
  <2>2. i \in First(c)..Last(c)
    BY <1>0, <2>1
  <2> QED BY <1>1, <2>2, OneChunk
<1>3. N \in Nat /\ Match(i) \in 0..N /\ \A r \in 1..N : r <= Match(i) <=> right[r] <= left[i]
  BY <1>1, <1>2, MatchIs
<1>4. ptr \in [Chunks -> -1..N]
  BY <1>1 DEF TypeOK
<1> HIDE DEF N, i
<1>5. v \in 1..N /\ v # -1
  <2>1. ptr[c] \in -1..N
    BY <1>4
  <2> QED BY <1>0, <1>3, <2>1
<1>6. v <= Match(i)
  <2> HIDE DEF v
  <2> QED BY <1>0, <1>3, <1>5
<1> HIDE DEF v
<1>7. ptr' \in [Chunks -> -1..N] /\ ptr'[c] = v /\ \A d \in Chunks \ {c} : ptr'[d] = ptr[d]
  BY <1>0, <1>3, <1>4, <1>5
<1> USE SameCall, <1>0
<1>8. TypeOK'
  BY <1>1, <1>7 DEF TypeOK, index, N
<1>9. UncheckedInRange'
  <2>1. BucketsSound'
    BY <1>1 DEF BucketsSound, index
  <2>2. \A d \in Chunks : variant.bucketed /\ ptr'[d] # -1 => ptr'[d] \in 1..N
    BY <1>1, <1>5, <1>7
  <2> QED BY <1>8, <2>1, <2>2 DEF UncheckedInRange, N
<1>10. Shape' /\ Indexing'
  BY <1>1 DEF Shape, Indexing
<1>11. Storing'
  BY <1>1 DEF Storing, Settled
<1>12. Chasing'
  <2>1. ASSUME NEW d \in Chunks
        PROVE  /\ ptr'[d] = -1 => pos[d] = First(d)
               /\ \A k \in First(d)..Last(d) :
                     ptr'[d] # -1 /\ k = pos[d] => ptr'[d] <= Match(k) \/ (variant.bucketed /\ ptr'[d] = 1)
    <3>1. CASE d = c
      BY <1>5, <1>6, <1>7, <3>1 DEF i
    <3>2. CASE d # c
      BY <1>1, <1>7, <3>2 DEF Chasing
    <3> QED BY <3>1, <3>2
  <2> QED BY <2>1 DEF Chasing
<1> QED BY <1>9, <1>10, <1>11, <1>12 DEF Inv
\* When the sweep stops at a left row, what its pointer says is the reference's
\* answer.
LEMMA StoppedAtAnswer ==
    ASSUME Inv, NEW c \in Chunks, Sweeping(c), ~Passes(c)
    PROVE  (IF Hit(c) THEN ptr[c] ELSE None) = Answer(pos[c])
<1> DEFINE N == Len(right)
           i == pos[c]
           p == ptr[c]
           m == Match(i)
<1>0. pc = "sweep" /\ p # -1 /\ i <= Last(c) /\ ~(p < N /\ right[p + 1] <= left[i])
  BY DEF Sweeping, Passes
<1>1. /\ Called /\ TypeOK /\ Chasing /\ Shape
      /\ \A d \in Chunks : variant.bucketed /\ ptr[d] # -1 => ptr[d] \in 1..N
  BY InvCalled DEF Inv, UncheckedInRange
<1>2. i \in First(c)..Last(c) /\ i \in Rows
  <2>1. First(c) \in Nat /\ Last(c) \in Nat /\ i \in First(c)..(Last(c) + 1)
    BY <1>1, ChunkRows DEF TypeOK
  <2>2. i \in First(c)..Last(c)
    BY <1>0, <2>1
  <2> QED BY <1>1, <2>2, OneChunk
<1>3. /\ left[i] \in Int /\ N \in Nat /\ right \in [1..N -> Int] /\ m \in 0..N
      /\ \A r \in 1..N : r <= m <=> right[r] <= left[i]
  BY <1>1, <1>2, MatchIs
<1>4. tol \in Nat /\ variant.bucketed \in BOOLEAN
  BY <1>1, Parameters
<1>5. p \in 0..N
  <2>1. p \in -1..N
    BY <1>1 DEF TypeOK
  <2> QED BY <1>0, <1>3, <2>1
<1>6. p <= m \/ (variant.bucketed /\ p = 1)
  BY <1>0, <1>1, <1>2 DEF Chasing
<1>7. Hit(c) <=> p > 0 /\ (left[i] - right[p] >= 0 \/ ~variant.bucketed) /\ left[i] - right[p] <= tol
  BY DEF Hit
<1>8. Answer(i) = IF m > 0 /\ left[i] - right[m] <= tol THEN m ELSE None
  BY DEF Answer, Reference, Match
<1>9. variant.bucketed => p \in 1..N
  BY <1>0, <1>1
<1> HIDE DEF N, i, p, m
<1>10. CASE p <= m
  <2>1. p = m
    <3>1. CASE p < N
      <4>1. p + 1 \in 1..N /\ ~(right[p + 1] <= left[i])
        BY <1>0, <1>3, <1>5, <3>1
      <4>2. ~(p + 1 <= m)
        BY <1>3, <4>1
      <4> QED BY <1>3, <1>5, <1>10, <4>2
    <3>2. CASE p = N
      BY <1>3, <1>10, <3>2
    <3> QED BY <1>3, <1>5, <3>1, <3>2
  <2>2. p > 0 => left[i] - right[p] >= 0
    <3> SUFFICES ASSUME p > 0 PROVE left[i] - right[p] >= 0
      OBVIOUS
    <3>1. p \in 1..N
      BY <1>3, <1>5
    <3>2. right[p] <= left[i] /\ right[p] \in Int
      BY <1>3, <1>10, <3>1
    <3> QED BY <1>3, <3>2
  <2>3. Hit(c) <=> m > 0 /\ left[i] - right[m] <= tol
    BY <1>7, <2>1, <2>2
  <2>4. (IF Hit(c) THEN p ELSE None) = Answer(i)
    BY <1>8, <2>1, <2>3
  <2> QED BY <2>4 DEF i, p
<1>11. CASE ~(p <= m)
  <2>1. p = 1 /\ variant.bucketed /\ m = 0 /\ 1 \in 1..N
    BY <1>3, <1>6, <1>9, <1>11
  <2>2. ~(right[1] <= left[i]) /\ right[1] \in Int
    BY <1>3, <2>1
  <2>3. ~(left[i] - right[1] >= 0)
    BY <1>3, <2>2
  <2>4. ~Hit(c)
    BY <1>7, <2>1, <2>3
  <2>5. (IF Hit(c) THEN p ELSE None) = Answer(i)
    BY <1>8, <2>1, <2>4
  <2> QED BY <2>5 DEF i, p
<1> QED BY <1>10, <1>11

\* Matches do not go back along the left rows.
LEMMA MatchesAscend ==
    ASSUME Called, NEW i \in Rows, NEW k \in Rows, i <= k
    PROVE  Match(i) <= Match(k)
<1> DEFINE N == Len(right)
           m == Match(i)
<1>1. /\ left[i] \in Int /\ N \in Nat /\ right \in [1..N -> Int] /\ m \in 0..N
      /\ \A r \in 1..N : r <= m <=> right[r] <= left[i]
  BY MatchIs
<1>2. left[k] \in Int /\ Match(k) \in 0..N /\ \A r \in 1..N : r <= Match(k) <=> right[r] <= left[k]
  BY MatchIs
<1>3. left[i] <= left[k]
  <2>1. Len(left) \in Nat /\ Ascending(left)
    BY Parameters
  <2>2. i = k \/ i < k
    BY <2>1 DEF Rows
  <2> QED BY <1>1, <2>1, <2>2 DEF Ascending, Rows
<1> HIDE DEF N, m
<1>4. CASE m = 0
  BY <1>1, <1>2, <1>4 DEF m
<1>5. CASE m # 0
  <2>1. m \in 1..N /\ m <= m
    BY <1>1, <1>5
  <2>2. right[m] <= left[i] /\ right[m] \in Int
    BY <1>1, <2>1
  <2>3. right[m] <= left[k]
    BY <1>1, <1>2, <1>3, <2>2
  <2> QED BY <1>2, <2>1, <2>3 DEF m
<1> QED BY <1>4, <1>5

\* The worker stores its row and goes on to the next.
LEMMA EmitKeeps == ASSUME Inv, NEW c \in Chunks, Emit(c) PROVE Inv'
<1> DEFINE N == Len(right)
           i == pos[c]
           r == IF Hit(c) THEN ptr[c] ELSE None
<1>0. /\ pc = "sweep" /\ ptr[c] # -1 /\ i <= Last(c) /\ Sweeping(c) /\ ~Passes(c)
      /\ pos' = [pos EXCEPT ![c] = i + 1]
      /\ UNCHANGED <<input, pc, index, ptr>>
  BY DEF Emit, Sweeping
<1>1. /\ variant.gather => matched' = [matched EXCEPT ![i] = r] /\ UNCHANGED <<out, writes>>
      /\ ~variant.gather => /\ out' = [out EXCEPT ![i] = r] /\ UNCHANGED matched
                            /\ writes' = [writes EXCEPT ![i] = IF Hit(c) \/ variant.bucketed
                                                               THEN writes[i] + 1 ELSE writes[i]]
  BY DEF Emit
<1>2. /\ Called /\ TypeOK /\ BucketsSound /\ Shape /\ Storing /\ Chasing /\ Indexing
      /\ \A d \in Chunks : variant.bucketed /\ ptr[d] # -1 => ptr[d] \in 1..N
  BY InvCalled DEF Inv, UncheckedInRange
<1>3. i \in First(c)..Last(c) /\ i \in Rows /\ i \in Int /\ First(c) \in Nat /\ Last(c) \in Nat
  <2>1. First(c) \in Nat /\ Last(c) \in Nat /\ i \in First(c)..(Last(c) + 1)
    BY <1>2, ChunkRows DEF TypeOK
  <2>2. i \in First(c)..Last(c)
    BY <1>0, <2>1
  <2> QED BY <1>2, <2>1, <2>2, OneChunk
<1>4. r = Answer(i)
  BY <1>0, StoppedAtAnswer
<1>5. N \in Nat /\ Match(i) \in 0..N
  BY <1>2, <1>3, MatchIs
<1>6. variant.bucketed \in BOOLEAN /\ variant.gather \in BOOLEAN
  BY <1>2, Parameters
<1>7. r \in 0..N
  <2>1. ptr[c] \in -1..N
    BY <1>2 DEF TypeOK
  <2>2. ptr[c] \in 0..N
    BY <1>0, <1>5, <2>1
  <2> QED BY <1>5, <2>2 DEF None
<1>8. /\ pos \in [Chunks -> Nat] /\ writes \in [Rows -> Nat]
      /\ out \in [Rows -> -1..N] /\ matched \in [Rows -> 0..N]
  BY <1>2 DEF TypeOK, Shape
<1>9. writes[i] = 0
  <2>1. i >= pos[c]
    BY <1>3
  <2> QED BY <1>0, <1>2, <1>3, <2>1 DEF Storing
<1> DEFINE w == IF Hit(c) \/ variant.bucketed THEN 1 ELSE 0
<1>10. w \in IF variant.bucketed THEN {1} ELSE {0, 1}
  OBVIOUS
<1>11. /\ ~variant.gather => writes' = [writes EXCEPT ![i] = w]
  BY <1>1, <1>9
<1>12. w \in Nat
  OBVIOUS
<1> HIDE DEF r, i, N, w
<1>13. /\ pos' \in [Chunks -> Nat] /\ pos'[c] = i + 1 /\ \A d \in Chunks \ {c} : pos'[d] = pos[d]
  BY <1>0, <1>3, <1>8
<1>14. /\ writes' \in [Rows -> Nat] /\ out' \in [Rows -> -1..N] /\ matched' \in [Rows -> 0..N]
       /\ \A k \in Rows \ {i} : writes'[k] = writes[k] /\ out'[k] = out[k] /\ matched'[k] = matched[k]
  <2>1. r \in -1..N
    BY <1>5, <1>7
  <2>2. CASE variant.gather
    BY <1>1, <1>7, <1>8, <2>2
  <2>3. CASE ~variant.gather
    BY <1>1, <1>8, <1>11, <1>12, <2>1, <2>3
  <2> QED BY <2>2, <2>3
<1>15. /\ variant.gather => matched'[i] = Answer(i) /\ writes'[i] = 0
       /\ ~variant.gather => out'[i] = Answer(i) /\ writes'[i] \in IF variant.bucketed THEN {1} ELSE {0, 1}
  <2>1. CASE variant.gather
    BY <1>1, <1>3, <1>4, <1>8, <1>9, <2>1
  <2>2. CASE ~variant.gather
    BY <1>1, <1>3, <1>4, <1>8, <1>10, <1>11, <2>2
  <2> QED BY <2>1, <2>2
<1> USE SameCall, <1>0
<1>16. TypeOK'
  <2>1. ASSUME NEW d \in Chunks PROVE pos'[d] \in First(d)..(Last(d) + 1)
    <3>1. CASE d = c
      BY <1>3, <1>13, <3>1
    <3>2. CASE d # c
      BY <1>2, <1>13, <3>2 DEF TypeOK
    <3> QED BY <3>1, <3>2
  <2> QED BY <1>2, <1>14, <2>1 DEF TypeOK, index, N
<1>17. UncheckedInRange'
  <2>1. BucketsSound'
    BY <1>2 DEF BucketsSound, index
  <2> QED BY <1>2, <1>16, <2>1 DEF UncheckedInRange, N
<1>18. Shape' /\ Indexing'
  BY <1>2, <1>13 DEF Shape, Indexing
<1>19. Chasing'
  <2>1. ASSUME NEW d \in Chunks
        PROVE  /\ ptr[d] = -1 => pos'[d] = First(d)
               /\ \A k \in First(d)..Last(d) :
                     ptr[d] # -1 /\ k = pos'[d] => ptr[d] <= Match(k) \/ (variant.bucketed /\ ptr[d] = 1)
    <3>1. CASE d = c
      <4> SUFFICES ASSUME NEW k \in First(c)..Last(c), k = i + 1
                   PROVE  ptr[c] <= Match(k) \/ (variant.bucketed /\ ptr[c] = 1)
        BY <1>13, <3>1
      <4>1. ptr[c] <= Match(i) \/ (variant.bucketed /\ ptr[c] = 1)
        BY <1>2, <1>3 DEF Chasing, i
      <4>2. k \in Rows /\ i <= k
        BY <1>2, <1>3, OneChunk
      <4>3. Match(i) <= Match(k) /\ Match(k) \in 0..N
        BY <1>2, <1>3, <4>2, MatchesAscend, MatchIs DEF N
      <4>4. ptr[c] \in -1..N
        BY <1>2 DEF TypeOK, N
      <4> QED BY <1>5, <4>1, <4>3, <4>4
    <3>2. CASE d # c
      BY <1>2, <1>13, <3>2 DEF Chasing
    <3> QED BY <3>1, <3>2
  <2> QED BY <2>1 DEF Chasing
<1>20. Storing'
  <2>1. ASSUME NEW d \in Chunks, NEW k \in First(d)..Last(d)
        PROVE  /\ IF k >= pos'[d] \/ variant.gather THEN writes'[k] = 0
                  ELSE out'[k] = Answer(k) /\ writes'[k] \in IF variant.bucketed THEN {1} ELSE {0, 1}
               /\ variant.gather /\ k < pos'[d] => matched'[k] = Answer(k)
    <3>0. k \in Rows /\ k \in Int
      BY <1>2, OneChunk
    <3>1. /\ IF k >= pos[d] \/ variant.gather THEN writes[k] = 0
             ELSE out[k] = Answer(k) /\ writes[k] \in IF variant.bucketed THEN {1} ELSE {0, 1}
          /\ variant.gather /\ k < pos[d] => matched[k] = Answer(k)
      BY <1>2 DEF Storing, Settled
    <3>2. CASE k = i
      <4>1. d = c
        BY <1>2, <1>3, <3>2, OneChunk
      <4>2. ~(k >= pos'[d])
        BY <1>3, <1>13, <3>2, <4>1
      <4> QED BY <1>15, <3>2, <4>2
    <3>3. CASE k # i
      <4>1. writes'[k] = writes[k] /\ out'[k] = out[k] /\ matched'[k] = matched[k]
        BY <1>14, <3>0, <3>3
      <4>2. (k >= pos'[d] <=> k >= pos[d]) /\ (k < pos'[d] <=> k < pos[d])
        <5>1. CASE d = c
          BY <1>3, <1>13, <3>0, <3>3, <5>1 DEF i
        <5>2. CASE d # c
          BY <1>13, <5>2
        <5> QED BY <5>1, <5>2
      <4> QED BY <3>1, <4>1, <4>2
    <3> QED BY <3>2, <3>3
  <2> QED BY <2>1 DEF Storing, Settled
<1> QED BY <1>17, <1>18, <1>19, <1>20 DEF Inv
\* When every chunk is done, so is every row.
LEMMA AllPassed ==
    ASSUME Inv, \A c \in Chunks : pos[c] > Last(c), NEW i \in Rows
    PROVE  \E c \in Chunks : i \in First(c)..Last(c) /\ i < pos[c] /\ ~(i >= pos[c])
<1>1. Called /\ Shape
  BY InvCalled DEF Inv
<1>2. PICK c \in Chunks : i \in First(c)..Last(c)
  BY <1>1, ChunkRows
<1>3. First(c) \in Nat /\ Last(c) \in Nat /\ pos[c] \in Nat
  BY <1>1, ChunkRows DEF Shape
<1> QED BY <1>2, <1>3

\* The second pass begins with every match stored and no row written.
LEMMA StartGatherKeeps == ASSUME Inv, StartGather PROVE Inv'
<1>0. /\ pc = "sweep" /\ pc' = "gather" /\ variant.gather /\ \A c \in Chunks : pos[c] > Last(c)
      /\ pos' = [c \in Chunks |-> First(c)]
      /\ UNCHANGED <<input, index, ptr, matched, out, writes>>
  BY DEF StartGather, Swept
<1>1. /\ Called /\ TypeOK /\ BucketsSound /\ Shape /\ Storing
      /\ \A d \in Chunks : variant.bucketed /\ ptr[d] # -1 => ptr[d] \in 1..Len(right)
  BY InvCalled DEF Inv, UncheckedInRange
<1>2. \A c \in Chunks : First(c) \in Nat /\ Last(c) \in Nat /\ First(c) <= Last(c)
  BY <1>1, ChunkRows
<1>3. /\ pos' \in [Chunks -> Nat]
      /\ \A c \in Chunks : pos'[c] = First(c) /\ First(c) \in First(c)..(Last(c) + 1)
  BY <1>0, <1>2
<1>4. \A i \in Rows : matched[i] = Answer(i)
  BY <1>0, <1>1, AllPassed DEF Storing
<1> USE SameCall, <1>0
<1>5. TypeOK'
  BY <1>1, <1>3 DEF TypeOK, index
<1>6. UncheckedInRange'
  <2>1. BucketsSound'
    BY <1>1 DEF BucketsSound, index
  <2> QED BY <1>1, <1>5, <2>1 DEF UncheckedInRange
<1>7. Shape' /\ Indexing' /\ Chasing'
  BY <1>1, <1>3 DEF Shape, Indexing, Chasing
<1>8. Storing'
  <2>1. ASSUME NEW c \in Chunks, NEW i \in First(c)..Last(c) PROVE i >= pos'[c] /\ writes[i] = 0
    <3>1. writes[i] = 0
      BY <1>1 DEF Storing
    <3>2. i >= First(c)
      BY <1>2
    <3> QED BY <1>3, <3>1, <3>2
  <2> QED BY <1>4, <2>1 DEF Storing
<1> QED BY <1>6, <1>7, <1>8 DEF Inv

\* A worker of the second pass gathers a row.
LEMMA GatherKeeps == ASSUME Inv, NEW c \in Chunks, Gather(c) PROVE Inv'
<1> DEFINE N == Len(right)
           i == pos[c]
<1>0. /\ pc = "gather" /\ i <= Last(c)
      /\ out' = [out EXCEPT ![i] = matched[i]] /\ writes' = [writes EXCEPT ![i] = writes[i] + 1]
      /\ pos' = [pos EXCEPT ![c] = i + 1]
      /\ UNCHANGED <<input, pc, index, ptr, matched>>
  BY DEF Gather
<1>1. /\ Called /\ TypeOK /\ BucketsSound /\ Shape /\ Storing
      /\ \A d \in Chunks : variant.bucketed /\ ptr[d] # -1 => ptr[d] \in 1..N
  BY InvCalled DEF Inv, UncheckedInRange
<1>2. i \in First(c)..Last(c) /\ i \in Rows /\ i \in Int /\ First(c) \in Nat /\ Last(c) \in Nat
  <2>1. First(c) \in Nat /\ Last(c) \in Nat /\ i \in First(c)..(Last(c) + 1)
    BY <1>1, ChunkRows DEF TypeOK
  <2>2. i \in First(c)..Last(c)
    BY <1>0, <2>1
  <2> QED BY <1>1, <2>1, <2>2, OneChunk
<1>3. variant.gather /\ variant.bucketed
  BY <1>0, <1>1, Parameters DEF Shape
<1>4. /\ pos \in [Chunks -> Nat] /\ writes \in [Rows -> Nat]
      /\ out \in [Rows -> -1..N] /\ matched \in [Rows -> 0..N]
  BY <1>1 DEF TypeOK, Shape
<1>5. writes[i] = 0 /\ matched[i] = Answer(i)
  <2>1. i >= pos[c]
    BY <1>2
  <2> QED BY <1>0, <1>1, <1>2, <2>1 DEF Storing
<1>6. N \in Nat
  BY <1>1, Parameters
<1> HIDE DEF N, i
<1>7. /\ pos' \in [Chunks -> Nat] /\ pos'[c] = i + 1 /\ \A d \in Chunks \ {c} : pos'[d] = pos[d]
  BY <1>0, <1>2, <1>4
<1>8. /\ writes' \in [Rows -> Nat] /\ out' \in [Rows -> -1..N]
      /\ writes'[i] = 1 /\ out'[i] = Answer(i)
      /\ \A k \in Rows \ {i} : writes'[k] = writes[k] /\ out'[k] = out[k]
  <2>1. matched[i] \in -1..N
    BY <1>2, <1>4, <1>6
  <2> QED BY <1>0, <1>2, <1>4, <1>5, <2>1
<1> USE SameCall, <1>0
<1>9. TypeOK'
  <2>1. ASSUME NEW d \in Chunks PROVE pos'[d] \in First(d)..(Last(d) + 1)
    <3>1. CASE d = c
      BY <1>2, <1>7, <3>1
    <3>2. CASE d # c
      BY <1>1, <1>7, <3>2 DEF TypeOK
    <3> QED BY <3>1, <3>2
  <2> QED BY <1>1, <1>8, <2>1 DEF TypeOK, index, N
<1>10. UncheckedInRange'
  <2>1. BucketsSound'
    BY <1>1 DEF BucketsSound, index
  <2> QED BY <1>1, <1>9, <2>1 DEF UncheckedInRange, N
<1>11. Shape' /\ Indexing' /\ Chasing'
  BY <1>1, <1>7 DEF Shape, Indexing, Chasing
<1>12. Storing'
  <2>1. ASSUME NEW d \in Chunks, NEW k \in First(d)..Last(d)
        PROVE  IF k >= pos'[d] THEN writes'[k] = 0
               ELSE out'[k] = Answer(k) /\ writes'[k] \in IF variant.bucketed THEN {1} ELSE {0, 1}
    <3>0. k \in Rows /\ k \in Int
      BY <1>1, OneChunk
    <3>1. IF k >= pos[d] THEN writes[k] = 0
          ELSE out[k] = Answer(k) /\ writes[k] \in IF variant.bucketed THEN {1} ELSE {0, 1}
      BY <1>1 DEF Storing, Settled
    <3>2. CASE k = i
      <4>1. d = c
        BY <1>1, <1>2, <3>2, OneChunk
      <4>2. ~(k >= pos'[d])
        BY <1>2, <1>7, <3>2, <4>1
      <4> QED BY <1>3, <1>8, <3>2, <4>2
    <3>3. CASE k # i
      <4>1. writes'[k] = writes[k] /\ out'[k] = out[k]
        BY <1>8, <3>0, <3>3
      <4>2. k >= pos'[d] <=> k >= pos[d]
        <5>1. CASE d = c
          BY <1>2, <1>7, <3>0, <3>3, <5>1 DEF i
        <5>2. CASE d # c
          BY <1>7, <5>2
        <5> QED BY <5>1, <5>2
      <4> QED BY <3>1, <4>1, <4>2
    <3> QED BY <3>2, <3>3
  <2> QED BY <1>1, <2>1 DEF Storing, Settled
<1> QED BY <1>10, <1>11, <1>12 DEF Inv

\* The last pass is over, and every row is settled.
LEMMA FinishKeeps == ASSUME Inv, Finish PROVE Inv'
<1>0. /\ \A c \in Chunks : pos[c] > Last(c)
      /\ pc' = "returned" /\ UNCHANGED <<input, index, ptr, pos, matched, out, writes>>
      /\ pc \in {"sweep", "gather"} /\ ~(pc = "sweep" /\ variant.gather)
  BY DEF Finish, Swept
<1>1. /\ Called /\ TypeOK /\ Shape /\ Storing
      /\ \A d \in Chunks : variant.bucketed /\ ptr[d] # -1 => ptr[d] \in 1..Len(right)
  BY InvCalled DEF Inv, UncheckedInRange
<1>2. \A i \in Rows : Settled(i)
  BY <1>0, <1>1, AllPassed DEF Storing
<1> USE SameCall, <1>0
<1>3. TypeOK'
  BY <1>1 DEF TypeOK, index
<1>4. UncheckedInRange'
  BY <1>1, <1>3 DEF UncheckedInRange, BucketsSound
<1>5. Shape' /\ Indexing' /\ Chasing'
  BY <1>1 DEF Shape, Indexing, Chasing
<1>6. Storing'
  BY <1>2 DEF Storing, Settled
<1> QED BY <1>4, <1>5, <1>6 DEF Inv

\* Every step keeps the invariant.
LEMMA NextInv == Inv /\ [Next]_vars => Inv'
<1> SUFFICES ASSUME Inv, [Next]_vars PROVE Inv'
  OBVIOUS
<1>1. CASE UNCHANGED vars
  <2> USE <1>1 DEF vars
  <2>1. UNCHANGED input
    OBVIOUS
  <2>2. Inv
    OBVIOUS
  <2> QED BY <2>1, <2>2, SameCall
        DEF Inv, UncheckedInRange, TypeOK, BucketsSound, Shape, Indexing, Chasing, Storing, Settled, index
<1>2. CASE Finished
  BY <1>1, <1>2 DEF Finished
<1>3. CASE ReturnEarly
  BY <1>3, ReturnEarlyKeeps
<1>4. CASE Begin
  BY <1>4, BeginKeeps
<1>5. CASE IndexRow
  BY <1>5, IndexRowKeeps
<1>6. CASE IndexTail
  BY <1>6, IndexTailKeeps
<1>7. CASE StartGather
  BY <1>7, StartGatherKeeps
<1>8. CASE Finish
  BY <1>8, FinishKeeps
<1>9. ASSUME NEW c \in Chunks, StartChunk(c) \/ Advance(c) \/ Emit(c) \/ Gather(c) PROVE Inv'
  BY <1>9, StartChunkKeeps, AdvanceKeeps, EmitKeeps, GatherKeeps
<1> QED BY <1>1, <1>2, <1>3, <1>4, <1>5, <1>6, <1>7, <1>8, <1>9 DEF Next

\* The invariant holds in every state.
LEMMA SpecInv == Spec => []Inv
BY InitInv, NextInv, PTL DEF Spec

\* The buckets are what their comment says and every unchecked read of the
\* sweeps is in bounds.
THEOREM ReadsInRange == Spec => []UncheckedInRange
<1>1. Inv => UncheckedInRange
  BY DEF Inv
<1> QED BY <1>1, SpecInv, PTL

\* The parallel joins answer what the row-by-row reference answers, for every
\* chunk size, bucket width, tolerance, input and interleaving.
THEOREM JoinsMatchReference == Spec => []MatchesReference
<1>1. Inv => MatchesReference
  BY DEF Inv, Storing, Settled, Answer, MatchesReference
<1> QED BY <1>1, SpecInv, PTL

\* Every row is stored at most once, and exactly once by the variants that
\* assume_init their buffers.
THEOREM RowsWrittenOnce == Spec => []WrittenExactlyOnce
<1>1. Inv => WrittenExactlyOnce
  <2> SUFFICES ASSUME Inv PROVE WrittenExactlyOnce
    OBVIOUS
  <2>1. Called /\ TypeOK /\ Storing
    BY InvCalled DEF Inv, UncheckedInRange
  <2>2. ASSUME NEW i \in Rows PROVE writes[i] \in {0, 1}
    <3>1. PICK c \in Chunks : i \in First(c)..Last(c)
      BY <2>1, ChunkRows
    <3>2. pc \in {"call", "index", "sweep", "gather", "returned"}
      BY <2>1 DEF TypeOK
    <3> QED BY <2>1, <3>1, <3>2 DEF Storing, Settled
  <2>3. \A i \in Rows : writes[i] <= 1
    BY <2>2
  <2>4. pc = "returned" /\ variant.bucketed => \A i \in Rows : writes[i] = 1
    BY <2>1 DEF Storing, Settled
  <2> QED BY <2>3, <2>4 DEF WrittenExactlyOnce
<1> QED BY <1>1, SpecInv, PTL

-------------------------------------------------------------------------------
(* Moving windows.  A running sum is what the definition adds up over the     *)
(* window: adding what enters and subtracting what leaves are the two lemmas  *)
(* AddEntering and SubLeaving, over sums that are unfolded from both ends.    *)

\* A non-empty set of natural numbers has a least element: the least of the
\* intervals 0..m by inclusion.
LEMMA LeastNatural ==
    ASSUME NEW T \in SUBSET Nat, T # {}
    PROVE  \E m \in T : \A k \in T : m <= k
<1> DEFINE F == {0..m : m \in T}
<1>1. F \subseteq FiniteSubsetsOf(Nat)
  <2> SUFFICES ASSUME NEW m \in T PROVE 0..m \in SUBSET Nat /\ IsFiniteSet(0..m)
    BY DEF FiniteSubsetsOf
  <2> QED BY FS_Interval
<1>2. F # {}
  OBVIOUS
<1>3. PICK x \in F : \A y \in F : ~(<<y, x>> \in StrictSubsetOrdering(Nat))
  <2> HIDE DEF F
  <2> QED BY <1>1, <1>2, FS_StrictSubsetOrderingWellFounded, WFMin
<1>4. PICK m \in T : x = 0..m
  OBVIOUS
<1>5. ASSUME NEW k \in T, k < m PROVE FALSE
  <2>1. 0..k \in F /\ 0..k \subseteq x /\ 0..k # x
    <3>1. m \in x /\ m \notin 0..k
      BY <1>4, <1>5
    <3> QED BY <1>4, <1>5, <3>1
  <2>2. <<0..k, x>> \in StrictSubsetOrdering(Nat)
    BY <2>1, <1>4 DEF StrictSubsetOrdering
  <2> QED BY <1>3, <2>1, <2>2
<1> QED BY <1>5


\* Division with remainder has one answer.
LEMMA Remainder ==
    ASSUME NEW w \in Nat \ {0}, NEW k \in Int, NEW r \in 0..(w - 1)
    PROVE  (k * w + r) % w = r
<1> DEFINE x == k * w + r
           q == x \div w
<1>1. x \in Int /\ q \in Int /\ q * w <= x /\ x < q * w + w /\ x % w = x - q * w
  OBVIOUS
<1>2. k * w \in Int /\ q * w \in Int /\ x = k * w + r /\ r \in Int /\ 0 <= r /\ r < w /\ w \in Int
  OBVIOUS
<1> HIDE DEF x, q
<1>3. CASE q < k
  <2>1. (q + 1) * w <= k * w /\ (q + 1) * w = q * w + w
    BY <1>1, <1>3, Scaled
  <2> QED BY <1>1, <1>2, <2>1
<1>4. CASE k < q
  <2>1. (k + 1) * w <= q * w /\ (k + 1) * w = k * w + w
    BY <1>1, <1>4, Scaled
  <2> QED BY <1>1, <1>2, <2>1
<1>5. CASE k = q
  BY <1>1, <1>2, <1>5 DEF x
<1> QED BY <1>1, <1>3, <1>4, <1>5

\* Wrapping around changes a number by a multiple of 2^64, into the range, and
\* there is one number in the range that differs so.
LEMMA WrapIs ==
    ASSUME NEW x \in Int
    PROVE  /\ Wrap(x) \in -Half..(Half - 1)
           /\ \E k \in Int : x = Wrap(x) + k * (2 * Half)
           /\ \A r \in -Half..(Half - 1) : \A k \in Int : x = r + k * (2 * Half) => Wrap(x) = r
<1> DEFINE w == 2 * Half
<1>1. w \in Nat \ {0} /\ Half \in Nat \ {0}
  BY WindowAssumption
<1>2. Wrap(x) = ((x + Half) % w) - Half
  BY DEF Wrap
<1>3. w = Half + Half
  BY <1>1
<1> HIDE DEF w
<1>4. (x + Half) % w \in 0..(w - 1) /\ (x + Half) = ((x + Half) \div w) * w + ((x + Half) % w) /\ (x + Half) \div w \in Int
  BY <1>1
<1>5. Wrap(x) \in -Half..(Half - 1)
  BY <1>1, <1>2, <1>3, <1>4
<1>6. \E k \in Int : x = Wrap(x) + k * w
  <2> DEFINE q == (x + Half) \div w
  <2>1. x = Wrap(x) + q * w
    BY <1>1, <1>2, <1>4
  <2> QED BY <1>4, <2>1
<1>7. ASSUME NEW r \in -Half..(Half - 1), NEW k \in Int, x = r + k * w PROVE Wrap(x) = r
  <2>1. r + Half \in 0..(w - 1) /\ r \in Int /\ k * w \in Int
    BY <1>1, <1>3
  <2>2. (k * w + (r + Half)) % w = r + Half
    BY <1>1, <2>1, Remainder
  <2>3. x + Half = k * w + (r + Half)
    BY <1>1, <1>7, <2>1
  <2> QED BY <1>1, <1>2, <2>1, <2>2, <2>3
<1> QED BY <1>5, <1>6, <1>7 DEF w

\* So wrapping around in between makes no difference in the end.
LEMMA WrapSteps ==
    ASSUME NEW a \in Int, NEW b \in Int
    PROVE  /\ Wrap(Wrap(a) + b) = Wrap(a + b) /\ Wrap(Wrap(a) - b) = Wrap(a - b)
           /\ Wrap(a + Wrap(b)) = Wrap(a + b)
           /\ a \in -Half..(Half - 1) => Wrap(a) = a
<1> DEFINE w == 2 * Half
<1>1. w \in Int /\ Half \in Nat
  BY WindowAssumption
<1>2. PICK k \in Int : a = Wrap(a) + k * w
  BY WrapIs
<1>3. PICK l \in Int : b = Wrap(b) + l * w
  BY WrapIs
<1>4. Wrap(a) \in Int /\ Wrap(b) \in Int
  BY <1>1, WrapIs
<1>5. ASSUME NEW x \in Int, NEW y \in Int, NEW m \in Int, y = x + m * w PROVE Wrap(x) = Wrap(y)
  <2>1. PICK h \in Int : x = Wrap(x) + h * w
    BY WrapIs
  <2>2. Wrap(x) \in -Half..(Half - 1) /\ Wrap(x) \in Int
    BY <1>1, WrapIs
  <2> HIDE DEF w
  <2>3. (h + m) * w = h * w + m * w /\ h * w \in Int /\ m * w \in Int /\ h + m \in Int
    BY <1>1
  <2>4. y = Wrap(x) + (h + m) * w
    BY <1>5, <2>1, <2>2, <2>3
  <2> QED BY <2>2, <2>3, <2>4, WrapIs DEF w
<1> HIDE DEF w
<1>6. k * w \in Int /\ l * w \in Int
  BY <1>1
<1>7. a + b = (Wrap(a) + b) + k * w /\ a - b = (Wrap(a) - b) + k * w /\ a + b = (a + Wrap(b)) + l * w
  <2>1. \A x, y, d, z \in Int : x = y + d => x + z = (y + z) + d /\ x - z = (y - z) + d /\ z + x = (z + y) + d
    OBVIOUS
  <2> DEFINE c == Wrap(a)
             d == Wrap(b)
             s == k * w
             t == l * w
  <2>2. a = c + s /\ b = d + t /\ c \in Int /\ d \in Int /\ s \in Int /\ t \in Int
    BY <1>2, <1>3, <1>4, <1>6
  <2> HIDE DEF c, d, s, t
  <2>3. a + b = (c + b) + s /\ a - b = (c - b) + s /\ a + b = (a + d) + t
    BY <2>1, <2>2
  <2> QED BY <2>3 DEF c, d, s, t
<1>8. Wrap(Wrap(a) + b) = Wrap(a + b)
  BY <1>4, <1>5, <1>7
<1>9. Wrap(Wrap(a) - b) = Wrap(a - b)
  BY <1>4, <1>5, <1>7
<1>10. Wrap(a + Wrap(b)) = Wrap(a + b)
  BY <1>4, <1>5, <1>7
<1>11. a \in -Half..(Half - 1) => Wrap(a) = a
  <2>1. a = a + 0 * w /\ 0 \in Int
    BY <1>1
  <2> QED BY <2>1, WrapIs DEF w
<1> QED BY <1>8, <1>9, <1>10, <1>11

\* The recursion of a range sum is well founded.
LEMMA RangeSumUnfolds ==
    ASSUME Len(values) \in Nat, NEW f, NEW lo \in Nat \ {0}
    PROVE  \A k \in 0..Len(values) :
              RangeSum(f, lo, k) = IF k < lo THEN 0 ELSE RangeSum(f, lo, k - 1) + f[k]
<1> DEFINE N == Len(values)
           Of(g, k) == IF k < lo THEN 0 ELSE g[k - 1] + f[k]
           Bad == {m \in 0..N : ~\E g : g = [k \in 0..m |-> Of(g, k)]}
<1>0. N \in Nat
  OBVIOUS
<1> HIDE DEF N
<1>1. ASSUME Bad # {} PROVE FALSE
  <2>1. Bad \in SUBSET Nat
    BY <1>0
  <2>2. PICK m \in Bad : \A h \in Bad : m <= h
    <3> HIDE DEF Bad
    <3> QED BY <1>1, <2>1, LeastNatural
  <2>3. m \in 0..N /\ m \in Nat /\ ~\E g : g = [k \in 0..m |-> Of(g, k)]
    BY <1>0
  <2>4. CASE m = 0
    <3> DEFINE g == [k \in 0..0 |-> 0]
    <3>1. \A k \in 0..0 : Of(g, k) = 0
      OBVIOUS
    <3> HIDE DEF Of
    <3>2. g = [k \in 0..0 |-> Of(g, k)]
      BY <3>1
    <3> HIDE DEF g
    <3> QED BY <2>3, <2>4, <3>2
  <2>5. CASE m # 0
    <3>1. m - 1 \in 0..N /\ ~(m <= m - 1)
      BY <1>0, <2>3, <2>5
    <3>2. m - 1 \notin Bad
      <4> HIDE DEF Bad
      <4> QED BY <2>2, <3>1
    <3>3. PICK g : g = [k \in 0..(m - 1) |-> Of(g, k)]
      BY <3>1, <3>2
    <3> DEFINE h == [k \in 0..m |-> Of(g, k)]
    <3>4. ASSUME NEW k \in 0..m PROVE Of(g, k) = Of(h, k)
      <4>1. CASE k < lo
        BY <4>1
      <4>2. CASE ~(k < lo)
        <5>1. k - 1 \in 0..(m - 1) /\ k - 1 \in 0..m
          BY <2>3, <4>2
        <5>2. g[k - 1] = Of(g, k - 1)
          <6> HIDE DEF Of
          <6> QED BY <3>3, <5>1
        <5>3. h[k - 1] = Of(g, k - 1)
          <6> HIDE DEF Of
          <6> QED BY <5>1
        <5> HIDE DEF h
        <5>4. Of(g, k) = g[k - 1] + f[k] /\ Of(h, k) = h[k - 1] + f[k]
          BY <4>2
        <5> HIDE DEF Of
        <5> QED BY <5>2, <5>3, <5>4
      <4> QED BY <4>1, <4>2
    <3>5. h = [k \in 0..m |-> Of(h, k)]
      <4> HIDE DEF Of
      <4>1. [k \in 0..m |-> Of(g, k)] = [k \in 0..m |-> Of(h, k)]
        BY <3>4
      <4> QED BY <4>1
    <3> HIDE DEF h, Of
    <3> QED BY <2>3, <3>5
  <2> QED BY <2>4, <2>5
<1>2. \E g : g = [k \in 0..N |-> Of(g, k)]
  <2>1. N \in 0..N
    BY <1>0
  <2> QED BY <1>1, <2>1
<1> DEFINE u == CHOOSE g : g = [k \in 0..N |-> Of(g, k)]
<1>3. \A k : RangeSum(f, lo, k) = u[k]
  BY DEF RangeSum, N
<1>4. u = [k \in 0..N |-> Of(u, k)]
  <2> HIDE DEF Of
  <2> QED BY <1>2
<1> HIDE DEF u
<1>5. \A k \in 0..N : u[k] = Of(u, k)
  <2> HIDE DEF Of
  <2> QED BY <1>4
<1> QED BY <1>3, <1>5 DEF N

\* Sums of integers are integers.
LEMMA RangeSumType ==
    ASSUME Len(values) \in Nat, NEW f, NEW lo \in Nat \ {0}, NEW hi \in 0..Len(values),
           \A x \in lo..hi : f[x] \in Int
    PROVE  RangeSum(f, lo, hi) \in Int
<1> DEFINE Bad == {k \in 0..hi : RangeSum(f, lo, k) \notin Int}
<1>1. ASSUME Bad # {} PROVE FALSE
  <2>1. Bad \in SUBSET Nat
    OBVIOUS
  <2>2. PICK k \in Bad : \A h \in Bad : k <= h
    <3> HIDE DEF Bad
    <3> QED BY <1>1, <2>1, LeastNatural
  <2>3. k \in 0..hi /\ k \in 0..Len(values) /\ k \in Nat /\ RangeSum(f, lo, k) \notin Int
    OBVIOUS
  <2>4. RangeSum(f, lo, k) = IF k < lo THEN 0 ELSE RangeSum(f, lo, k - 1) + f[k]
    BY <2>3, RangeSumUnfolds
  <2>5. lo <= k
    BY <2>3, <2>4
  <2>6. k - 1 \in 0..hi /\ ~(k <= k - 1) /\ k \in lo..hi
    BY <2>3, <2>5
  <2>7. k - 1 \notin Bad
    <3> HIDE DEF Bad
    <3> QED BY <2>2, <2>6
  <2>8. RangeSum(f, lo, k - 1) \in Int
    BY <2>6, <2>7
  <2> QED BY <2>3, <2>4, <2>5, <2>6, <2>8
<1> QED BY <1>1

\* A sum depends on the numbers in its range.
LEMMA RangeSumSame ==
    ASSUME Len(values) \in Nat, NEW f, NEW g, NEW lo \in Nat \ {0}, NEW hi \in 0..Len(values),
           \A x \in lo..hi : f[x] = g[x]
    PROVE  RangeSum(f, lo, hi) = RangeSum(g, lo, hi)
<1> DEFINE Bad == {k \in 0..hi : RangeSum(f, lo, k) # RangeSum(g, lo, k)}
<1>1. ASSUME Bad # {} PROVE FALSE
  <2>1. Bad \in SUBSET Nat
    OBVIOUS
  <2>2. PICK k \in Bad : \A h \in Bad : k <= h
    <3> HIDE DEF Bad
    <3> QED BY <1>1, <2>1, LeastNatural
  <2>3. k \in 0..hi /\ k \in 0..Len(values) /\ k \in Nat /\ RangeSum(f, lo, k) # RangeSum(g, lo, k)
    OBVIOUS
  <2>4. /\ RangeSum(f, lo, k) = IF k < lo THEN 0 ELSE RangeSum(f, lo, k - 1) + f[k]
        /\ RangeSum(g, lo, k) = IF k < lo THEN 0 ELSE RangeSum(g, lo, k - 1) + g[k]
    BY <2>3, RangeSumUnfolds
  <2>5. lo <= k
    BY <2>3, <2>4
  <2>6. k - 1 \in 0..hi /\ ~(k <= k - 1) /\ k \in lo..hi
    BY <2>3, <2>5
  <2>7. k - 1 \notin Bad
    <3> HIDE DEF Bad
    <3> QED BY <2>2, <2>6
  <2>8. RangeSum(f, lo, k - 1) = RangeSum(g, lo, k - 1)
    BY <2>6, <2>7
  <2> QED BY <2>3, <2>4, <2>6, <2>8
<1> QED BY <1>1

\* Without its first number a sum is less by that number.
LEMMA RangeSumDrop ==
    ASSUME Len(values) \in Nat, NEW f, NEW lo \in Nat \ {0}, NEW hi \in 0..Len(values), lo <= hi,
           \A x \in lo..hi : f[x] \in Int
    PROVE  RangeSum(f, lo + 1, hi) = RangeSum(f, lo, hi) - f[lo]
<1> DEFINE Bad == {k \in lo..hi : RangeSum(f, lo + 1, k) # RangeSum(f, lo, k) - f[lo]}
<1>1. ASSUME Bad # {} PROVE FALSE
  <2>1. Bad \in SUBSET Nat
    OBVIOUS
  <2>2. PICK k \in Bad : \A h \in Bad : k <= h
    <3> HIDE DEF Bad
    <3> QED BY <1>1, <2>1, LeastNatural
  <2>3. /\ k \in lo..hi /\ k \in 0..Len(values) /\ k \in Nat /\ k - 1 \in 0..Len(values) /\ lo + 1 \in Nat \ {0}
        /\ lo \in lo..hi
    OBVIOUS
  <2>4. RangeSum(f, lo + 1, k) # RangeSum(f, lo, k) - f[lo]
    OBVIOUS
  <2>5. RangeSum(f, lo, k) = RangeSum(f, lo, k - 1) + f[k]
    <3>1. RangeSum(f, lo, k) = IF k < lo THEN 0 ELSE RangeSum(f, lo, k - 1) + f[k]
      BY <2>3, RangeSumUnfolds
    <3> QED BY <2>3, <3>1
  <2>6. RangeSum(f, lo + 1, k) = IF k < lo + 1 THEN 0 ELSE RangeSum(f, lo + 1, k - 1) + f[k]
    BY <2>3, RangeSumUnfolds
  <2>7. f[k] \in Int /\ f[lo] \in Int
    BY <2>3
  <2>8. CASE k = lo
    <3>1. RangeSum(f, lo, k - 1) = 0
      <4>1. RangeSum(f, lo, k - 1) = IF k - 1 < lo THEN 0 ELSE RangeSum(f, lo, (k - 1) - 1) + f[k - 1]
        BY <2>3, RangeSumUnfolds
      <4> QED BY <2>3, <2>8, <4>1
    <3> QED BY <2>3, <2>4, <2>5, <2>6, <2>7, <2>8, <3>1
  <2>9. CASE k # lo
    <3>1. k - 1 \in lo..hi /\ ~(k <= k - 1) /\ ~(k < lo + 1)
      BY <2>3, <2>9
    <3>2. k - 1 \notin Bad
      <4> HIDE DEF Bad
      <4> QED BY <2>2, <3>1
    <3>3. RangeSum(f, lo + 1, k - 1) = RangeSum(f, lo, k - 1) - f[lo]
      BY <3>1, <3>2
    <3>4. RangeSum(f, lo, k - 1) \in Int
      <4>1. \A x \in lo..(k - 1) : f[x] \in Int
        BY <2>3
      <4> QED BY <2>3, <4>1, RangeSumType
    <3> QED BY <2>4, <2>5, <2>6, <2>7, <3>1, <3>3, <3>4
  <2> QED BY <2>8, <2>9
<1> QED BY <1>1

\* The column is made of numbers, of i64s if that is its type.
Column ==
    /\ Len(values) \in Nat /\ DOMAIN values = 1..Len(values)
    /\ \A x \in DOMAIN values :
          /\ values[x] \in Numbers
          /\ type = "i64" => values[x].tag = "fin" /\ values[x].v \in -Half..(Half - 1)

\* A number is finite, infinite or not a number.
LEMMA NumberIs ==
    \A x \in Numbers : \/ x.tag = "fin" /\ x.v \in Int /\ x = Fin(x.v)
                       \/ x.tag = "inf" /\ x.v \in {-1, 1} /\ x = Inf(x.v)
                       \/ x.tag = "nan" /\ x.v = 0 /\ x = NaN
BY DEF Numbers, Fin, Inf, NaN

\* What adding does, case by case.
LEMMA FloatAddIs ==
    \A a, b : /\ a.tag = "nan" \/ b.tag = "nan" => FloatAdd(a, b) = NaN
              /\ a.tag = "inf" /\ b.tag = "inf" /\ a.v # b.v => FloatAdd(a, b) = NaN
              /\ a.tag = "inf" /\ b.tag = "inf" /\ a.v = b.v => FloatAdd(a, b) = a
              /\ a.tag = "inf" /\ b.tag = "fin" => FloatAdd(a, b) = a
              /\ a.tag = "fin" /\ b.tag = "inf" => FloatAdd(a, b) = b
              /\ a.tag = "fin" /\ b.tag = "fin" => FloatAdd(a, b) = Fin(a.v + b.v)
BY DEF FloatAdd

\* Numbers add up to numbers.
LEMMA FloatAddType ==
    ASSUME NEW a \in Numbers, NEW b \in Numbers
    PROVE  FloatAdd(a, b) \in Numbers /\ Negated(b) \in Numbers /\ Negated(b).tag = b.tag /\ Negated(b).v = -b.v
<1>1. NaN \in Numbers /\ \A x \in Int : Fin(x) \in Numbers
  BY DEF Numbers, NaN, Fin
<1>2. FloatAdd(a, b) \in Numbers
  BY <1>1, NumberIs, FloatAddIs
<1>3. Negated(b).tag = b.tag /\ Negated(b).v = -b.v
  BY DEF Negated, Numbers
<1>4. Negated(b) \in Numbers
  BY DEF Negated, Numbers
<1> QED BY <1>2, <1>3, <1>4

\* What the sum over a range is, from what is in it.
LEMMA SumIs ==
    ASSUME Column, NEW lo \in Nat \ {0}, NEW hi \in 0..Len(values)
    PROVE  /\ Infinities(lo..hi) \subseteq {-1, 1}
           /\ "nan" \in Tags(lo..hi) \/ Infinities(lo..hi) = {-1, 1} => SumOver(lo, hi) = NaN
           /\ \A s \in {-1, 1} : "nan" \notin Tags(lo..hi) /\ Infinities(lo..hi) = {s} => SumOver(lo, hi) = Inf(s)
           /\ "nan" \notin Tags(lo..hi) /\ Infinities(lo..hi) = {} =>
                 SumOver(lo, hi) = Fin(IF type = "i64" THEN Wrap(RangeSum(Amounts, lo, hi)) ELSE RangeSum(Amounts, lo, hi))
           /\ \A x \in lo..hi : x \in DOMAIN values /\ values[x] \in Numbers
<1>1. \A x \in lo..hi : x \in DOMAIN values /\ values[x] \in Numbers
  BY DEF Column
<1>2. Infinities(lo..hi) \subseteq {-1, 1}
  BY <1>1, NumberIs DEF Infinities
<1>3. "inf" \in Tags(lo..hi) <=> Infinities(lo..hi) # {}
  BY DEF Infinities, Tags
<1>4. "nan" \in Tags(lo..hi) \/ Infinities(lo..hi) = {-1, 1} => SumOver(lo, hi) = NaN
  BY DEF SumOver
<1>5. ASSUME NEW s \in {-1, 1}, "nan" \notin Tags(lo..hi), Infinities(lo..hi) = {s} PROVE SumOver(lo, hi) = Inf(s)
  <2>1. Infinities(lo..hi) # {-1, 1} /\ "inf" \in Tags(lo..hi)
    <3>1. s \in {s} /\ ~(-1 \in {s} /\ 1 \in {s})
      OBVIOUS
    <3> QED BY <1>3, <1>5, <3>1
  <2>2. SumOver(lo, hi) = Inf(CHOOSE t \in Infinities(lo..hi) : TRUE)
    BY <1>5, <2>1 DEF SumOver
  <2>3. (CHOOSE t \in Infinities(lo..hi) : TRUE) = s
    BY <1>5
  <2> QED BY <2>2, <2>3
<1>6. "nan" \notin Tags(lo..hi) /\ Infinities(lo..hi) = {} =>
          SumOver(lo, hi) = Fin(IF type = "i64" THEN Wrap(RangeSum(Amounts, lo, hi)) ELSE RangeSum(Amounts, lo, hi))
  <2>1. {} # {-1, 1}
    OBVIOUS
  <2> QED BY <1>3, <2>1 DEF SumOver
<1> QED BY <1>1, <1>2, <1>4, <1>5, <1>6

\* The numbers of a finite range.
LEMMA FiniteRange ==
    ASSUME Column, NEW lo \in Nat \ {0}, NEW hi \in 0..Len(values)
    PROVE  /\ \A x \in lo..hi : Amounts[x] = values[x].v /\ Amounts[x] \in Int
           /\ RangeSum(Amounts, lo, hi) \in Int
           /\ type = "i64" => "nan" \notin Tags(lo..hi) /\ Infinities(lo..hi) = {}
<1>1. \A x \in lo..hi : x \in DOMAIN values /\ values[x] \in Numbers
  BY SumIs
<1>2. \A x \in lo..hi : Amounts[x] = values[x].v /\ Amounts[x] \in Int
  BY <1>1, NumberIs DEF Amounts
<1>3. RangeSum(Amounts, lo, hi) \in Int
  BY <1>2, RangeSumType DEF Column
<1>4. type = "i64" => "nan" \notin Tags(lo..hi) /\ Infinities(lo..hi) = {}
  BY <1>1 DEF Column, Tags, Infinities
<1> QED BY <1>2, <1>3, <1>4

\* Adding the number that comes after a range gives the sum of the longer range.
LEMMA AddEntering ==
    ASSUME Column, NEW lo \in Nat \ {0}, NEW hi \in 0..Len(values), hi + 1 <= Len(values), lo <= hi + 1,
           NEW h, h = hi + 1
    PROVE  Add(SumOver(lo, hi), values[h]) = SumOver(lo, h)
<1> DEFINE S == lo..hi
           T == lo..h
           r == RangeSum(Amounts, lo, hi)
           b == values[h]
<1>0. h \in 0..Len(values) /\ Len(values) \in Nat /\ h \in T /\ \A x : x \in T <=> x \in S \/ x = h
  BY DEF Column
<1>1. b \in Numbers /\ Amounts[h] = b.v /\ b.v \in Int /\ r \in Int /\ RangeSum(Amounts, lo, h) \in Int
  BY <1>0, SumIs, FiniteRange
<1>2. RangeSum(Amounts, lo, h) = r + b.v
  <2>1. RangeSum(Amounts, lo, h) = IF h < lo THEN 0 ELSE RangeSum(Amounts, lo, h - 1) + Amounts[h]
    BY <1>0, RangeSumUnfolds
  <2>2. h - 1 = hi /\ ~(h < lo)
    OBVIOUS
  <2> QED BY <1>1, <2>1, <2>2
<1> DEFINE total == RangeSum(Amounts, lo, h)
<1>3. /\ Infinities(S) \subseteq {-1, 1}
      /\ "nan" \in Tags(S) \/ Infinities(S) = {-1, 1} => SumOver(lo, hi) = NaN
      /\ \A s \in {-1, 1} : "nan" \notin Tags(S) /\ Infinities(S) = {s} => SumOver(lo, hi) = Inf(s)
      /\ "nan" \notin Tags(S) /\ Infinities(S) = {} => SumOver(lo, hi) = Fin(IF type = "i64" THEN Wrap(r) ELSE r)
      /\ type = "i64" => "nan" \notin Tags(S) /\ Infinities(S) = {}
  BY SumIs, FiniteRange
<1>4. /\ Infinities(T) \subseteq {-1, 1}
      /\ "nan" \in Tags(T) \/ Infinities(T) = {-1, 1} => SumOver(lo, h) = NaN
      /\ \A s \in {-1, 1} : "nan" \notin Tags(T) /\ Infinities(T) = {s} => SumOver(lo, h) = Inf(s)
      /\ "nan" \notin Tags(T) /\ Infinities(T) = {} => SumOver(lo, h) = Fin(IF type = "i64" THEN Wrap(total) ELSE total)
      /\ type = "i64" => "nan" \notin Tags(T) /\ Infinities(T) = {}
  BY <1>0, SumIs, FiniteRange
<1> HIDE DEF S, T, r, total
<1>5. "nan" \in Tags(T) <=> "nan" \in Tags(S) \/ b.tag = "nan"
  BY <1>0 DEF Tags
<1>6. \A t : t \in Infinities(T) <=> t \in Infinities(S) \/ (b.tag = "inf" /\ t = b.v)
  BY <1>0 DEF Infinities
<1> HIDE DEF b
<1>7. CASE type = "i64"
  <2>1. SumOver(lo, hi) = Fin(Wrap(r)) /\ SumOver(lo, h) = Fin(Wrap(total))
    BY <1>3, <1>4, <1>7
  <2>2. SumOver(lo, hi).v = Wrap(r)
    BY <2>1 DEF Fin
  <2>3. Add(SumOver(lo, hi), b) = Fin(Wrap(Wrap(r) + b.v))
    BY <1>7, <2>2 DEF Add
  <2>4. Wrap(Wrap(r) + b.v) = Wrap(r + b.v)
    BY <1>1, WrapSteps DEF r
  <2> QED BY <1>2, <2>1, <2>3, <2>4 DEF b, r, total
<1>8. CASE type # "i64"
  <2>1. Add(SumOver(lo, hi), b) = FloatAdd(SumOver(lo, hi), b)
    BY <1>8 DEF Add
  <2>2. CASE "nan" \in Tags(S) \/ Infinities(S) = {-1, 1}
    <3>1. SumOver(lo, hi) = NaN
      BY <1>3, <2>2
    <3>2. FloatAdd(SumOver(lo, hi), b) = NaN
      BY <3>1, FloatAddIs DEF NaN
    <3>3. "nan" \in Tags(T) \/ Infinities(T) = {-1, 1}
      BY <1>4, <1>5, <1>6, <2>2
    <3> QED BY <1>4, <2>1, <3>2, <3>3 DEF b
  <2>3. CASE "nan" \notin Tags(S) /\ Infinities(S) = {}
    <3>1. SumOver(lo, hi) = Fin(r)
      BY <1>3, <1>8, <2>3
    <3>2. SumOver(lo, hi).tag = "fin" /\ SumOver(lo, hi).v = r
      BY <3>1 DEF Fin
    <3>3. CASE b.tag = "fin"
      <4>1. SumOver(lo, h) = Fin(total)
        BY <1>4, <1>5, <1>6, <1>8, <2>3, <3>3
      <4>2. FloatAdd(SumOver(lo, hi), b) = Fin(r + b.v)
        BY <3>2, <3>3, FloatAddIs
      <4> QED BY <1>2, <2>1, <4>1, <4>2 DEF b, r, total
    <3>4. CASE b.tag = "inf"
      <4>1. FloatAdd(SumOver(lo, hi), b) = b /\ b = Inf(b.v) /\ b.v \in {-1, 1}
        BY <1>1, <3>2, <3>4, NumberIs, FloatAddIs DEF b
      <4>2. Infinities(T) = {b.v}
        BY <1>6, <2>3, <3>4
      <4>3. SumOver(lo, h) = Inf(b.v)
        BY <1>4, <1>5, <2>3, <3>4, <4>1, <4>2
      <4> QED BY <2>1, <4>1, <4>3 DEF b
    <3>5. CASE b.tag = "nan"
      <4>1. FloatAdd(SumOver(lo, hi), b) = NaN
        BY <3>5, FloatAddIs
      <4> QED BY <1>4, <1>5, <2>1, <3>5, <4>1 DEF b
    <3> QED BY <1>1, <3>3, <3>4, <3>5, NumberIs DEF b
  <2>4. CASE "nan" \notin Tags(S) /\ \E s \in {-1, 1} : Infinities(S) = {s}
    <3>1. PICK s \in {-1, 1} : Infinities(S) = {s}
      BY <2>4
    <3>2. SumOver(lo, hi) = Inf(s)
      BY <1>3, <2>4, <3>1
    <3>3. SumOver(lo, hi).tag = "inf" /\ SumOver(lo, hi).v = s
      BY <3>2 DEF Inf
    <3>4. CASE b.tag = "fin"
      <4>1. Infinities(T) = {s}
        BY <1>6, <3>1, <3>4
      <4>2. SumOver(lo, h) = Inf(s)
        BY <1>4, <1>5, <2>4, <3>4, <4>1
      <4>3. FloatAdd(SumOver(lo, hi), b) = Inf(s)
        BY <3>2, <3>3, <3>4, FloatAddIs
      <4> QED BY <2>1, <4>2, <4>3 DEF b
    <3>5. CASE b.tag = "inf"
      <4>1. b.v \in {-1, 1}
        BY <1>1, <3>5, NumberIs DEF b
      <4>2. CASE b.v = s
        <5>1. Infinities(T) = {s}
          BY <1>6, <3>1, <4>2
        <5>2. SumOver(lo, h) = Inf(s)
          BY <1>4, <1>5, <2>4, <3>5, <5>1
        <5>3. FloatAdd(SumOver(lo, hi), b) = Inf(s)
          BY <3>2, <3>3, <3>5, <4>2, FloatAddIs
        <5> QED BY <2>1, <5>2, <5>3 DEF b
      <4>3. CASE b.v # s
        <5>1. Infinities(T) = {-1, 1}
          BY <1>6, <3>1, <3>5, <4>1, <4>3
        <5>2. FloatAdd(SumOver(lo, hi), b) = NaN
          BY <3>3, <3>5, <4>3, FloatAddIs
        <5> QED BY <1>4, <2>1, <5>1, <5>2 DEF b
      <4> QED BY <4>2, <4>3
    <3>6. CASE b.tag = "nan"
      <4>1. FloatAdd(SumOver(lo, hi), b) = NaN
        BY <3>6, FloatAddIs
      <4> QED BY <1>4, <1>5, <2>1, <3>6, <4>1 DEF b
    <3> QED BY <1>1, <3>4, <3>5, <3>6, NumberIs DEF b
  <2> QED BY <1>3, <2>2, <2>3, <2>4
<1> QED BY <1>7, <1>8

\* Subtracting the finite first number of a range gives the sum of the rest.
LEMMA SubLeaving ==
    ASSUME Column, NEW lo \in Nat \ {0}, NEW hi \in 0..Len(values), lo <= hi, values[lo].tag = "fin"
    PROVE  Sub(SumOver(lo, hi), values[lo]) = SumOver(lo + 1, hi)
<1> DEFINE S == lo..hi
           T == (lo + 1)..hi
           r == RangeSum(Amounts, lo, hi)
           rest == RangeSum(Amounts, lo + 1, hi)
           b == values[lo]
<1>0. lo + 1 \in Nat \ {0} /\ lo \in S /\ Len(values) \in Nat /\ \A x : x \in S <=> x \in T \/ x = lo
  BY DEF Column
<1>1. /\ b \in Numbers /\ Amounts[lo] = b.v /\ b.v \in Int /\ r \in Int /\ rest \in Int
      /\ \A x \in S : Amounts[x] \in Int
  BY <1>0, SumIs, FiniteRange
<1>2. rest = r - b.v
  BY <1>0, <1>1, RangeSumDrop
<1>3. /\ Infinities(S) \subseteq {-1, 1}
      /\ "nan" \in Tags(S) \/ Infinities(S) = {-1, 1} => SumOver(lo, hi) = NaN
      /\ \A s \in {-1, 1} : "nan" \notin Tags(S) /\ Infinities(S) = {s} => SumOver(lo, hi) = Inf(s)
      /\ "nan" \notin Tags(S) /\ Infinities(S) = {} => SumOver(lo, hi) = Fin(IF type = "i64" THEN Wrap(r) ELSE r)
      /\ type = "i64" => "nan" \notin Tags(S) /\ Infinities(S) = {}
  BY SumIs, FiniteRange
<1>4. /\ "nan" \in Tags(T) \/ Infinities(T) = {-1, 1} => SumOver(lo + 1, hi) = NaN
      /\ \A s \in {-1, 1} : "nan" \notin Tags(T) /\ Infinities(T) = {s} => SumOver(lo + 1, hi) = Inf(s)
      /\ "nan" \notin Tags(T) /\ Infinities(T) = {} => SumOver(lo + 1, hi) = Fin(IF type = "i64" THEN Wrap(rest) ELSE rest)
  BY <1>0, SumIs
<1> HIDE DEF S, T, r, rest
<1>5. "nan" \in Tags(T) <=> "nan" \in Tags(S)
  BY <1>0 DEF Tags
<1>6. Infinities(T) = Infinities(S)
  BY <1>0 DEF Infinities
<1>7. Negated(b).tag = "fin" /\ Negated(b).v = -b.v
  BY <1>1, FloatAddType
<1> HIDE DEF b
<1>8. CASE type = "i64"
  <2>1. SumOver(lo, hi) = Fin(Wrap(r)) /\ SumOver(lo + 1, hi) = Fin(Wrap(rest))
    BY <1>3, <1>4, <1>5, <1>6, <1>8
  <2>2. SumOver(lo, hi).v = Wrap(r)
    BY <2>1 DEF Fin
  <2>3. Sub(SumOver(lo, hi), b) = Fin(Wrap(Wrap(r) - b.v))
    BY <1>8, <2>2 DEF Sub
  <2>4. Wrap(Wrap(r) - b.v) = Wrap(r - b.v)
    BY <1>1, WrapSteps
  <2> QED BY <1>2, <2>1, <2>3, <2>4 DEF b
<1>9. CASE type # "i64"
  <2>1. Sub(SumOver(lo, hi), b) = FloatAdd(SumOver(lo, hi), Negated(b))
    BY <1>9 DEF Sub
  <2>2. CASE "nan" \in Tags(S) \/ Infinities(S) = {-1, 1}
    <3>1. SumOver(lo, hi) = NaN /\ SumOver(lo + 1, hi) = NaN
      BY <1>3, <1>4, <1>5, <1>6, <2>2
    <3>2. FloatAdd(SumOver(lo, hi), Negated(b)) = NaN
      BY <3>1, FloatAddIs DEF NaN
    <3> QED BY <2>1, <3>1, <3>2 DEF b
  <2>3. CASE "nan" \notin Tags(S) /\ Infinities(S) = {}
    <3>1. SumOver(lo, hi) = Fin(r) /\ SumOver(lo + 1, hi) = Fin(rest)
      BY <1>3, <1>4, <1>5, <1>6, <1>9, <2>3
    <3>2. SumOver(lo, hi).tag = "fin" /\ SumOver(lo, hi).v = r
      BY <3>1 DEF Fin
    <3>3. FloatAdd(SumOver(lo, hi), Negated(b)) = Fin(r + (-b.v))
      BY <1>7, <3>2, FloatAddIs
    <3>4. r + (-b.v) = rest
      BY <1>1, <1>2
    <3> QED BY <2>1, <3>1, <3>3, <3>4 DEF b
  <2>4. CASE "nan" \notin Tags(S) /\ \E s \in {-1, 1} : Infinities(S) = {s}
    <3>1. PICK s \in {-1, 1} : Infinities(S) = {s}
      BY <2>4
    <3>2. SumOver(lo, hi) = Inf(s) /\ SumOver(lo + 1, hi) = Inf(s)
      BY <1>3, <1>4, <1>5, <1>6, <2>4, <3>1
    <3>3. SumOver(lo, hi).tag = "inf"
      BY <3>2 DEF Inf
    <3>4. FloatAdd(SumOver(lo, hi), Negated(b)) = SumOver(lo, hi)
      BY <1>7, <3>3, FloatAddIs
    <3> QED BY <2>1, <3>2, <3>4 DEF b
  <2> QED BY <1>3, <2>2, <2>3, <2>4
<1> QED BY <1>8, <1>9

\* Adding and subtracting, in the type of the column.
LEMMA AddType ==
    ASSUME NEW a \in Numbers, NEW b \in Numbers
    PROVE  /\ Add(a, b) \in Numbers /\ Sub(a, b) \in Numbers
           /\ type = "i64" => /\ Add(a, b).tag = "fin" /\ Add(a, b).v \in -Half..(Half - 1)
                              /\ Sub(a, b).tag = "fin" /\ Sub(a, b).v = Wrap(a.v - b.v)
                              /\ Sub(a, b).v \in -Half..(Half - 1)
           /\ type # "i64" /\ a.tag = "fin" /\ b.tag = "fin" => Sub(a, b).v = a.v - b.v
<1>1. a.v \in Int /\ b.v \in Int
  BY NumberIs
<1>2. CASE type = "i64"
  <2>1. Wrap(a.v + b.v) \in -Half..(Half - 1) /\ Wrap(a.v - b.v) \in -Half..(Half - 1) /\ Half \in Nat
    <3>1. a.v + b.v \in Int /\ a.v - b.v \in Int
      BY <1>1
    <3> QED BY <3>1, WrapIs, WindowAssumption
  <2>2. \A x \in Int : Fin(x) \in Numbers /\ Fin(x).tag = "fin" /\ Fin(x).v = x
    BY DEF Numbers, Fin
  <2> QED BY <1>2, <2>1, <2>2 DEF Add, Sub
<1>3. CASE type # "i64"
  <2>1. FloatAdd(a, b) \in Numbers /\ Negated(b) \in Numbers /\ Negated(b).tag = b.tag /\ Negated(b).v = -b.v
    BY FloatAddType
  <2>2. FloatAdd(a, Negated(b)) \in Numbers
    BY <2>1, FloatAddType
  <2>3. ASSUME a.tag = "fin", b.tag = "fin" PROVE FloatAdd(a, Negated(b)).v = a.v - b.v
    <3>1. FloatAdd(a, Negated(b)) = Fin(a.v + (-b.v))
      BY <2>1, <2>3, FloatAddIs
    <3> QED BY <1>1, <3>1 DEF Fin
  <2> QED BY <1>3, <2>1, <2>2, <2>3 DEF Add, Sub
<1> QED BY <1>2, <1>3

\* What has been put out: numbers, over counts.
Outputs == [sum : Numbers, count : Nat]

\* The running sum is the sum of the window, as long as what has left is finite.
Running ==
    op # "deltas" /\ (\A x \in 1..(Len(outs) - n) : values[x].tag = "fin") =>
        windowSum = SumOver(WindowStart(Len(outs)), Len(outs))

RollInv ==
    /\ RollTypeOK /\ Column /\ windowSum \in Numbers /\ outs \in Seq(Outputs)
    /\ Running /\ WindowExact /\ DeltasTelescope

\* The column stays, and all that is defined from it.
LEMMA SameColumn ==
    ASSUME UNCHANGED rollInput
    PROVE  /\ UNCHANGED <<op, type, values, n>> /\ Column' = Column
           /\ \A f, lo, hi : RangeSum(f, lo, hi)' = RangeSum(f, lo, hi)
           /\ \A lo, hi : SumOver(lo, hi)' = SumOver(lo, hi)
           /\ \A i : WindowStart(i)' = WindowStart(i) /\ Divisor(i)' = Divisor(i)
<1>1. UNCHANGED <<op, type, values, n>>
  BY DEF rollInput
<1>2. \A f, lo, hi : RangeSum(f, lo, hi)' = RangeSum(f, lo, hi)
  BY <1>1 DEF RangeSum
<1>3. Amounts' = Amounts /\ \A S : Tags(S)' = Tags(S) /\ Infinities(S)' = Infinities(S)
  BY <1>1 DEF Amounts, Tags, Infinities
<1>4. \A lo, hi : RangeSum(Amounts, lo, hi)' = RangeSum(Amounts, lo, hi)
  BY <1>1, <1>3 DEF RangeSum
<1>5. \A lo, hi : SumOver(lo, hi)' = SumOver(lo, hi)
  <2> TAKE lo, hi
  <2> DEFINE Of(t, i, r, y) ==
                 IF "nan" \in t \/ i = {-1, 1} THEN NaN
                 ELSE IF "inf" \in t THEN Inf(CHOOSE s \in i : TRUE)
                 ELSE Fin(IF y = "i64" THEN Wrap(r) ELSE r)
  <2>1. SumOver(lo, hi) = Of(Tags(lo..hi), Infinities(lo..hi), RangeSum(Amounts, lo, hi), type)
    BY DEF SumOver
  <2>2. SumOver(lo, hi)' = Of(Tags(lo..hi)', Infinities(lo..hi)', RangeSum(Amounts, lo, hi)', type')
    BY DEF SumOver, Wrap
  <2> HIDE DEF Of
  <2> QED BY <1>1, <1>3, <1>4, <2>1, <2>2
<1>6. \A i : WindowStart(i)' = WindowStart(i)
  BY <1>1 DEF WindowStart
<1>7. \A i : Divisor(i)' = Divisor(i)
  BY <1>1, <1>6 DEF Divisor, Window
<1>8. Column' = Column
  BY <1>1 DEF Column
<1> QED BY <1>1, <1>2, <1>5, <1>6, <1>7, <1>8

\* The window that ends at h, and how many values it has.
LEMMA WindowIs ==
    ASSUME n \in Nat \ {0}, NEW h \in Nat \ {0}
    PROVE  /\ WindowStart(h) \in Nat \ {0} /\ WindowStart(h) <= h
           /\ WindowStart(h - 1) \in Nat \ {0} /\ WindowStart(h - 1) <= h
           /\ h > n => WindowStart(h - 1) = h - n /\ WindowStart(h) = (h - n) + 1
           /\ ~(h > n) => WindowStart(h - 1) = 1 /\ WindowStart(h) = 1
           /\ Cardinality(Window(h)) = IF h < n THEN h ELSE n
<1>1. /\ WindowStart(h) \in Nat \ {0} /\ WindowStart(h) <= h
      /\ WindowStart(h - 1) \in Nat \ {0} /\ WindowStart(h - 1) <= h
      /\ h > n => WindowStart(h - 1) = h - n /\ WindowStart(h) = (h - n) + 1
      /\ ~(h > n) => WindowStart(h - 1) = 1 /\ WindowStart(h) = 1
  BY DEF WindowStart
<1>2. WindowStart(h) \in Int /\ h \in Int
  BY <1>1
<1>3. Cardinality(Window(h)) = IF WindowStart(h) > h THEN 0 ELSE h - WindowStart(h) + 1
  BY <1>2, FS_Interval DEF Window
<1> QED BY <1>1, <1>3

\* One turn of the loop of mavg or msum: the sum slides with its window.
LEMMA SlideIs ==
    ASSUME RollInv, op # "deltas", HasNext
    PROVE  /\ Slide \in Numbers
           /\ type = "i64" => Slide.tag = "fin" /\ Slide.v \in -Half..(Half - 1)
           /\ (\A x \in 1..(Here - n) : values[x].tag = "fin") => Slide = SumOver(WindowStart(Here), Here)
<1> DEFINE l == Len(outs)
           h == Here
<1>0. /\ l \in Nat /\ Len(values) \in Nat /\ l + 1 <= Len(values) /\ h = l + 1 /\ h \in Nat \ {0} /\ h - 1 = l
      /\ n \in Nat \ {0} /\ DOMAIN values = 1..Len(values) /\ windowSum \in Numbers /\ Column
      /\ \A x \in DOMAIN values : values[x] \in Numbers
  BY DEF RollInv, RollTypeOK, Column, HasNext, Here
<1> HIDE DEF l, h
<1>1. h \in DOMAIN values /\ l \in 0..Len(values) /\ h \in 0..Len(values) /\ (h > n => h - n \in DOMAIN values)
  BY <1>0
<1>2. Slide = IF h > n THEN Sub(Add(windowSum, values[h]), values[h - n]) ELSE Add(windowSum, values[h])
  BY DEF Slide, h
<1>3. /\ Add(windowSum, values[h]) \in Numbers
      /\ type = "i64" => Add(windowSum, values[h]).tag = "fin" /\ Add(windowSum, values[h]).v \in -Half..(Half - 1)
  BY <1>0, <1>1, AddType
<1>4. h > n => /\ Sub(Add(windowSum, values[h]), values[h - n]) \in Numbers
               /\ type = "i64" => /\ Sub(Add(windowSum, values[h]), values[h - n]).tag = "fin"
                                  /\ Sub(Add(windowSum, values[h]), values[h - n]).v \in -Half..(Half - 1)
  BY <1>0, <1>1, <1>3, AddType
<1>5. ASSUME \A x \in 1..(h - n) : values[x].tag = "fin" PROVE Slide = SumOver(WindowStart(h), h)
  <2>1. windowSum = SumOver(WindowStart(l), l)
    <3>1. \A x \in 1..(l - n) : values[x].tag = "fin"
      BY <1>0, <1>5
    <3> QED BY <3>1 DEF RollInv, Running, l
  <2>2. /\ WindowStart(l) \in Nat \ {0} /\ WindowStart(l) <= l + 1
        /\ h > n => WindowStart(l) = h - n /\ WindowStart(h) = WindowStart(l) + 1
        /\ ~(h > n) => WindowStart(l) = WindowStart(h)
    BY <1>0, WindowIs
  <2>3. Add(windowSum, values[h]) = SumOver(WindowStart(l), h)
    BY <1>0, <1>1, <2>1, <2>2, AddEntering
  <2>4. CASE h > n
    <3>1. values[h - n].tag = "fin" /\ WindowStart(l) <= h
      BY <1>0, <1>5, <2>2, <2>4
    <3>2. Sub(SumOver(WindowStart(l), h), values[WindowStart(l)]) = SumOver(WindowStart(l) + 1, h)
      BY <1>0, <1>1, <2>2, <2>4, <3>1, SubLeaving
    <3> QED BY <1>2, <2>2, <2>3, <2>4, <3>2
  <2>5. CASE ~(h > n)
    BY <1>2, <2>2, <2>3, <2>5
  <2> QED BY <2>4, <2>5
<1> QED BY <1>2, <1>3, <1>4, <1>5 DEF h

\* What appending an output does.
LEMMA Appended ==
    ASSUME outs \in Seq(Outputs), NEW y \in Outputs, outs' = Append(outs, y)
    PROVE  /\ outs' \in Seq(Outputs) /\ Len(outs) \in Nat /\ Len(outs') = Len(outs) + 1
           /\ DOMAIN outs = 1..Len(outs) /\ DOMAIN outs' = 1..(Len(outs) + 1) /\ outs'[Len(outs) + 1] = y
           /\ \A i \in 1..Len(outs) : outs'[i] = outs[i]
OBVIOUS

\* mavg and msum keep the invariant.
LEMMA SlideKeeps ==
    ASSUME RollInv, op # "deltas", HasNext, windowSum' = Slide, UNCHANGED rollInput,
           outs' = Append(outs, [sum |-> Slide, count |-> Divisor(Here)])
    PROVE  RollInv'
<1> DEFINE l == Len(outs)
           h == Here
           y == [sum |-> Slide, count |-> Divisor(h)]
<1>0. /\ l \in Nat /\ Len(values) \in Nat /\ l + 1 <= Len(values) /\ h = l + 1 /\ h \in Nat \ {0}
      /\ n \in Nat \ {0} /\ Column /\ RollTypeOK /\ outs \in Seq(Outputs)
  BY DEF RollInv, RollTypeOK, Column, HasNext, Here
<1>1. /\ Slide \in Numbers
      /\ type = "i64" => Slide.tag = "fin" /\ Slide.v \in -Half..(Half - 1)
      /\ (\A x \in 1..(h - n) : values[x].tag = "fin") => Slide = SumOver(WindowStart(h), h)
  BY SlideIs
<1>2. Divisor(h) \in Nat
  <2> HIDE DEF h
  <2> QED BY <1>0, WindowIs DEF Divisor
<1>3. y \in Outputs /\ y.sum = Slide /\ outs' = Append(outs, y)
  BY <1>1, <1>2 DEF Outputs
<1>4. y = [sum |-> Slide, count |-> Divisor(h)]
  OBVIOUS
<1> HIDE DEF l, h, y
<1>5. /\ outs' \in Seq(Outputs) /\ Len(outs') = h /\ DOMAIN outs = 1..l /\ DOMAIN outs' = 1..h
      /\ outs'[h] = y /\ \A i \in 1..l : outs'[i] = outs[i]
  BY <1>0, <1>3, Appended DEF l
<1>6. /\ UNCHANGED <<op, type, values, n>> /\ Column' = Column
      /\ \A lo, hi : SumOver(lo, hi)' = SumOver(lo, hi)
      /\ \A i : WindowStart(i)' = WindowStart(i) /\ Divisor(i)' = Divisor(i)
  BY SameColumn
<1>7. \A i \in 1..h : i = h \/ i \in 1..l
  BY <1>0
<1>8. RollTypeOK'
  <2>1. windowSum'.tag \in {"fin", "inf", "nan"} /\ windowSum'.v \in Int
    BY <1>1, NumberIs
  <2>2. Len(outs') <= Len(values')
    BY <1>0, <1>5, <1>6
  <2>3. type = "i64" => \A i \in DOMAIN outs' : outs'[i].sum.v \in -Half..(Half - 1)
    BY <1>0, <1>1, <1>3, <1>5, <1>7 DEF RollTypeOK
  <2> QED BY <1>0, <1>1, <1>6, <2>1, <2>2, <2>3 DEF RollTypeOK
<1>9. Running'
  <2>1. \A i : SumOver(WindowStart(i), i)' = SumOver(WindowStart(i), i)
    BY <1>6 DEF WindowStart
  <2>2. (\A x \in 1..(h - n) : values[x].tag = "fin") => windowSum' = SumOver(WindowStart(h), h)
    BY <1>1
  <2>3. SumOver(WindowStart(Len(outs)), Len(outs))' = SumOver(WindowStart(h), h)
    BY <1>5, <1>6 DEF WindowStart
  <2> QED BY <1>5, <1>6, <2>2, <2>3 DEF Running
<1>10. WindowExact'
  <2>1. ASSUME NEW i \in 1..h, \A x \in 1..(i - n) : values[x].tag = "fin"
        PROVE  outs'[i] = [sum |-> SumOver(WindowStart(i), i), count |-> Divisor(i)]
    <3>1. CASE i = h
      BY <1>1, <1>4, <1>5, <2>1, <3>1
    <3>2. CASE i \in 1..l
      BY <1>5, <2>1, <3>2 DEF RollInv, WindowExact
    <3> QED BY <1>7, <3>1, <3>2
  <2>2. \A i : SumOver(WindowStart(i), i)' = SumOver(WindowStart(i), i)
    BY <1>6
  <2> QED BY <1>5, <1>6, <2>1, <2>2 DEF WindowExact
<1>11. DeltasTelescope'
  BY <1>6 DEF DeltasTelescope
<1> QED BY <1>0, <1>1, <1>5, <1>6, <1>8, <1>9, <1>10, <1>11 DEF RollInv

\* deltas loses nothing.
LEMMA DeltasKeeps == ASSUME RollInv, Deltas PROVE RollInv'
<1> DEFINE l == Len(outs)
           h == Here
           delta == IF h = 1 THEN values[1] ELSE Sub(values[h], values[h - 1])
           y == [sum |-> delta, count |-> 1]
<1>0. /\ l \in Nat /\ Len(values) \in Nat /\ l + 1 <= Len(values) /\ h = l + 1 /\ h \in Nat \ {0} /\ h - 1 = l
      /\ n \in Nat \ {0} /\ Column /\ RollTypeOK /\ outs \in Seq(Outputs) /\ DOMAIN values = 1..Len(values)
      /\ op = "deltas" /\ UNCHANGED <<rollInput, windowSum>>
      /\ \A x \in DOMAIN values :
            /\ values[x] \in Numbers
            /\ type = "i64" => values[x].tag = "fin" /\ values[x].v \in -Half..(Half - 1)
  BY DEF RollInv, RollTypeOK, Column, HasNext, Here, Deltas
<1>1. outs' = Append(outs, y)
  BY DEF Deltas
<1> HIDE DEF l, h
<1>2. h \in DOMAIN values /\ h \in 0..Len(values) /\ l \in 0..Len(values) /\ (h # 1 => l \in DOMAIN values /\ l \in 1..l)
  BY <1>0
<1>3. delta \in Numbers /\ (type = "i64" => delta.v \in -Half..(Half - 1))
  BY <1>0, <1>2, AddType
<1>4. y \in Outputs /\ y.sum = delta
  <2> HIDE DEF delta
  <2> QED BY <1>3 DEF Outputs
<1> HIDE DEF y
<1>5. /\ outs' \in Seq(Outputs) /\ Len(outs') = h /\ DOMAIN outs = 1..l /\ DOMAIN outs' = 1..h
      /\ outs'[h] = y /\ \A i \in 1..l : outs'[i] = outs[i]
  BY <1>0, <1>1, <1>4, Appended DEF l
<1>6. /\ UNCHANGED <<op, type, values, n>> /\ Column' = Column
      /\ \A f, lo, hi : RangeSum(f, lo, hi)' = RangeSum(f, lo, hi)
  BY <1>0, SameColumn
<1>7. \A i \in 1..h : i = h \/ i \in 1..l
  BY <1>0
<1>8. RollTypeOK'
  <2>1. Len(outs') <= Len(values')
    BY <1>0, <1>5, <1>6
  <2>2. type = "i64" => \A i \in DOMAIN outs' : outs'[i].sum.v \in -Half..(Half - 1)
    <3> HIDE DEF delta
    <3> QED BY <1>0, <1>3, <1>4, <1>5, <1>7 DEF RollTypeOK
  <2> QED BY <1>0, <1>6, <2>1, <2>2 DEF RollTypeOK
<1>9. Running' /\ WindowExact'
  BY <1>0, <1>6 DEF Running, WindowExact
<1>10. DeltasTelescope'
  <2> DEFINE f == [x \in 1..l |-> outs[x].sum.v]
             g == [x \in 1..h |-> outs'[x].sum.v]
             Total(r) == IF type = "i64" THEN Wrap(r) ELSE r
  <2>0. SUFFICES ASSUME \A x \in DOMAIN values : values[x].tag = "fin"
                 PROVE  \A i \in 1..h : values[i].v = Total(RangeSum(g, 1, i))
    <3>1. Tags(DOMAIN values)' \subseteq {"fin"} => \A x \in DOMAIN values : values[x].tag = "fin"
      BY <1>6 DEF Tags
    <3>2. ASSUME \A i \in 1..h : values[i].v = Total(RangeSum(g, 1, i)), NEW i \in DOMAIN outs'
          PROVE  (LET sum == RangeSum([x \in DOMAIN outs |-> outs[x].sum.v], 1, i)
                  IN  values[i].v = IF type = "i64" THEN Wrap(sum) ELSE sum)'
      <4> DEFINE put == [x \in DOMAIN outs |-> outs[x].sum.v]
      <4>1. put' = g
        BY <1>5
      <4>2. RangeSum(put, 1, i)' = RangeSum(g, 1, i)
        BY <1>6, <4>1 DEF RangeSum
      <4>3. (values[i].v = IF type = "i64" THEN Wrap(RangeSum(put, 1, i)) ELSE RangeSum(put, 1, i))'
        BY <1>5, <1>6, <3>2, <4>2 DEF Wrap
      <4> QED BY <4>3
    <3> QED BY <3>1, <3>2 DEF DeltasTelescope
  <2>1. \A i \in 1..l : values[i].v = Total(RangeSum(f, 1, i))
    <3>1. Tags(DOMAIN values) \subseteq {"fin"}
      BY <2>0 DEF Tags
    <3> QED BY <1>0, <1>5, <3>1 DEF RollInv, DeltasTelescope
  <2>2. /\ \A x \in 1..l : f[x] = g[x] /\ f[x] \in Int
        /\ g[h] = delta.v /\ delta.v \in Int /\ \A x \in DOMAIN values : values[x].v \in Int
    <3>1. \A x \in 1..l : outs[x] \in Outputs
      BY <1>0 DEF l
    <3>2. \A x \in 1..l : outs[x].sum.v \in Int
      BY <3>1, NumberIs DEF Outputs
    <3>3. delta.v \in Int /\ \A x \in DOMAIN values : values[x].v \in Int
      BY <1>0, <1>3, NumberIs
    <3>4. \A x \in 1..l : x \in 1..h
      BY <1>0
    <3>5. h \in 1..h
      BY <1>0
    <3> HIDE DEF delta
    <3> QED BY <1>4, <1>5, <3>2, <3>3, <3>4, <3>5
  <2> HIDE DEF f, g
  <2>3. ASSUME NEW i \in 1..l PROVE values[i].v = Total(RangeSum(g, 1, i))
    <3>1. i \in 0..Len(values) /\ (\A x \in 1..i : x \in 1..l) /\ 1 \in Nat \ {0}
      BY <1>0
    <3>2. RangeSum(f, 1, i) = RangeSum(g, 1, i)
      BY <1>0, <2>2, <3>1, RangeSumSame
    <3> QED BY <2>1, <3>2
  <2>4. RangeSum(g, 1, h) = RangeSum(f, 1, l) + delta.v
    <3>1. 1 \in Nat \ {0} /\ ~(h < 1)
      BY <1>0
    <3>2. RangeSum(g, 1, h) = IF h < 1 THEN 0 ELSE RangeSum(g, 1, h - 1) + g[h]
      BY <1>0, <1>2, <3>1, RangeSumUnfolds
    <3>3. RangeSum(f, 1, l) = RangeSum(g, 1, l)
      BY <1>0, <1>2, <2>2, <3>1, RangeSumSame
    <3> HIDE DEF delta
    <3> QED BY <1>0, <2>2, <3>1, <3>2, <3>3
  <2>5. RangeSum(f, 1, l) \in Int
    <3>1. 1 \in Nat \ {0}
      OBVIOUS
    <3> QED BY <1>0, <1>2, <2>2, <3>1, RangeSumType
  <2>6. values[h].v = Total(RangeSum(g, 1, h))
    <3> DEFINE r == RangeSum(f, 1, l)
               b == values[h].v
    <3>0. r \in Int /\ b \in Int /\ (type = "i64" => b \in -Half..(Half - 1)) /\ RangeSum(g, 1, h) = r + delta.v
      BY <1>0, <1>2, <2>2, <2>4, <2>5
    <3> HIDE DEF r, b
    <3>1. CASE h = 1
      <4>1. r = 0
        <5>1. 0 \in 0..Len(values) /\ 1 \in Nat \ {0} /\ l = 0 /\ 0 < 1
          BY <1>0, <3>1
        <5>2. RangeSum(f, 1, 0) = IF 0 < 1 THEN 0 ELSE RangeSum(f, 1, 0 - 1) + f[0]
          BY <1>0, <5>1, RangeSumUnfolds
        <5> QED BY <5>1, <5>2 DEF r
      <4>2. delta.v = b
        BY <3>1 DEF b
      <4>3. RangeSum(g, 1, h) = b
        <5> HIDE DEF delta
        <5> QED BY <3>0, <4>1, <4>2
      <4>4. type = "i64" => Wrap(b) = b
        BY <3>0, WrapSteps
      <4> QED BY <4>3, <4>4 DEF b
    <3>2. CASE h # 1
      <4> DEFINE a == values[l].v
      <4>1. a \in Int /\ a = Total(r) /\ delta = Sub(values[h], values[l]) /\ values[h].tag = "fin" /\ values[l].tag = "fin"
        BY <1>0, <1>2, <2>0, <2>1, <2>2, <3>2 DEF r
      <4>2. delta.v = IF type = "i64" THEN Wrap(b - a) ELSE b - a
        <5>1. values[h] \in Numbers /\ values[l] \in Numbers
          BY <1>0, <1>2, <3>2
        <5> HIDE DEF delta
        <5>2. Sub(values[h], values[l]).v = IF type = "i64" THEN Wrap(values[h].v - values[l].v)
                                            ELSE values[h].v - values[l].v
          BY <4>1, <5>1, AddType
        <5> QED BY <4>1, <5>2 DEF b
      <4> HIDE DEF a, delta
      <4>3. CASE type = "i64"
        <5>1. a = Wrap(r) /\ delta.v = Wrap(b - a) /\ b - a \in Int
          BY <3>0, <4>1, <4>2, <4>3
        <5>2. Wrap(r + Wrap(b - a)) = Wrap(r + (b - a))
          BY <3>0, <5>1, WrapSteps
        <5>3. Wrap(Wrap(r) + (b - a)) = Wrap(r + (b - a))
          BY <3>0, <5>1, WrapSteps
        <5>4. a + (b - a) = b
          BY <3>0, <4>1
        <5>5. Wrap(b) = b
          BY <3>0, <4>3, WrapSteps
        <5>6. Wrap(RangeSum(g, 1, h)) = b
          BY <3>0, <5>1, <5>2, <5>3, <5>4, <5>5
        <5> QED BY <4>3, <5>6 DEF b
      <4>4. CASE type # "i64"
        <5>1. r + (b - r) = b
          BY <3>0
        <5> QED BY <3>0, <4>1, <4>2, <4>4, <5>1 DEF b
      <4> QED BY <4>3, <4>4
    <3> QED BY <3>1, <3>2
  <2> HIDE DEF Total
  <2> QED BY <1>7, <2>3, <2>6
<1> QED BY <1>0, <1>5, <1>6, <1>8, <1>9, <1>10 DEF RollInv

\* Nothing has been put out before the first value.
LEMMA InitRoll == RollInit => RollInv
<1> SUFFICES ASSUME RollInit PROVE RollInv
  OBVIOUS
<1>1. /\ type \in {"f64", "i64"} /\ op \in {"mavg", "msum", "deltas"} /\ n \in Nat \ {0}
      /\ windowSum = Fin(0) /\ outs = <<>> /\ Half \in Nat \ {0}
  BY WindowAssumption DEF RollInit, WindowSize
<1>2. windowSum.tag = "fin" /\ windowSum.v = 0 /\ windowSum \in Numbers
  BY <1>1 DEF Fin, Numbers
<1>3. PICK l \in 0..MaxLen : values \in [1..l -> IF type = "f64" THEN Floats ELSE {Fin(x) : x \in Ints}]
  BY DEF RollInit
<1>4. l \in Nat /\ Floats \subseteq Numbers /\ Ints \subseteq -Half..(Half - 1)
  BY WindowAssumption
<1>5. ASSUME NEW x \in Ints PROVE Fin(x) \in Numbers /\ Fin(x).tag = "fin" /\ Fin(x).v \in -Half..(Half - 1)
  <2>1. x \in -Half..(Half - 1) /\ x \in Int
    BY <1>1, <1>4
  <2> QED BY <2>1 DEF Fin, Numbers
<1>6. \A x \in 1..l : /\ values[x] \in Numbers
                      /\ type = "i64" => values[x].tag = "fin" /\ values[x].v \in -Half..(Half - 1)
  <2>1. CASE type = "f64"
    BY <1>3, <1>4, <2>1
  <2>2. CASE type = "i64"
    <3>1. \A x \in 1..l : values[x] \in {Fin(z) : z \in Ints}
      BY <1>3, <2>2
    <3> QED BY <1>5, <3>1
  <2> QED BY <1>1, <2>1, <2>2
<1>7. Column
  <2>1. DOMAIN values = 1..l /\ Len(values) = l
    BY <1>3, <1>4
  <2> QED BY <1>4, <1>6, <2>1 DEF Column
<1>8. Len(outs) = 0 /\ DOMAIN outs = {} /\ outs \in Seq(Outputs)
  BY <1>1
<1>9. RollTypeOK
  <2>1. Len(outs) <= Len(values)
    BY <1>7, <1>8 DEF Column
  <2> QED BY <1>1, <1>2, <1>8, <2>1 DEF RollTypeOK
<1>10. Running
  <2>1. WindowStart(0) = 1
    BY <1>1 DEF WindowStart
  <2>2. SumOver(1, 0) = Fin(0)
    <3>1. 1 \in Nat \ {0} /\ 0 \in 0..Len(values) /\ 1..0 = {} /\ Len(values) \in Nat /\ 0 < 1
      BY <1>7 DEF Column
    <3>2. "nan" \notin Tags(1..0) /\ Infinities(1..0) = {}
      BY <3>1 DEF Tags, Infinities
    <3>3. RangeSum(Amounts, 1, 0) = IF 0 < 1 THEN 0 ELSE RangeSum(Amounts, 1, 0 - 1) + Amounts[0]
      BY <3>1, RangeSumUnfolds
    <3>4. Wrap(0) = 0
      <4>1. 0 \in Int /\ 0 \in -Half..(Half - 1)
        BY <1>1
      <4> QED BY <4>1, WrapSteps
    <3>5. SumOver(1, 0) = Fin(IF type = "i64" THEN Wrap(RangeSum(Amounts, 1, 0)) ELSE RangeSum(Amounts, 1, 0))
      BY <1>7, <3>1, <3>2, SumIs
    <3> QED BY <3>1, <3>3, <3>4, <3>5
  <2> QED BY <1>1, <1>8, <2>1, <2>2 DEF Running
<1>11. WindowExact /\ DeltasTelescope
  BY <1>8 DEF WindowExact, DeltasTelescope
<1> QED BY <1>2, <1>7, <1>8, <1>9, <1>10, <1>11 DEF RollInv

\* Every turn of the loops keeps the invariant.
LEMMA NextRoll == RollInv /\ [RollNext]_rollVars => RollInv'
<1> SUFFICES ASSUME RollInv, [RollNext]_rollVars PROVE RollInv'
  OBVIOUS
<1>0. n \in Nat \ {0} /\ Here \in Nat \ {0}
  BY DEF RollInv, RollTypeOK, Here
<1>1. CASE Mavg
  <2>1. Divisor(Here) = IF Here < n THEN Here ELSE n
    BY <1>0, <1>1, WindowIs DEF Mavg, Divisor
  <2> QED BY <1>1, <2>1, SlideKeeps DEF Mavg
<1>2. CASE Msum
  <2>1. Divisor(Here) = 1
    BY <1>2 DEF Msum, Divisor
  <2> QED BY <1>2, <2>1, SlideKeeps DEF Msum
<1>3. CASE Deltas
  BY <1>3, DeltasKeeps
<1>4. CASE UNCHANGED rollVars
  <2>1. UNCHANGED <<rollInput, windowSum, outs>>
    BY <1>4 DEF rollVars
  <2>2. /\ UNCHANGED <<op, type, values, n>> /\ Column' = Column
        /\ \A lo, hi : SumOver(lo, hi)' = SumOver(lo, hi)
        /\ \A i : WindowStart(i)' = WindowStart(i) /\ Divisor(i)' = Divisor(i)
    BY <2>1, SameColumn
  <2>3. RollTypeOK'
    BY <2>1, <2>2 DEF RollInv, RollTypeOK
  <2>4. Running'
    <3>1. SumOver(WindowStart(Len(outs)), Len(outs))' = SumOver(WindowStart(Len(outs)), Len(outs))
      BY <2>1, <2>2 DEF WindowStart
    <3> QED BY <2>1, <2>2, <3>1 DEF RollInv, Running
  <2>5. WindowExact'
    <3>1. \A i : SumOver(WindowStart(i), i)' = SumOver(WindowStart(i), i)
      BY <2>2
    <3> QED BY <2>1, <2>2, <3>1 DEF RollInv, WindowExact
  <2>6. DeltasTelescope'
    <3> DEFINE put == [x \in DOMAIN outs |-> outs[x].sum.v]
               Right(i) == values[i].v = IF type = "i64" THEN Wrap(RangeSum(put, 1, i)) ELSE RangeSum(put, 1, i)
    <3>1. put' = put /\ Tags(DOMAIN values)' = Tags(DOMAIN values)
      BY <2>1, <2>2 DEF Tags
    <3>2. ASSUME NEW i PROVE RangeSum(put, 1, i)' = RangeSum(put, 1, i)
      <4>1. PICK f : f = put
        OBVIOUS
      <4>2. put' = f
        BY <3>1, <4>1
      <4> HIDE DEF put
      <4>3. RangeSum(put, 1, i)' = RangeSum(f, 1, i)
        BY <2>2, <4>2 DEF RangeSum
      <4> QED BY <4>1, <4>3
    <3>3. ASSUME NEW i PROVE Right(i)' <=> Right(i)
      BY <2>2, <3>2 DEF Wrap
    <3>4. DeltasTelescope <=> (op = "deltas" /\ Tags(DOMAIN values) \subseteq {"fin"} => \A i \in DOMAIN outs : Right(i))
      BY DEF DeltasTelescope
    <3>5. DeltasTelescope' <=> (op = "deltas" /\ Tags(DOMAIN values) \subseteq {"fin"} => \A i \in DOMAIN outs : Right(i))'
      BY DEF DeltasTelescope
    <3> HIDE DEF Right
    <3> QED BY <2>1, <2>2, <3>1, <3>3, <3>4, <3>5 DEF RollInv
  <2> QED BY <2>1, <2>2, <2>3, <2>4, <2>5, <2>6 DEF RollInv
<1> QED BY <1>1, <1>2, <1>3, <1>4 DEF RollNext, RollEnds

\* mavg, msum and deltas put out what their definitions say, for columns of any
\* length, windows of any size and integers of any width: an i64 that overflowed
\* on the way is right again when it fits, and an infinity or a NaN does harm
\* only once it has left the window.
THEOREM WindowsAreExact == RollSpec => []OutputsExact
<1>1. RollInv => OutputsExact
  BY DEF RollInv, OutputsExact
<1> QED BY <1>1, InitRoll, NextRoll, PTL DEF RollSpec

-------------------------------------------------------------------------------
\* The library's join shares the names of the columns, the output and the control
\* state with BucketJoin; the rest of its state is its own.  Of its constants only
\* Calls is not BucketJoin's, and nothing is assumed of Calls.
CONSTANT Calls

VARIABLES call, order, p, j, last

Asof == INSTANCE AsofJoin

\* The order visited is a permutation along which the left times ascend.
OrderSound ==
    /\ pc = "begin" =>
          /\ order = [a \in 1..Asof!n |-> a]
          /\ p = 1 /\ j = 0 /\ last = 0
          /\ call = "sorted" => Asof!Ascending(left)
    /\ pc # "begin" =>
          /\ \A a \in 1..Asof!n : \E b \in 1..Asof!n : order[b] = a
          /\ \A a, b \in 1..Asof!n : a < b => left[order[a]] <= left[order[b]]

AsofInv == Asof!TypeOK /\ OrderSound /\ Asof!MergeSound /\ Asof!EveryLeftMatched

\* Columns hold numbers.
LEMMA ColumnLengths ==
    ASSUME left \in Asof!ColumnsUpTo(MaxLeft), right \in Asof!ColumnsUpTo(MaxRight)
    PROVE  /\ Asof!n \in Nat /\ left \in [1..Asof!n -> Int]
           /\ Asof!m \in Nat /\ right \in [1..Asof!m -> Int]
<1>1. ASSUME NEW len \in Nat, NEW s \in Asof!ColumnsUpTo(len)
      PROVE  Len(s) \in Nat /\ s \in [1..Len(s) -> Int]
  <2>1. PICK l \in 0..len : s \in [1..l -> Times]
    BY DEF Asof!ColumnsUpTo
  <2>2. l \in Nat /\ Len(s) = l
    BY <2>1
  <2> QED BY <2>1, <2>2, ColumnsAssumption
<1> QED BY <1>1, ColumnsAssumption DEF Asof!n, Asof!m

\* The two positions are in their ranges.
LEMMA Lengths ==
    ASSUME Asof!TypeOK
    PROVE  /\ Asof!n \in Nat /\ left \in [1..Asof!n -> Int]
           /\ Asof!m \in Nat /\ right \in [1..Asof!m -> Int]
           /\ p \in Nat /\ j \in Nat
           /\ 1 <= p /\ p <= Asof!n + 1 /\ j <= Asof!m
BY ColumnLengths DEF Asof!TypeOK

\* The types hold of the initial states and are kept by every step.
LEMMA AsofTypeInductive ==
    /\ Asof!Init => Asof!TypeOK
    /\ Asof!TypeOK /\ [Asof!Next]_Asof!vars => Asof!TypeOK'
<1>1. Asof!Init => Asof!TypeOK
  BY ColumnLengths DEF Asof!Init, Asof!TypeOK
<1>2. ASSUME Asof!TypeOK, [Asof!Next]_Asof!vars PROVE Asof!TypeOK'
  <2>0. /\ Asof!n \in Nat /\ Asof!m \in Nat /\ p \in Nat /\ j \in Nat
        /\ 1 <= p /\ p <= Asof!n + 1 /\ j <= Asof!m
    BY <1>2, Lengths
  <2>1. CASE Asof!Begin
    <3>1. order' \in [1..Asof!n -> 1..Asof!n]
      BY <1>2, <2>1 DEF Asof!TypeOK, Asof!Begin, Asof!Argsorts
    <3> QED BY <1>2, <2>1, <3>1 DEF Asof!TypeOK, Asof!Begin, Asof!input, Asof!n, Asof!m
  <2>2. CASE Asof!Advance
    BY <1>2, <2>0, <2>2 DEF Asof!TypeOK, Asof!Advance, Asof!Passes, Asof!input, Asof!n, Asof!m
  <2>3. CASE Asof!Emit
    <3>1. order[p] \in 1..Asof!n
      BY <1>2, <2>0, <2>3 DEF Asof!TypeOK, Asof!Emit
    <3> QED BY <1>2, <2>0, <2>3, <3>1 DEF Asof!TypeOK, Asof!Emit, Asof!input, Asof!n, Asof!m
  <2>4. CASE Asof!Finish
    BY <1>2, <2>4 DEF Asof!TypeOK, Asof!Finish, Asof!input, Asof!n, Asof!m
  <2>5. CASE Asof!Finished \/ UNCHANGED Asof!vars
    BY <1>2, <2>5 DEF Asof!TypeOK, Asof!Finished, Asof!vars, Asof!input, Asof!n, Asof!m
  <2> QED BY <1>2, <2>1, <2>2, <2>3, <2>4, <2>5 DEF Asof!Next
<1> QED BY <1>1, <1>2

\* The variables hold values of their types, for columns of every length.
THEOREM AsofTypeCorrect == Asof!Spec => []Asof!TypeOK
BY AsofTypeInductive, PTL DEF Asof!Spec

\* Emitting is right: with the pointer stopped, the row last passed is the as-of
\* match, because the right times ascend.
LEMMA StoppedPointerIsAsof ==
    ASSUME Asof!TypeOK, Asof!MergeSound, Asof!Ascending(right), Asof!Emit
    PROVE  Asof!IsAsof(left[order[p]], last)
<1>1. last = j /\ p \in 1..Asof!n /\ j \in 0..Asof!m /\ Asof!n \in Nat /\ Asof!m \in Nat
  BY Lengths DEF Asof!TypeOK, Asof!Emit, Asof!MergeSound
<1>2. left[order[p]] \in Int /\ \A b \in 1..Asof!m : right[b] \in Int
  BY <1>1, Lengths DEF Asof!TypeOK
<1>3. last # 0 => right[last] <= left[order[p]]
  <2>1. p \in p..Asof!n
    BY <1>1 DEF Asof!TypeOK
  <2> QED BY <1>1, <2>1 DEF Asof!MergeSound, Asof!Emit
<1>4. ASSUME NEW b \in 1..Asof!m, right[b] <= left[order[p]] PROVE b <= last
  <2>1. SUFFICES ASSUME b > j PROVE FALSE
    BY <1>1, <1>4 DEF Asof!TypeOK
  <2>2. j < Asof!m /\ j + 1 \in 1..Asof!m
    BY <1>1, <2>1 DEF Asof!TypeOK
  <2>3. right[j + 1] > left[order[p]]
    BY <1>1, <1>2, <2>2 DEF Asof!Emit, Asof!Passes
  <2>4. right[j + 1] <= right[b]
    BY <1>1, <1>2, <2>1, <2>2 DEF Asof!Ascending, Asof!m
  <2> QED BY <1>2, <1>4, <2>2, <2>3, <2>4
<1> QED BY <1>3, <1>4 DEF Asof!IsAsof, Asof!m

\* The invariant of the merge is kept by every step.
LEMMA MergeInductive ==
    ASSUME AsofInv, [Asof!Next]_Asof!vars
    PROVE  AsofInv'
<1>0. Asof!TypeOK /\ OrderSound /\ Asof!MergeSound /\ Asof!EveryLeftMatched
  BY DEF AsofInv
<1>t. Asof!TypeOK'
  BY AsofTypeInductive, <1>0
<1>n. /\ Asof!n \in Nat /\ Asof!m \in Nat /\ p \in Nat /\ j \in Nat
      /\ 1 <= p /\ p <= Asof!n + 1 /\ j <= Asof!m
  BY <1>0, Lengths
<1>i. \A i \in 1..Asof!m : right[i] \in Int
  BY <1>0, Lengths
<1>l. \A i \in 1..Asof!n : left[i] \in Int
  BY <1>0, Lengths
<1>1. CASE Asof!Begin
  <2>1. OrderSound'
    <3>1. /\ \A a \in 1..Asof!n : \E b \in 1..Asof!n : order'[b] = a
          /\ \A a, b \in 1..Asof!n : a < b => left[order'[a]] <= left[order'[b]]
      <4>1. CASE call = "sorted"
        BY <1>0, <1>1, <4>1 DEF Asof!Begin, OrderSound, Asof!Ascending, Asof!n
      <4>2. CASE call # "sorted"
        BY <1>1, <4>2 DEF Asof!Begin, Asof!Argsorts
      <4> QED BY <4>1, <4>2
    <3> QED BY <1>0, <1>1, <3>1 DEF Asof!Begin, OrderSound, Asof!Ascending, Asof!input, Asof!n, Asof!m
  <2>2. Asof!MergeSound'
    BY <1>0, <1>1 DEF Asof!Begin, OrderSound, Asof!MergeSound, Asof!input, Asof!n, Asof!m
  <2>3. Asof!EveryLeftMatched'
    BY <1>1 DEF Asof!Begin, Asof!EveryLeftMatched
  <2> QED BY <1>t, <2>1, <2>2, <2>3 DEF AsofInv
<1>2. CASE Asof!Advance
  <2>1. OrderSound'
    BY <1>0, <1>2 DEF Asof!Advance, OrderSound, Asof!Ascending, Asof!input, Asof!n, Asof!m
  <2>2. Asof!MergeSound'
    <3>1. ASSUME NEW q \in p..Asof!n PROVE right[j + 1] <= left[order[q]]
      <4>1. p \in 1..Asof!n /\ q \in 1..Asof!n /\ order[p] \in 1..Asof!n /\ order[q] \in 1..Asof!n /\ j + 1 \in 1..Asof!m
        BY <1>n, <1>0, <1>2 DEF Asof!TypeOK, Asof!Advance, Asof!Passes
      <4>2. left[order[p]] <= left[order[q]]
        BY <1>0, <1>2, <1>l, <4>1 DEF Asof!Advance, OrderSound
      <4> QED BY <1>2, <1>i, <1>l, <4>1, <4>2 DEF Asof!Advance, Asof!Passes
    <3>2. ASSUME NEW b \in 1..(j + 1), NEW q \in p..Asof!n PROVE right[b] <= left[order[q]]
      <4>1. b \in 1..j \/ b = j + 1
        BY <1>n
      <4> QED BY <1>0, <1>2, <3>1, <4>1 DEF Asof!Advance, Asof!MergeSound
    <3>3. Asof!Ascending(right) => \A q \in 1..(p - 1) : Asof!IsAsof(left[order[q]], out[order[q]])
      BY <1>0, <1>2 DEF Asof!Advance, Asof!MergeSound
    <3> QED BY <1>n, <1>2, <3>2, <3>3
            DEF Asof!Advance, Asof!MergeSound, Asof!Ascending, Asof!IsAsof, Asof!input, Asof!n, Asof!m
  <2>3. Asof!EveryLeftMatched'
    BY <1>2 DEF Asof!Advance, Asof!EveryLeftMatched
  <2> QED BY <1>t, <2>1, <2>2, <2>3 DEF AsofInv
<1>3. CASE Asof!Emit
  <2>1. OrderSound'
    BY <1>0, <1>3 DEF Asof!Emit, OrderSound, Asof!Ascending, Asof!input, Asof!n, Asof!m
  <2>2. Asof!MergeSound'
    <3>1. p \in 1..Asof!n /\ order \in [1..Asof!n -> 1..Asof!n] /\ out \in [1..Asof!n -> 0..Asof!m]
      <4>1. p <= Asof!n
        BY <1>3 DEF Asof!Emit
      <4>2. p \in 1..Asof!n
        BY <1>n, <4>1
      <4>3. order \in [1..Asof!n -> 1..Asof!n] /\ out \in [1..Asof!n -> 0..Asof!m]
        BY <1>0 DEF Asof!TypeOK
      <4> QED BY <4>2, <4>3
    <3>2. Asof!Ascending(right) => Asof!IsAsof(left[order[p]], last)
      BY <1>0, <1>3, StoppedPointerIsAsof
    <3>3. ASSUME Asof!Ascending(right), NEW q \in 1..p PROVE Asof!IsAsof(left[order[q]], out'[order[q]])
      <4>1. order[q] \in 1..Asof!n /\ q \in 1..Asof!n
        BY <1>n, <3>1
      <4>2. CASE order[q] = order[p]
        BY <1>3, <3>1, <3>2, <3>3, <4>1, <4>2 DEF Asof!Emit
      <4>3. CASE order[q] # order[p]
        <5>1. q \in 1..(p - 1)
          BY <1>n, <3>1, <4>3
        <5>2. Asof!IsAsof(left[order[q]], out[order[q]])
          BY <1>0, <1>3, <3>3, <5>1 DEF Asof!MergeSound, Asof!Emit
        <5> QED BY <1>3, <3>1, <4>1, <4>3, <5>2 DEF Asof!Emit
      <4> QED BY <4>2, <4>3
    <3>4. \A b \in 1..j : \A q \in (p + 1)..Asof!n : right[b] <= left[order[q]]
      BY <1>n, <1>0, <1>3, <3>1 DEF Asof!Emit, Asof!MergeSound
    <3>5. last = j
      BY <1>0, <1>3 DEF Asof!Emit, Asof!MergeSound
    <3> QED BY <1>n, <1>3, <3>1, <3>3, <3>4, <3>5
            DEF Asof!Emit, Asof!MergeSound, Asof!Ascending, Asof!IsAsof, Asof!input, Asof!n, Asof!m
  <2>3. Asof!EveryLeftMatched'
    BY <1>3 DEF Asof!Emit, Asof!EveryLeftMatched
  <2> QED BY <1>t, <2>1, <2>2, <2>3 DEF AsofInv
<1>4. CASE Asof!Finish
  <2>1. OrderSound'
    BY <1>0, <1>4 DEF Asof!Finish, OrderSound, Asof!Ascending, Asof!input, Asof!n, Asof!m
  <2>2. ASSUME Asof!Ascending(right), NEW a \in 1..Asof!n PROVE Asof!IsAsof(left[a], out[a])
    <3>1. PICK b \in 1..Asof!n : order[b] = a
      BY <1>0, <1>4 DEF Asof!Finish, OrderSound
    <3>2. b \in 1..(p - 1)
      BY <1>n, <1>0, <1>4 DEF Asof!Finish, Asof!TypeOK
    <3> QED BY <1>0, <1>4, <2>2, <3>1, <3>2 DEF Asof!Finish, Asof!MergeSound
  <2>3. Asof!EveryLeftMatched'
    BY <1>4, <2>2
       DEF Asof!Finish, Asof!EveryLeftMatched, Asof!Ascending, Asof!IsAsof, Asof!input, Asof!n, Asof!m
  <2>4. Asof!MergeSound'
    BY <1>4 DEF Asof!Finish, Asof!MergeSound
  <2> QED BY <1>t, <2>1, <2>3, <2>4 DEF AsofInv
<1>5. CASE Asof!Finished \/ UNCHANGED Asof!vars
  BY <1>0, <1>t, <1>5
     DEF Asof!Finished, Asof!vars, Asof!input, Asof!n, Asof!m, AsofInv, OrderSound,
         Asof!Ascending, Asof!MergeSound, Asof!EveryLeftMatched, Asof!IsAsof
<1> QED BY <1>1, <1>2, <1>3, <1>4, <1>5 DEF Asof!Next

\* If the right times ascend, every left time gets its as-of match: of equal
\* right times the last, none before the first, each at its place in the input.
THEOREM JoinIsCorrect == Asof!Spec => [](Asof!MergeSound /\ EveryLeftMatched)
<1>1. Asof!Init => AsofInv
  <2>1. Asof!Init => Asof!TypeOK
    BY AsofTypeInductive
  <2> QED BY <2>1 DEF Asof!Init, AsofInv, OrderSound, Asof!MergeSound, Asof!EveryLeftMatched
<1>2. AsofInv /\ [Asof!Next]_Asof!vars => AsofInv'
  BY MergeInductive
<1>3. AsofInv => Asof!MergeSound /\ EveryLeftMatched
  BY DEF AsofInv, EveryLeftMatched, Ascending, IsAsof, Asof!EveryLeftMatched, Asof!Ascending, Asof!IsAsof
<1> QED BY <1>1, <1>2, <1>3, PTL DEF Asof!Spec
================================================================================
