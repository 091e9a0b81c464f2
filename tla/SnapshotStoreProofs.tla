-------------------------- MODULE SnapshotStoreProofs --------------------------
(***************************************************************************)
(* SnapshotStore, proved for any tables, timestamps and batches: the       *)
(* vector of a table stays in timestamp order, the past is immutable, and  *)
(* the store implements VersionMap.                                        *)
(***************************************************************************)
EXTENDS SnapshotStore, FiniteSetTheorems, TLAPS

\* A non-empty set of natural numbers has a least element: the least of the
\* intervals 0..n by inclusion.
LEMMA LeastNatural ==
    ASSUME NEW T \in SUBSET Nat, T # {}
    PROVE  \E m \in T : \A k \in T : m <= k
<1> DEFINE F == {0..n : n \in T}
<1>1. F \subseteq FiniteSubsetsOf(Nat)
  <2> SUFFICES ASSUME NEW n \in T PROVE 0..n \in SUBSET Nat /\ IsFiniteSet(0..n)
    BY DEF FiniteSubsetsOf
  <2> QED BY FS_Interval
<1>2. F # {}
  OBVIOUS
<1>3. PICK x \in F : \A y \in F : ~(<<y, x>> \in StrictSubsetOrdering(Nat))
  <2> HIDE DEF F
  <2> QED BY <1>1, <1>2, FS_StrictSubsetOrderingWellFounded, WFMin
<1>4. PICK m \in T : x = 0..m
  OBVIOUS
<1>5. ASSUME NEW k \in T, k < m PROVE FALSE
  <2>1. 0..k \in F /\ 0..k \subseteq x /\ 0..k # x
    <3>1. m \in x /\ m \notin 0..k
      BY <1>4, <1>5
    <3> QED BY <1>4, <1>5, <3>1
  <2>2. <<0..k, x>> \in StrictSubsetOrdering(Nat)
    BY <2>1, <1>4 DEF StrictSubsetOrdering
  <2> QED BY <1>3, <2>1, <2>2
<1> QED BY <1>5

\* A non-empty set of indices of a vector has a last one.
LEMMA LastIndex ==
    ASSUME NEW n \in Nat, NEW S \in SUBSET (1..n), S # {}
    PROVE  \E m \in S : \A k \in S : k <= m
<1> DEFINE T == {n - i : i \in S}
<1>1. T \in SUBSET Nat /\ T # {}
  <2>1. PICK i \in S : TRUE
    OBVIOUS
  <2>2. n - i \in T
    BY <2>1
  <2>3. \A j \in S : n - j \in Nat
    OBVIOUS
  <2> QED BY <2>2, <2>3
<1>2. PICK d \in T : \A k \in T : d <= k
  <2> HIDE DEF T
  <2> QED BY <1>1, LeastNatural
<1>3. PICK m \in S : d = n - m
  OBVIOUS
<1>4. \A k \in S : k <= m
  BY <1>2, <1>3
<1> QED BY <1>4

--------------------------------------------------------------------------------
\* A vector in timestamp order.
InOrder(v) == \A i, j \in DOMAIN v : i < j => v[i].timestamp <= v[j].timestamp

\* A snapshot has a timestamp and at least one batch.
LEMMA SnapshotFields ==
    ASSUME NEW x \in Snapshot
    PROVE  /\ x.timestamp \in Times /\ x.timestamp \in Int
           /\ x.batches \in BatchVecs /\ x.batches # <<>>
<1>1. Times \subseteq Int
  BY StoreAssumption
<1>2. x.timestamp \in Times /\ x.batches \in BatchVecs \ {<<>>}
  BY DEF Snapshot
<1> QED BY <1>1, <1>2

\* How many leading snapshots of a vector in order are not after ts.
LEMMA NotAfterIsPrefix ==
    ASSUME NEW v \in Seq(Snapshot), InOrder(v), NEW ts \in Int
    PROVE  \E k \in 0..Len(v) : \A i \in 1..Len(v) : v[i].timestamp <= ts <=> i <= k
<1> DEFINE S == {i \in 1..Len(v) : v[i].timestamp <= ts}
<1>0. Len(v) \in Nat /\ DOMAIN v = 1..Len(v) /\ \A i \in 1..Len(v) : v[i].timestamp \in Int
  <2>1. Len(v) \in Nat /\ DOMAIN v = 1..Len(v) /\ \A i \in 1..Len(v) : v[i] \in Snapshot
    OBVIOUS
  <2> QED BY <2>1, SnapshotFields
<1>1. CASE S = {}
  <2>1. \A i \in 1..Len(v) : v[i].timestamp <= ts <=> i <= 0
    BY <1>0, <1>1
  <2> QED BY <1>0, <2>1
<1>2. CASE S # {}
  <2>1. PICK k \in S : \A i \in S : i <= k
    <3>1. S \in SUBSET (1..Len(v))
      OBVIOUS
    <3> HIDE DEF S
    <3> QED BY <1>0, <1>2, <3>1, LastIndex
  <2>2. \A i \in 1..Len(v) : v[i].timestamp <= ts <=> i <= k
    <3> SUFFICES ASSUME NEW i \in 1..Len(v), i < k PROVE v[i].timestamp <= ts
      BY <1>0, <2>1
    <3> QED BY <1>0, <2>1 DEF InOrder
  <2>3. k \in 0..Len(v)
    BY <1>0
  <2> QED BY <2>2, <2>3
<1> QED BY <1>1, <1>2

\* A snapshot pushed at the end of a vector in order can be sorted in: it goes
\* behind every snapshot that is not after it.
LEMMA PushCanBeSorted ==
    ASSUME NEW v \in Seq(Snapshot), InOrder(v), NEW x \in Snapshot
    PROVE  LET w == Append(v, x)
           IN  \E p \in [DOMAIN w -> DOMAIN w] : SortedBy(w, p)
<1> DEFINE w == Append(v, x)
           n == Len(v)
<1>0. n \in Nat /\ DOMAIN v = 1..n /\ DOMAIN w = 1..(n + 1)
  OBVIOUS
<1>1. \A i \in 1..n : w[i] = v[i] /\ v[i].timestamp \in Int
  <2>1. \A i \in 1..n : w[i] = v[i] /\ v[i] \in Snapshot
    OBVIOUS
  <2> QED BY <2>1, SnapshotFields
<1>2. w[n + 1] = x /\ x.timestamp \in Int
  BY SnapshotFields
<1>3. PICK k \in 0..n : \A i \in 1..n : v[i].timestamp <= x.timestamp <=> i <= k
  <2> HIDE DEF w
  <2>1. \A ts \in Int : \E k \in 0..n : \A i \in 1..n : v[i].timestamp <= ts <=> i <= k
    BY NotAfterIsPrefix
  <2> QED BY <1>2, <2>1
<1> DEFINE p == [i \in 1..(n + 1) |-> IF i <= k THEN i ELSE IF i = k + 1 THEN n + 1 ELSE i - 1]
<1>4. p \in [1..(n + 1) -> 1..(n + 1)]
  BY <1>0, <1>3
<1>5. ASSUME NEW i \in 1..(n + 1) PROVE \E j \in 1..(n + 1) : p[j] = i
  <2>1. CASE i <= k
    <3>1. p[i] = i
      BY <2>1
    <3> QED BY <3>1
  <2>2. CASE i = n + 1
    <3>1. k + 1 \in 1..(n + 1) /\ p[k + 1] = n + 1
      BY <1>0, <1>3
    <3> QED BY <2>2, <3>1
  <2>3. CASE i > k /\ i # n + 1
    <3>1. i + 1 \in 1..(n + 1) /\ p[i + 1] = i
      BY <1>0, <1>3, <2>3
    <3> QED BY <3>1
  <2> QED BY <1>0, <1>3, <2>1, <2>2, <2>3
<1>6. ASSUME NEW i \in 1..(n + 1), NEW j \in 1..(n + 1), i < j
      PROVE  \/ w[p[i]].timestamp < w[p[j]].timestamp
             \/ w[p[i]].timestamp = w[p[j]].timestamp /\ p[i] < p[j]
  <2> HIDE DEF w
  <2>1. CASE j <= k
    <3>1. p[i] = i /\ p[j] = j /\ w[i] = v[i] /\ w[j] = v[j]
      BY <1>0, <1>1, <1>3, <1>6, <2>1
    <3> QED BY <1>0, <1>1, <1>3, <1>6, <2>1, <3>1 DEF InOrder
  <2>2. CASE i <= k /\ j = k + 1
    <3>1. p[i] = i /\ p[j] = n + 1 /\ w[i] = v[i] /\ w[n + 1] = x
      BY <1>0, <1>1, <1>2, <1>3, <1>6, <2>2
    <3> QED BY <1>0, <1>1, <1>2, <1>3, <2>2, <3>1
  <2>3. CASE i <= k /\ j > k + 1
    <3>1. p[i] = i /\ p[j] = j - 1 /\ w[i] = v[i] /\ w[j - 1] = v[j - 1]
      BY <1>0, <1>1, <1>3, <1>6, <2>3
    <3> QED BY <1>0, <1>1, <1>2, <1>3, <2>3, <3>1
  <2>4. CASE i = k + 1
    <3>1. p[i] = n + 1 /\ p[j] = j - 1 /\ w[n + 1] = x /\ w[j - 1] = v[j - 1]
      BY <1>0, <1>1, <1>2, <1>3, <1>6, <2>4
    <3> QED BY <1>0, <1>1, <1>2, <1>3, <1>6, <2>4, <3>1
  <2>5. CASE i > k + 1
    <3>1. p[i] = i - 1 /\ p[j] = j - 1
      BY <1>0, <1>3, <1>6, <2>5
    <3>2. i - 1 \in 1..n /\ j - 1 \in 1..n /\ i - 1 < j - 1
      BY <1>0, <1>3, <1>6, <2>5
    <3>3. w[i - 1] = v[i - 1] /\ w[j - 1] = v[j - 1]
      BY <1>1, <3>2
    <3>4. v[i - 1].timestamp <= v[j - 1].timestamp
      BY <1>0, <3>2 DEF InOrder
    <3>5. v[i - 1].timestamp \in Int /\ v[j - 1].timestamp \in Int
      BY <1>1, <3>2
    <3> HIDE DEF p
    <3> QED BY <3>1, <3>2, <3>3, <3>4, <3>5
  <2> QED BY <1>0, <1>3, <1>6, <2>1, <2>2, <2>3, <2>4, <2>5
<1>7. SortedBy(w, p)
  <2> HIDE DEF w, p
  <2> QED BY <1>0, <1>5, <1>6 DEF SortedBy
<1>8. p \in [DOMAIN w -> DOMAIN w]
  BY <1>0, <1>4
<1> HIDE DEF p
<1> QED BY <1>7, <1>8

\* What sorting the pushed vector gives.
LEMMA SortEffect ==
    ASSUME NEW v \in Seq(Snapshot), InOrder(v), NEW x \in Snapshot
    PROVE  LET w == Append(v, x)
               s == SortByTimestamp(w)
           IN  /\ s \in Seq(Snapshot) /\ DOMAIN s = DOMAIN w
               /\ InOrder(s)
               /\ \E p \in [DOMAIN w -> DOMAIN w] :
                     /\ SortedBy(w, p)
                     /\ \A i \in DOMAIN w : s[i] = w[p[i]]
<1> DEFINE w == Append(v, x)
           p == CHOOSE q \in [DOMAIN w -> DOMAIN w] : SortedBy(w, q)
           s == SortByTimestamp(w)
<1>1. w \in Seq(Snapshot) /\ DOMAIN w = 1..Len(w) /\ Len(w) \in Nat
  OBVIOUS
<1>2. p \in [DOMAIN w -> DOMAIN w] /\ SortedBy(w, p)
  BY PushCanBeSorted
<1>3. s = [i \in DOMAIN w |-> w[p[i]]]
  BY DEF SortByTimestamp
<1> HIDE DEF w, p, s
<1>4. \A i \in DOMAIN w : w[i] \in Snapshot /\ w[i].timestamp \in Int
  <2>1. \A i \in DOMAIN w : w[i] \in Snapshot
    BY <1>1
  <2> QED BY <2>1, SnapshotFields
<1>5. s \in Seq(Snapshot)
  <2>1. s \in [1..Len(w) -> Snapshot]
    BY <1>1, <1>2, <1>3, <1>4
  <2> QED BY <1>1, <2>1
<1>6. InOrder(s)
  BY <1>2, <1>3, <1>4 DEF InOrder, SortedBy
<1>7. DOMAIN s = DOMAIN w /\ \A i \in DOMAIN w : s[i] = w[p[i]]
  BY <1>3
<1> QED BY <1>2, <1>5, <1>6, <1>7 DEF w, s

--------------------------------------------------------------------------------
\* What the backward scan of as_of finds in a vector.
LEMMA FindLastEffect ==
    ASSUME NEW v \in Seq(Snapshot), NEW time
    PROVE  LET i == FindLast(v, time)
           IN  \/ i = 0 /\ \A j \in DOMAIN v : ~(v[j].timestamp <= time)
               \/ /\ i \in DOMAIN v /\ i # 0 /\ v[i].timestamp <= time
                  /\ \A j \in DOMAIN v : v[j].timestamp <= time => j <= i
<1> DEFINE hits == {i \in DOMAIN v : v[i].timestamp <= time}
<1>0. Len(v) \in Nat /\ DOMAIN v = 1..Len(v)
  OBVIOUS
<1>1. CASE hits = {}
  BY <1>1 DEF FindLast
<1>2. CASE hits # {}
  <2>1. \E i \in hits : \A j \in hits : j <= i
    <3>1. hits \in SUBSET (1..Len(v))
      BY <1>0
    <3> HIDE DEF hits
    <3> QED BY <1>0, <1>2, <3>1, LastIndex
  <2>2. FindLast(v, time) = CHOOSE i \in hits : \A j \in hits : j <= i
    BY <1>2 DEF FindLast
  <2>3. FindLast(v, time) \in hits /\ \A j \in hits : j <= FindLast(v, time)
    <3> HIDE DEF hits
    <3> QED BY <2>1, <2>2
  <2> QED BY <1>0, <2>3
<1> QED BY <1>1, <1>2

\* The state a store is created in.
LEMMA InitInv == Init => Ordered
<1> SUFFICES ASSUME Init PROVE Ordered
  OBVIOUS
<1>1. <<>> \in BatchVecs
  <2>1. <<>> \in [1..0 -> Batches] /\ 0 \in 0..MaxBatches
    BY StoreAssumption
  <2> QED BY <2>1 DEF BatchVecs
<1>2. TypeOK
  BY <1>1 DEF Init, TypeOK, Ok
<1> QED BY <1>2 DEF Init, Ordered

\* Every call keeps the vectors in order.
LEMMA NextInv == Ordered /\ [Next]_vars => Ordered'
<1> SUFFICES ASSUME Ordered, [Next]_vars PROVE Ordered'
  OBVIOUS
<1>0. <<>> \in BatchVecs
  <2>1. <<>> \in [1..0 -> Batches] /\ 0 \in 0..MaxBatches
    BY StoreAssumption
  <2> QED BY <2>1 DEF BatchVecs
<1>1. ASSUME answer' \in [ok : BOOLEAN, batches : BatchVecs], UNCHANGED <<schema, snapshots>>
      PROVE  Ordered'
  BY <1>1 DEF Ordered, TypeOK
<1>2. CASE InsertEmpty
  BY <1>0, <1>1, <1>2 DEF InsertEmpty, Err
<1>3. ASSUME NEW t \in Tables, NEW b \in BatchVecs, InsertMismatch(t, b) PROVE Ordered'
  BY <1>0, <1>1, <1>3 DEF InsertMismatch, Err
<1>4. ASSUME NEW t \in Tables, NEW b \in BatchVecs, NEW ts \in Times, Insert(t, ts, b) PROVE Ordered'
  <2> DEFINE x == [timestamp |-> ts, batches |-> b]
             s == SortByTimestamp(Append(snapshots[t], x))
  <2>1. x \in Snapshot /\ snapshots[t] \in Seq(Snapshot) /\ InOrder(snapshots[t])
    BY <1>4 DEF Insert, Snapshot, Ordered, TypeOK, InOrder
  <2>2. s \in Seq(Snapshot) /\ InOrder(s) /\ s # <<>>
    <3>1. s \in Seq(Snapshot) /\ InOrder(s) /\ DOMAIN s = DOMAIN Append(snapshots[t], x)
      BY <2>1, SortEffect
    <3> HIDE DEF s, x
    <3>2. Len(Append(snapshots[t], x)) = Len(snapshots[t]) + 1 /\ Len(snapshots[t]) \in Nat
      BY <2>1
    <3>3. DOMAIN Append(snapshots[t], x) = 1..(Len(snapshots[t]) + 1)
      BY <2>1
    <3>4. 1 \in DOMAIN s
      BY <3>1, <3>2, <3>3
    <3> QED BY <3>1, <3>4
  <2>3. SchemaOf[b[1]] \in Schemas /\ SchemaOf[b[1]] # NoSchema
    <3>1. b[1] \in Batches
      BY <1>4 DEF Insert, BatchVecs
    <3> QED BY <3>1, StoreAssumption
  <2>4. /\ snapshots' = [snapshots EXCEPT ![t] = s]
        /\ schema' = [schema EXCEPT ![t] = SchemaOf[b[1]]]
        /\ answer' = Ok(<<>>)
    BY <1>4 DEF Insert
  <2> HIDE DEF s
  <2>5. TypeOK'
    BY <1>0, <2>2, <2>3, <2>4 DEF Ordered, TypeOK, Ok
  <2> QED BY <2>2, <2>3, <2>4, <2>5 DEF Ordered, TypeOK, InOrder
<1>5. ASSUME NEW t \in Tables, Latest(t) PROVE Ordered'
  <2>1. snapshots[t] # <<>> => snapshots[t][Len(snapshots[t])] \in Snapshot
    BY DEF Ordered, TypeOK
  <2>2. snapshots[t] # <<>> => snapshots[t][Len(snapshots[t])].batches \in BatchVecs
    BY <2>1, SnapshotFields
  <2> QED BY <1>0, <1>1, <1>5, <2>2 DEF Latest, Err, Ok
<1>6. ASSUME NEW t \in Tables, NEW time \in Times, AsOf(t, time) PROVE Ordered'
  <2> DEFINE i == FindLast(snapshots[t], time)
  <2>1. i # 0 => i \in DOMAIN snapshots[t]
    BY FindLastEffect DEF Ordered, TypeOK
  <2>2. i # 0 => snapshots[t][i] \in Snapshot
    BY <2>1 DEF Ordered, TypeOK
  <2>3. i # 0 => snapshots[t][i].batches \in BatchVecs
    BY <2>2, SnapshotFields
  <2> QED BY <1>0, <1>1, <1>6, <2>3 DEF AsOf, Err, Ok
<1>7. CASE UNCHANGED vars
  BY <1>1, <1>7 DEF vars, Ordered, TypeOK
<1> QED BY <1>2, <1>3, <1>4, <1>5, <1>6, <1>7 DEF Next

\* Hence they always are.
THEOREM StoreInOrder == Spec => []Ordered
BY InitInv, NextInv, PTL DEF Spec

--------------------------------------------------------------------------------
\* LastAt is the batches of the last snapshot with the timestamp.
LEMMA LastAtIs ==
    ASSUME NEW v \in Seq(Snapshot), NEW i \in DOMAIN v,
           \A j \in DOMAIN v : v[j].timestamp = v[i].timestamp => j <= i
    PROVE  LastAt(v, v[i].timestamp) = v[i].batches
<1> DEFINE at == {k \in DOMAIN v : v[k].timestamp = v[i].timestamp}
<1>0. DOMAIN v \subseteq Int
  OBVIOUS
<1>1. i \in at /\ \A j \in at : j <= i
  OBVIOUS
<1>2. \A k \in at : (\A j \in at : j <= k) => k = i
  BY <1>0, <1>1
<1>3. LastAt(v, v[i].timestamp) = v[CHOOSE k \in at : \A j \in at : j <= k].batches
  BY <1>1 DEF LastAt
<1> HIDE DEF at
<1> QED BY <1>1, <1>2, <1>3

\* It is none exactly when nothing is recorded at the timestamp.
LEMMA LastAtKinds ==
    ASSUME NEW v \in Seq(Snapshot), NEW ts
    PROVE  \/ LastAt(v, ts) = <<>> /\ \A i \in DOMAIN v : v[i].timestamp # ts
           \/ \E i \in DOMAIN v :
                 /\ v[i].timestamp = ts
                 /\ \A j \in DOMAIN v : v[j].timestamp = ts => j <= i
                 /\ LastAt(v, ts) = v[i].batches /\ v[i].batches # <<>>
<1> DEFINE at == {i \in DOMAIN v : v[i].timestamp = ts}
<1>1. CASE at = {}
  BY <1>1 DEF LastAt
<1>2. CASE at # {}
  <2>1. Len(v) \in Nat /\ at \in SUBSET (1..Len(v)) /\ \A i \in DOMAIN v : v[i] \in Snapshot
    OBVIOUS
  <2>2. PICK i \in at : \A j \in at : j <= i
    <3> HIDE DEF at
    <3> QED BY <1>2, <2>1, LastIndex
  <2>3. LastAt(v, ts) = v[i].batches
    BY <2>2, LastAtIs
  <2>4. v[i].batches # <<>>
    BY <2>1, SnapshotFields
  <2> QED BY <2>2, <2>3, <2>4
<1> QED BY <1>1, <1>2

\* An insert records its batches at its timestamp and changes no other.
LEMMA InsertRecords ==
    ASSUME NEW v \in Seq(Snapshot), InOrder(v), NEW x \in Snapshot, NEW ts
    PROVE  LastAt(SortByTimestamp(Append(v, x)), ts)
             = IF ts = x.timestamp THEN x.batches ELSE LastAt(v, ts)
<1> DEFINE n == Len(v)
           w == Append(v, x)
           s == SortByTimestamp(w)
<1>0. n \in Nat /\ DOMAIN v = 1..n /\ DOMAIN w = 1..(n + 1) /\ w[n + 1] = x
      /\ \A i \in 1..n : w[i] = v[i]
  OBVIOUS
<1>1. s \in Seq(Snapshot) /\ DOMAIN s = DOMAIN w
  BY SortEffect
<1>2. PICK p \in [DOMAIN w -> DOMAIN w] : SortedBy(w, p) /\ \A i \in DOMAIN w : s[i] = w[p[i]]
  BY SortEffect
<1>3. \A i \in DOMAIN w : \E j \in DOMAIN w : p[j] = i
  BY <1>2 DEF SortedBy
<1>4. ASSUME NEW i \in DOMAIN w, NEW j \in DOMAIN w, i < j, s[i].timestamp = s[j].timestamp,
             s[i].timestamp \in Int
      PROVE  p[i] < p[j]
  <2> HIDE DEF w, s
  <2> QED BY <1>2, <1>4 DEF SortedBy
<1>5. ASSUME NEW m \in DOMAIN w, \A j \in DOMAIN w : w[j].timestamp = w[m].timestamp => j <= m
      PROVE  LastAt(s, w[m].timestamp) = w[m].batches
  <2> HIDE DEF w, s
  <2>1. PICK i \in DOMAIN w : p[i] = m
    BY <1>3
  <2>2. s[i] = w[m] /\ w[m].timestamp \in Int
    <3>1. s[i] = w[m]
      BY <1>2, <2>1
    <3>2. s[i] \in Snapshot
      BY <1>1
    <3> QED BY <3>1, <3>2, SnapshotFields
  <2>3. ASSUME NEW j \in DOMAIN s, s[j].timestamp = s[i].timestamp, ~(j <= i) PROVE FALSE
    <3>1. i < j
      BY <1>0, <1>1, <2>3
    <3>2. p[i] < p[j]
      BY <1>1, <1>4, <2>2, <2>3, <3>1
    <3>3. p[j] \in DOMAIN w /\ w[p[j]].timestamp = w[m].timestamp
      BY <1>1, <1>2, <2>2, <2>3
    <3>4. p[j] <= m
      BY <1>5, <3>3
    <3> QED BY <1>0, <2>1, <3>2, <3>3, <3>4
  <2>4. \A j \in DOMAIN s : s[j].timestamp = s[i].timestamp => j <= i
    BY <2>3
  <2>5. LastAt(s, s[i].timestamp) = s[i].batches
    BY <1>1, <2>4, LastAtIs
  <2> QED BY <2>2, <2>5
<1> HIDE DEF w, s
<1>6. CASE ts = x.timestamp
  <2>1. \A j \in DOMAIN w : j <= n + 1
    BY <1>0
  <2> QED BY <1>0, <1>5, <1>6, <2>1 DEF w, s
<1>7. CASE ts # x.timestamp /\ \A i \in DOMAIN v : v[i].timestamp # ts
  <2>1. \A i \in DOMAIN w : w[i].timestamp # ts
    BY <1>0, <1>7
  <2>2. \A i \in DOMAIN s : s[i].timestamp # ts
    BY <1>1, <1>2, <2>1
  <2>3. LastAt(s, ts) = <<>>
    BY <1>1, <2>2, LastAtKinds
  <2>4. LastAt(v, ts) = <<>>
    BY <1>7, LastAtKinds
  <2> QED BY <1>7, <2>3, <2>4 DEF w, s
<1>8. CASE ts # x.timestamp /\ \E i \in DOMAIN v : v[i].timestamp = ts
  <2>1. PICK i \in DOMAIN v : /\ v[i].timestamp = ts
                              /\ \A j \in DOMAIN v : v[j].timestamp = ts => j <= i
                              /\ LastAt(v, ts) = v[i].batches
    BY <1>8, LastAtKinds
  <2>2. i \in DOMAIN w /\ w[i] = v[i]
    BY <1>0
  <2>3. \A j \in DOMAIN w : w[j].timestamp = w[i].timestamp => j <= i
    BY <1>0, <1>8, <2>1, <2>2
  <2>4. LastAt(s, ts) = w[i].batches
    BY <1>5, <2>1, <2>2, <2>3
  <2> QED BY <1>8, <2>1, <2>2, <2>4 DEF w, s
<1> QED BY <1>6, <1>7, <1>8

--------------------------------------------------------------------------------
\* The abstract state.
Recorded == [t \in Tables |-> [ts \in Times |-> LastAt(snapshots[t], ts)]]

\* What a read that chooses the snapshot i promises: i is the last of the newest
\* timestamp among those it may see.
LEMMA ReadIsNewest ==
    ASSUME NEW v \in Seq(Snapshot), InOrder(v), NEW C \in SUBSET Times, NEW i \in DOMAIN v,
           v[i].timestamp \in C,
           \A j \in DOMAIN v : v[j].timestamp \in C => j <= i,
           \A ts \in C : LastAt(v, ts) # <<>>
    PROVE  /\ Abstract!Max(C) = v[i].timestamp
           /\ LastAt(v, v[i].timestamp) = v[i].batches
<1>0. C \subseteq Int /\ DOMAIN v \subseteq Int
  BY StoreAssumption
<1>1. ASSUME NEW ts \in C PROVE ts <= v[i].timestamp
  <2>1. PICK j \in DOMAIN v : v[j].timestamp = ts
    BY <1>1, LastAtKinds
  <2>2. j <= i
    BY <1>1, <2>1
  <2>3. CASE j = i
    BY <1>0, <1>1, <2>1, <2>3
  <2>4. CASE j < i
    BY <2>1, <2>4 DEF InOrder
  <2> QED BY <1>0, <2>2, <2>3, <2>4
<1>2. \A y \in C : v[i].timestamp >= y
  BY <1>0, <1>1
<1>3. \A y \in C : (\A z \in C : y >= z) => y = v[i].timestamp
  BY <1>0, <1>1
<1>4. Abstract!Max(C) = v[i].timestamp
  BY <1>2, <1>3 DEF Abstract!Max
<1>5. \A j \in DOMAIN v : v[j].timestamp = v[i].timestamp => j <= i
  OBVIOUS
<1> QED BY <1>4, <1>5, LastAtIs

\* as_of is the abstract read of the versions not after the time.
LEMMA AsOfRefines ==
    ASSUME Ordered, NEW t \in Tables, NEW time \in Times, AsOf(t, time)
    PROVE  Abstract!AsOf(t, time)
<1> DEFINE v == snapshots[t]
           i == FindLast(v, time)
           C == {ts \in Times : Recorded[t][ts] # <<>> /\ ts <= time}
<1>1. v \in Seq(Snapshot) /\ InOrder(v)
  BY DEF Ordered, TypeOK, InOrder
<1>2. \A ts \in Times : Recorded[t][ts] = LastAt(v, ts)
  BY DEF Recorded
<1>3. \A j \in DOMAIN v : v[j].timestamp \in Times
  <2>1. \A j \in DOMAIN v : v[j] \in Snapshot
    BY <1>1
  <2> QED BY <2>1, SnapshotFields
<1>4. \A j \in DOMAIN v : v[j].timestamp \in C <=> v[j].timestamp <= time
  <2> SUFFICES ASSUME NEW j \in DOMAIN v PROVE LastAt(v, v[j].timestamp) # <<>>
    BY <1>2, <1>3
  <2> QED BY <1>1, LastAtKinds
<1>5. UNCHANGED snapshots /\ answer' = IF i = 0 THEN Err ELSE Ok(v[i].batches)
  BY DEF AsOf
<1>6. Abstract!AsOf(t, time) <=>
        /\ answer' = IF C = {} THEN Err ELSE Ok(Recorded[t][Abstract!Max(C)])
        /\ Recorded' = Recorded
  BY DEF Abstract!AsOf, Abstract!Newest, Abstract!Candidates, Abstract!Failed, Abstract!Found,
         Recorded, Err, Ok
<1>7. Recorded' = Recorded
  BY <1>5 DEF Recorded
<1> HIDE DEF v, i, C
<1>8. CASE i = 0
  <2>1. C = {}
    <3> SUFFICES ASSUME NEW ts \in C PROVE FALSE
      OBVIOUS
    <3>1. ts \in Times /\ LastAt(v, ts) # <<>> /\ ts <= time
      BY <1>2 DEF C
    <3>2. PICK j \in DOMAIN v : v[j].timestamp = ts
      BY <1>1, <3>1, LastAtKinds
    <3> QED BY <1>1, <1>8, <3>1, <3>2, FindLastEffect DEF i
  <2> QED BY <1>5, <1>6, <1>7, <1>8, <2>1
<1>9. CASE i # 0
  <2>1. i \in DOMAIN v /\ v[i].timestamp <= time /\ \A j \in DOMAIN v : v[j].timestamp <= time => j <= i
    BY <1>1, <1>9, FindLastEffect DEF i
  <2>2. v[i].timestamp \in C /\ \A j \in DOMAIN v : v[j].timestamp \in C => j <= i
    BY <1>4, <2>1
  <2>3. C \subseteq Times /\ \A ts \in C : LastAt(v, ts) # <<>>
    BY <1>2 DEF C
  <2>4. Abstract!Max(C) = v[i].timestamp /\ LastAt(v, v[i].timestamp) = v[i].batches
    BY <1>1, <2>1, <2>2, <2>3, ReadIsNewest
  <2>5. C # {} /\ Recorded[t][Abstract!Max(C)] = v[i].batches
    BY <1>2, <2>2, <2>3, <2>4
  <2> QED BY <1>5, <1>6, <1>7, <1>9, <2>5
<1> QED BY <1>8, <1>9

\* latest is the abstract read of all versions.
LEMMA LatestRefines ==
    ASSUME Ordered, NEW t \in Tables, Latest(t)
    PROVE  Abstract!Latest(t)
<1> DEFINE v == snapshots[t]
           i == Len(v)
           C == {ts \in Times : Recorded[t][ts] # <<>> /\ TRUE}
<1>1. v \in Seq(Snapshot) /\ InOrder(v)
  BY DEF Ordered, TypeOK, InOrder
<1>2. \A ts \in Times : Recorded[t][ts] = LastAt(v, ts)
  BY DEF Recorded
<1>3. \A j \in DOMAIN v : v[j].timestamp \in C
  <2> SUFFICES ASSUME NEW j \in DOMAIN v PROVE v[j].timestamp \in C
    OBVIOUS
  <2>1. v[j] \in Snapshot
    BY <1>1
  <2>2. v[j].timestamp \in Times /\ LastAt(v, v[j].timestamp) # <<>>
    BY <1>1, <2>1, SnapshotFields, LastAtKinds
  <2> QED BY <1>2, <2>2
<1>4. UNCHANGED snapshots /\ answer' = IF v = <<>> THEN Err ELSE Ok(v[i].batches)
  BY DEF Latest
<1>5. Abstract!Latest(t) <=>
        /\ answer' = IF C = {} THEN Err ELSE Ok(Recorded[t][Abstract!Max(C)])
        /\ Recorded' = Recorded
  BY DEF Abstract!Latest, Abstract!Newest, Abstract!Candidates, Abstract!Failed, Abstract!Found,
         Recorded, Err, Ok
<1>6. Recorded' = Recorded
  BY <1>4 DEF Recorded
<1>7. C \subseteq Times /\ \A ts \in C : LastAt(v, ts) # <<>>
  BY <1>2
<1> HIDE DEF v, i, C
<1>8. CASE v = <<>>
  <2>1. C = {}
    <3> SUFFICES ASSUME NEW ts \in C PROVE FALSE
      OBVIOUS
    <3>1. PICK j \in DOMAIN v : v[j].timestamp = ts
      BY <1>1, <1>7, LastAtKinds
    <3> QED BY <1>8, <3>1
  <2> QED BY <1>4, <1>5, <1>6, <1>8, <2>1
<1>9. CASE v # <<>>
  <2>1. i \in DOMAIN v /\ \A j \in DOMAIN v : j <= i
    BY <1>1, <1>9 DEF i
  <2>2. Abstract!Max(C) = v[i].timestamp /\ LastAt(v, v[i].timestamp) = v[i].batches
    BY <1>1, <1>3, <1>7, <2>1, ReadIsNewest
  <2>3. C # {} /\ Recorded[t][Abstract!Max(C)] = v[i].batches
    BY <1>2, <1>3, <1>7, <2>1, <2>2
  <2> QED BY <1>4, <1>5, <1>6, <1>9, <2>3
<1> QED BY <1>8, <1>9

\* insert records, or is refused.
LEMMA InsertRefines ==
    ASSUME Ordered, NEW t \in Tables, NEW ts \in Times, NEW b \in BatchVecs, Insert(t, ts, b)
    PROVE  b \in BatchVecs \ {<<>>} /\ Abstract!Record(t, ts, b)
<1> DEFINE x == [timestamp |-> ts, batches |-> b]
           s == SortByTimestamp(Append(snapshots[t], x))
<1>1. x \in Snapshot /\ x.timestamp = ts /\ x.batches = b
  BY DEF Insert, Snapshot
<1>2. snapshots[t] \in Seq(Snapshot) /\ InOrder(snapshots[t])
  BY DEF Ordered, TypeOK, InOrder
<1>3. snapshots' = [snapshots EXCEPT ![t] = s] /\ snapshots \in [Tables -> Seq(Snapshot)]
  BY DEF Insert, Ordered, TypeOK
<1> HIDE DEF x
<1>4. \A u \in Times : LastAt(s, u) = IF u = ts THEN b ELSE LastAt(snapshots[t], u)
  BY <1>1, <1>2, InsertRecords
<1> HIDE DEF s
<1>5. Recorded' = [Recorded EXCEPT ![t][ts] = b]
  <2>1. snapshots'[t] = s /\ \A o \in Tables \ {t} : snapshots'[o] = snapshots[o]
    BY <1>3
  <2>2. Recorded'[t] = [Recorded[t] EXCEPT ![ts] = b]
    BY <1>4, <2>1 DEF Recorded
  <2>3. \A o \in Tables \ {t} : Recorded'[o] = Recorded[o]
    BY <2>1 DEF Recorded
  <2>4. Recorded' = [o \in Tables |-> Recorded'[o]] /\ DOMAIN Recorded = Tables
    BY DEF Recorded
  <2> HIDE DEF Recorded
  <2> QED BY <2>2, <2>3, <2>4
<1>6. answer' = Ok(<<>>) /\ b # <<>>
  BY DEF Insert
<1> QED BY <1>5, <1>6 DEF Abstract!Record, Abstract!Done, Recorded, Ok

\* The store implements the version map: out-of-order inserts, repeated
\* timestamps and refused inserts are answered as by a plain map.
THEOREM StoreImplementsVersionMap == Spec => ImplementsVersionMap
<1>1. Init => Abstract!Init
  <2> SUFFICES ASSUME Init PROVE Abstract!Init
    OBVIOUS
  <2>1. \A t \in Tables, ts \in Times : LastAt(snapshots[t], ts) = <<>>
    BY DEF Init, LastAt
  <2> QED BY <2>1 DEF Init, Abstract!Init, Abstract!Done, Ok
<1>2. Ordered /\ [Next]_vars => [Abstract!Next]_(Abstract!vars)
  <2> SUFFICES ASSUME Ordered, [Next]_vars PROVE [Abstract!Next]_(Abstract!vars)
    OBVIOUS
  <2>0. ASSUME answer' = Err, UNCHANGED snapshots PROVE Abstract!Refuse
    BY <2>0 DEF Abstract!Refuse, Abstract!Failed, Err
  <2>1. CASE InsertEmpty
    BY <2>0, <2>1 DEF InsertEmpty, Abstract!Next
  <2>2. ASSUME NEW t \in Tables, NEW b \in BatchVecs, InsertMismatch(t, b) PROVE Abstract!Next
    BY <2>0, <2>2 DEF InsertMismatch, Abstract!Next
  <2>3. ASSUME NEW t \in Tables, NEW b \in BatchVecs, NEW ts \in Times, Insert(t, ts, b)
        PROVE  Abstract!Next
    BY <2>3, InsertRefines DEF Abstract!Next
  <2>4. ASSUME NEW t \in Tables, Latest(t) PROVE Abstract!Next
    BY <2>4, LatestRefines DEF Abstract!Next
  <2>5. ASSUME NEW t \in Tables, NEW time \in Times, AsOf(t, time) PROVE Abstract!Next
    BY <2>5, AsOfRefines DEF Abstract!Next
  <2>6. CASE UNCHANGED vars
    BY <2>6 DEF vars, Abstract!vars
  <2> QED BY <2>1, <2>2, <2>3, <2>4, <2>5, <2>6 DEF Next
<1> QED BY <1>1, <1>2, StoreInOrder, PTL DEF Spec, ImplementsVersionMap, Abstract!Spec

--------------------------------------------------------------------------------
\* What as_of answers is the last recording at the newest timestamp not after
\* the one asked for.
LEMMA AsOfIs ==
    ASSUME NEW v \in Seq(Snapshot), InOrder(v), NEW time \in Int, NEW j \in DOMAIN v,
           v[j].timestamp <= time,
           \A k \in DOMAIN v : v[k].timestamp <= time => v[k].timestamp <= v[j].timestamp
    PROVE  FindLast(v, time) # 0 /\ v[FindLast(v, time)].batches = LastAt(v, v[j].timestamp)
<1> DEFINE i == FindLast(v, time)
<1>0. DOMAIN v \subseteq Int /\ \A k \in DOMAIN v : v[k].timestamp \in Int
  <2>1. \A k \in DOMAIN v : v[k] \in Snapshot
    OBVIOUS
  <2> QED BY <2>1, SnapshotFields
<1>1. i \in DOMAIN v /\ i # 0 /\ v[i].timestamp <= time /\ \A k \in DOMAIN v : v[k].timestamp <= time => k <= i
  BY FindLastEffect
<1> HIDE DEF i
<1>2. v[i].timestamp = v[j].timestamp
  <2>1. v[i].timestamp <= v[j].timestamp /\ j <= i
    BY <1>1
  <2>2. CASE j = i
    BY <2>2
  <2>3. CASE j < i
    <3>1. v[j].timestamp <= v[i].timestamp
      BY <1>1, <2>3 DEF InOrder
    <3> QED BY <1>0, <1>1, <2>1, <3>1
  <2> QED BY <1>0, <1>1, <2>1, <2>2, <2>3
<1>3. LastAt(v, v[i].timestamp) = v[i].batches
  <2>1. \A k \in DOMAIN v : v[k].timestamp = v[i].timestamp => k <= i
    BY <1>1
  <2> QED BY <1>1, <2>1, LastAtIs
<1> QED BY <1>1, <1>2, <1>3 DEF i

\* The value of as_of on a vector.
Answer(v, time) == IF FindLast(v, time) = 0 THEN <<>> ELSE v[FindLast(v, time)].batches

\* The answer depends only on what is recorded not after the time: two vectors
\* that agree there answer alike.
LEMMA SamePast ==
    ASSUME NEW v \in Seq(Snapshot), InOrder(v), NEW w \in Seq(Snapshot), InOrder(w),
           NEW time \in Int, NEW low \in Int,
           \A u \in Int : low < u /\ u <= time => LastAt(v, u) = LastAt(w, u),
           \/ \A u \in Int : u <= time => LastAt(v, u) = LastAt(w, u)
           \/ \E j \in DOMAIN v : low < v[j].timestamp /\ v[j].timestamp <= time
    PROVE  Answer(v, time) = Answer(w, time)
<1>0. /\ DOMAIN v \subseteq Int /\ \A k \in DOMAIN v : v[k].timestamp \in Int
      /\ DOMAIN w \subseteq Int /\ \A k \in DOMAIN w : w[k].timestamp \in Int
  <2>1. (\A k \in DOMAIN v : v[k] \in Snapshot) /\ \A k \in DOMAIN w : w[k] \in Snapshot
    OBVIOUS
  <2> QED BY <2>1, SnapshotFields
<1> DEFINE i == FindLast(v, time)
<1>1. CASE i = 0
  <2>1. \A j \in DOMAIN v : ~(v[j].timestamp <= time)
    BY <1>1, FindLastEffect
  <2>2. \A u \in Int : u <= time => LastAt(v, u) = LastAt(w, u)
    BY <2>1
  <2>3. ASSUME NEW k \in DOMAIN w, w[k].timestamp <= time PROVE FALSE
    <3>1. LastAt(w, w[k].timestamp) # <<>>
      BY LastAtKinds
    <3>2. LastAt(v, w[k].timestamp) # <<>>
      BY <1>0, <2>2, <2>3, <3>1
    <3>3. \E j \in DOMAIN v : v[j].timestamp = w[k].timestamp
      BY <3>2, LastAtKinds
    <3> QED BY <2>1, <2>3, <3>3
  <2>4. FindLast(w, time) = 0
    BY <2>3, FindLastEffect
  <2> QED BY <1>1, <2>4 DEF Answer
<1>2. CASE i # 0
  <2>1. i \in DOMAIN v /\ v[i].timestamp <= time /\ \A j \in DOMAIN v : v[j].timestamp <= time => j <= i
    BY <1>2, FindLastEffect
  <2> HIDE DEF i
  <2> DEFINE u == v[i].timestamp
  <2>2. \A j \in DOMAIN v : v[j].timestamp <= time => v[j].timestamp <= u
    <3> SUFFICES ASSUME NEW j \in DOMAIN v, v[j].timestamp <= time PROVE v[j].timestamp <= u
      OBVIOUS
    <3>1. j <= i
      BY <2>1
    <3>2. CASE j = i
      BY <1>0, <2>1, <3>2
    <3>3. CASE j < i
      BY <2>1, <3>3 DEF InOrder
    <3> QED BY <1>0, <2>1, <3>1, <3>2, <3>3
  <2>3. \A x \in Int : u <= x /\ x <= time => LastAt(v, x) = LastAt(w, x)
    <3>1. CASE \A x \in Int : x <= time => LastAt(v, x) = LastAt(w, x)
      BY <3>1
    <3>2. CASE \E j \in DOMAIN v : low < v[j].timestamp /\ v[j].timestamp <= time
      <4>1. low < u
        BY <1>0, <2>1, <2>2, <3>2
      <4> QED BY <1>0, <2>1, <4>1
    <3> QED BY <3>1, <3>2
  <2>4. Answer(v, time) = LastAt(v, u)
    BY <2>1, <2>2, AsOfIs DEF Answer
  <2>5. LastAt(v, u) = LastAt(w, u) /\ LastAt(v, u) # <<>>
    <3>1. LastAt(v, u) # <<>>
      BY <2>1, LastAtKinds
    <3> QED BY <1>0, <2>1, <2>3, <3>1
  <2>6. PICK k \in DOMAIN w : w[k].timestamp = u
    BY <2>5, LastAtKinds
  <2>7. ASSUME NEW m \in DOMAIN w, w[m].timestamp <= time, ~(w[m].timestamp <= w[k].timestamp) PROVE FALSE
    <3>1. LastAt(w, w[m].timestamp) # <<>>
      BY LastAtKinds
    <3>2. LastAt(v, w[m].timestamp) # <<>>
      BY <1>0, <2>1, <2>3, <2>6, <2>7, <3>1
    <3>3. PICK j \in DOMAIN v : v[j].timestamp = w[m].timestamp
      BY <3>2, LastAtKinds
    <3> QED BY <2>2, <2>6, <2>7, <3>3
  <2>8. Answer(w, time) = LastAt(w, w[k].timestamp)
    BY <2>1, <2>6, <2>7, AsOfIs DEF Answer
  <2> QED BY <2>4, <2>5, <2>6, <2>8
<1> QED BY <1>1, <1>2

\* The past is immutable: only an insert into the table at or before the time,
\* with nothing newer recorded there, changes what as_of answers.
THEOREM PastNeverChanges == Spec => PastIsStable
<1> DEFINE Stable(t, time) ==
             \/ AsOfAnswer(t, time)' = AsOfAnswer(t, time)
             \/ \E ts \in Times, b \in BatchVecs :
                   /\ Insert(t, ts, b)
                   /\ ts <= time
                   /\ \A i \in DOMAIN snapshots[t] :
                         snapshots[t][i].timestamp \notin ts + 1 .. time
                   /\ AsOfAnswer(t, time)' = b
<1>1. Ordered /\ [Next]_vars => \A t \in Tables, time \in Times : Stable(t, time)
  <2> SUFFICES ASSUME Ordered, [Next]_vars, NEW t \in Tables, NEW time \in Times PROVE Stable(t, time)
    OBVIOUS
  <2>0. time \in Int
    BY StoreAssumption
  <2>1. ASSUME snapshots'[t] = snapshots[t] PROVE Stable(t, time)
    BY <2>1 DEF AsOfAnswer
  <2>2. ASSUME NEW ts \in Times, NEW b \in BatchVecs, Insert(t, ts, b) PROVE Stable(t, time)
    <3> DEFINE x == [timestamp |-> ts, batches |-> b]
               v == snapshots[t]
               s == SortByTimestamp(Append(v, x))
    <3>1. x \in Snapshot /\ x.timestamp = ts /\ x.batches = b /\ ts \in Int
      BY <2>2, StoreAssumption DEF Insert, Snapshot
    <3>2. v \in Seq(Snapshot) /\ InOrder(v)
      BY DEF Ordered, TypeOK, InOrder
    <3>3. snapshots'[t] = s
      BY <2>2 DEF Insert, Ordered, TypeOK
    <3> HIDE DEF x, v
    <3>4. s \in Seq(Snapshot) /\ InOrder(s)
      BY <3>1, <3>2, SortEffect
    <3>5. \A u : LastAt(s, u) = IF u = ts THEN b ELSE LastAt(v, u)
      BY <3>1, <3>2, InsertRecords
    <3> HIDE DEF s
    <3>6. /\ AsOfAnswer(t, time) = Answer(v, time)
          /\ AsOfAnswer(t, time)' = Answer(s, time)
      BY <3>3 DEF AsOfAnswer, Answer, v
    <3>7. \A j \in DOMAIN v : v[j].timestamp \in Int
      <4>1. \A k \in DOMAIN v : v[k] \in Snapshot
        BY <3>2
      <4> QED BY <4>1, SnapshotFields
    <3>8. CASE ts > time
      <4>1. \A u \in Int : u <= time => LastAt(v, u) = LastAt(s, u)
        BY <2>0, <3>1, <3>5, <3>8
      <4>2. Answer(v, time) = Answer(s, time)
        BY <2>0, <3>1, <3>2, <3>4, <4>1, SamePast
      <4> QED BY <3>6, <4>2
    <3>9. CASE ts <= time /\ \E j \in DOMAIN v : v[j].timestamp \in ts + 1 .. time
      <4>1. \A u \in Int : ts < u /\ u <= time => LastAt(v, u) = LastAt(s, u)
        BY <2>0, <3>1, <3>5, <3>9
      <4>2. \E j \in DOMAIN v : ts < v[j].timestamp /\ v[j].timestamp <= time
        BY <2>0, <3>1, <3>7, <3>9
      <4>3. Answer(v, time) = Answer(s, time)
        BY <2>0, <3>1, <3>2, <3>4, <4>1, <4>2, SamePast
      <4> QED BY <3>6, <4>3
    <3>10. CASE ts <= time /\ \A j \in DOMAIN v : v[j].timestamp \notin ts + 1 .. time
      <4>0. b # <<>>
        BY <2>2 DEF Insert
      <4>1. PICK j \in DOMAIN s : s[j].timestamp = ts
        BY <3>4, <3>5, <4>0, LastAtKinds
      <4>2. ASSUME NEW k \in DOMAIN s, s[k].timestamp <= time, ~(s[k].timestamp <= ts) PROVE FALSE
        <5>1. s[k].timestamp \in Int
          <6>1. s[k] \in Snapshot
            BY <3>4
          <6> QED BY <6>1, SnapshotFields
        <5>2. LastAt(s, s[k].timestamp) # <<>>
          BY <3>4, LastAtKinds
        <5>3. LastAt(v, s[k].timestamp) # <<>>
          BY <3>1, <3>5, <4>2, <5>1, <5>2
        <5>4. PICK m \in DOMAIN v : v[m].timestamp = s[k].timestamp
          BY <3>2, <5>3, LastAtKinds
        <5> QED BY <2>0, <3>1, <3>10, <4>2, <5>1, <5>4
      <4>3. Answer(s, time) = LastAt(s, ts)
        BY <2>0, <3>4, <3>10, <4>1, <4>2, AsOfIs DEF Answer
      <4>4. AsOfAnswer(t, time)' = b
        BY <3>5, <3>6, <4>3
      <4> QED BY <2>2, <3>10, <4>4 DEF v
    <3> QED BY <2>0, <3>1, <3>8, <3>9, <3>10
  <2>3. ASSUME NEW o \in Tables, NEW b \in BatchVecs, NEW ts \in Times, Insert(o, ts, b), o # t
        PROVE  snapshots'[t] = snapshots[t]
    BY <2>3 DEF Insert, Ordered, TypeOK
  <2>4. CASE UNCHANGED snapshots
    BY <2>1, <2>4
  <2> HIDE DEF Stable
  <2>5. CASE \E o \in Tables, b \in BatchVecs, ts \in Times : Insert(o, ts, b)
    BY <2>1, <2>2, <2>3, <2>5
  <2> QED BY <2>4, <2>5
          DEF Next, InsertEmpty, InsertMismatch, Latest, AsOf, vars
<1>2. Ordered /\ [Next]_vars => [\A t \in Tables, time \in Times : Stable(t, time)]_vars
  BY <1>1
<1> QED BY <1>2, StoreInOrder, PTL DEF Spec, PastIsStable
================================================================================
