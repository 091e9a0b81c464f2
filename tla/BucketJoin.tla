------------------------------ MODULE BucketJoin ------------------------------
(***************************************************************************)
(* gtv-cli/examples/hft_bench.rs, TC1: the parallel as-of joins with a     *)
(* tolerance, which the shipped benchmark asserts against a reference.     *)
(* Each chunk of left rows is swept by a rayon worker (or a CUDA thread)   *)
(* of its own with a right pointer of its own, which starts from a binary  *)
(* search or from an index of time buckets; one variant stores the matched *)
(* rows first and gathers the payload in a second parallel pass.           *)
(*                                                                         *)
(* Rows are numbered from 1, so the pointer is the code's r_idx + 1, which *)
(* is also the count j of the binary search.  What a row outputs (price    *)
(* and spread, or their quotient) is the right row it takes them from;     *)
(* None stands for NaN.                                                    *)
(***************************************************************************)
EXTENDS AsofColumns, FiniteSets

CONSTANTS
    Chunk,           \* CHUNK, left rows per worker
    Widths,          \* values of bucket_ms
    Tolerances,      \* values of tolerance_ns
    Variants         \* the functions that are called

None      == 0
Unwritten == -1

\* The five joins: whether the start row comes from the bucket index, what the
\* output holds before it is written (MaybeUninit, or what a reused device
\* buffer held, is Unwritten), and whether the payload is gathered afterwards.
Fast     == [name |-> "multi_fast",      bucketed |-> FALSE, fill |-> None,      gather |-> FALSE]
L2Bucket == [name |-> "multi_l2_bucket", bucketed |-> TRUE,  fill |-> Unwritten, gather |-> FALSE]
Ultimate == [name |-> "cpu_ultimate",    bucketed |-> TRUE,  fill |-> Unwritten, gather |-> TRUE]
Fused    == [name |-> "fused",           bucketed |-> TRUE,  fill |-> Unwritten, gather |-> FALSE]
Cuda     == [name |-> "cuda",            bucketed |-> TRUE,  fill |-> Unwritten, gather |-> FALSE]

ASSUME BucketJoinAssumption ==
    /\ Chunk \in Nat \ {0} /\ Widths \subseteq Nat \ {0} /\ Tolerances \subseteq Nat
    /\ Variants \subseteq {Fast, L2Bucket, Ultimate, Fused, Cuda}

VARIABLES
    variant, tol, width,                \* the call, with left and right
    offsets, bcurr, row,                \* the bucket index and its build loop
    ptr,                                \* right pointer of each chunk, -1 before it starts
    pos,                                \* next left row of each chunk
    matched,                            \* matched_idx of the gathering variant
    writes                              \* how often each row of out was stored

input == <<variant, left, right, tol, width>>
index == <<offsets, bcurr, row>>
vars  == <<input, pc, index, ptr, pos, matched, out, writes>>

\* gen_series: both columns ascend.
Columns(n) == {s \in ColumnsUpTo(n) : Ascending(s)}

Rows     == 1..Len(left)
Chunks   == 1..((Len(left) + Chunk - 1) \div Chunk)
First(c) == (c - 1) * Chunk + 1

\* Fault: a chunk takes the first row of the next one too.
LastFault(c) == IF c * Chunk < Len(left) THEN c * Chunk + 1 ELSE Len(left)

Last(c)  == IF c * Chunk < Len(left) THEN c * Chunk ELSE Len(left)

\* ((ts - min_r_ts) / bucket_ms) of a time not before the first right one.
BucketOf(t) == (t - right[1]) \div width
NumBuckets  == BucketOf(right[Len(right)]) + 1

TypeOK ==
    /\ variant \in Variants /\ left \in Columns(MaxLeft) /\ right \in Columns(MaxRight)
    /\ tol \in Tolerances /\ width \in Widths
    /\ pc \in {"call", "index", "sweep", "gather", "returned"}
    /\ bcurr \in Nat /\ row \in 1..(Len(right) + 1)
    /\ pc \notin {"call", "returned"} /\ variant.bucketed =>
           offsets \in [0..NumBuckets -> 0..Len(right)]
    /\ ptr \in [Chunks -> -1..Len(right)]
    /\ \A c \in Chunks : pos[c] \in First(c)..(Last(c) + 1)
    /\ matched \in [Rows -> 0..Len(right)]
    /\ out \in [Rows -> -1..Len(right)] /\ writes \in [Rows -> Nat]

Init ==
    /\ variant \in Variants /\ left \in Columns(MaxLeft) /\ right \in Columns(MaxRight)
    /\ tol \in Tolerances /\ width \in Widths
    /\ variant = Cuda => left # <<>> /\ right # <<>>
    /\ pc = "call"
    /\ offsets = <<>> /\ bcurr = 0 /\ row = 1
    /\ ptr = [c \in Chunks |-> -1] /\ pos = [c \in Chunks |-> First(c)]
    /\ matched = [i \in Rows |-> None]
    /\ out = [i \in Rows |-> variant.fill] /\ writes = [i \in Rows |-> 0]

-------------------------------------------------------------------------------
\* The bucketed functions answer NaN everywhere when a column is empty.
Early == variant.bucketed /\ (left = <<>> \/ right = <<>>)

ReturnEarly ==
    /\ pc = "call" /\ Early
    /\ out' = [i \in Rows |-> None] /\ writes' = [i \in Rows |-> 1]
    /\ pc' = "returned"
    /\ UNCHANGED <<input, index, ptr, pos, matched>>

Begin ==
    /\ pc = "call" /\ ~Early
    /\ offsets' = IF variant.bucketed THEN [b \in 0..NumBuckets |-> 0] ELSE offsets
    /\ pc' = IF variant.bucketed THEN "index" ELSE "sweep"
    /\ UNCHANGED <<input, bcurr, row, ptr, pos, matched, out, writes>>

\* The buckets a row of bucket b starts: those no earlier row has started.
Starts(b) == bcurr..b

\* One right row of the build loop.
IndexRow ==
    /\ pc = "index" /\ row <= Len(right)
    /\ LET b == BucketOf(right[row])
       IN  /\ offsets' = [c \in 0..NumBuckets |-> IF c \in Starts(b) THEN row - 1 ELSE offsets[c]]
           /\ bcurr' = IF bcurr <= b THEN b + 1 ELSE bcurr
    /\ row' = row + 1
    /\ UNCHANGED <<input, pc, ptr, pos, matched, out, writes>>

\* The buckets after the last row's start past the end.
IndexTail ==
    /\ pc = "index" /\ row > Len(right)
    /\ offsets' = [b \in 0..NumBuckets |-> IF b >= bcurr THEN Len(right) ELSE offsets[b]]
    /\ pc' = "sweep"
    /\ UNCHANGED <<input, bcurr, row, ptr, pos, matched, out, writes>>

\* right_ts.partition_point(|ts| ts <= l)
PartitionPoint(l) == Cardinality({i \in 1..Len(right) : right[i] <= l})

\* b_idx: times before the first right row use bucket 0, later ones no bucket
\* past the last.
BucketIndex(l) ==
    IF l < right[1] THEN 0
    ELSE IF BucketOf(l) < NumBuckets THEN BucketOf(l) ELSE NumBuckets

\* Fault: the offset itself is the pointer, not the row before it.
BucketStartFault(l) == offsets[BucketIndex(l)] + 1

\* bucket_offsets[b_idx] less one, if it can be less: as a row from 1, the last
\* row before the bucket.
BucketStart(l) ==
    IF offsets[BucketIndex(l)] > 0 THEN offsets[BucketIndex(l)] ELSE 1

\* A worker takes a chunk and finds the right row its sweep starts from.
StartChunk(c) ==
    /\ pc = "sweep" /\ ptr[c] = -1
    /\ LET l == left[First(c)]
       IN  ptr' = [ptr EXCEPT ![c] =
                     IF variant.bucketed THEN BucketStart(l) ELSE PartitionPoint(l)]
    /\ UNCHANGED <<input, pc, index, pos, matched, out, writes>>

Sweeping(c) == pc = "sweep" /\ ptr[c] # -1 /\ pos[c] <= Last(c)

\* The sweep's while condition: the next right row is not after the left one.
Passes(c) == ptr[c] < Len(right) /\ right[ptr[c] + 1] <= left[pos[c]]

Advance(c) ==
    /\ Sweeping(c) /\ Passes(c)
    /\ ptr' = [ptr EXCEPT ![c] = @ + 1]
    /\ UNCHANGED <<input, pc, index, pos, matched, out, writes>>

\* Within the tolerance; the binary-search variant asks j > 0, the others
\* diff >= 0, since their pointer may be a row after the left time.
Hit(c) ==
    /\ ptr[c] > 0
    /\ left[pos[c]] - right[ptr[c]] >= 0 \/ ~variant.bucketed
    /\ left[pos[c]] - right[ptr[c]] <= tol

\* The left row is done: its match, or NaN, is stored.  The gathering variant
\* stores the matched row for later, the binary-search variant only a hit.
Emit(c) ==
    /\ Sweeping(c) /\ ~Passes(c)
    /\ LET i == pos[c]
           r == IF Hit(c) THEN ptr[c] ELSE None
       IN  IF variant.gather
           THEN matched' = [matched EXCEPT ![i] = r] /\ UNCHANGED <<out, writes>>
           ELSE /\ out' = [out EXCEPT ![i] = r]
                /\ writes' = [writes EXCEPT ![i] = IF Hit(c) \/ variant.bucketed THEN @ + 1 ELSE @]
                /\ UNCHANGED matched
    /\ pos' = [pos EXCEPT ![c] = @ + 1]
    /\ UNCHANGED <<input, pc, index, ptr>>

\* Fault: the first chunk is not waited for.
SweptFault == pc = "sweep" /\ \A c \in Chunks : c > 1 => pos[c] > Last(c)

\* for_each returns when every chunk is done.
Swept == pc = "sweep" /\ \A c \in Chunks : pos[c] > Last(c)

\* The second pass takes the chunks from their first row again.
StartGather ==
    /\ variant.gather /\ Swept
    /\ pos' = [c \in Chunks |-> First(c)]
    /\ pc' = "gather"
    /\ UNCHANGED <<input, index, ptr, matched, out, writes>>

Gather(c) ==
    /\ pc = "gather" /\ pos[c] <= Last(c)
    /\ out' = [out EXCEPT ![pos[c]] = matched[pos[c]]]
    /\ writes' = [writes EXCEPT ![pos[c]] = @ + 1]
    /\ pos' = [pos EXCEPT ![c] = @ + 1]
    /\ UNCHANGED <<input, pc, index, ptr, matched>>

\* The last pass is over: assume_init.
Finish ==
    /\ IF variant.gather THEN pc = "gather" /\ \A c \in Chunks : pos[c] > Last(c) ELSE Swept
    /\ pc' = "returned"
    /\ UNCHANGED <<input, index, ptr, pos, matched, out, writes>>

\* The caller has its result.
Finished == pc = "returned" /\ UNCHANGED vars

Next ==
    \/ ReturnEarly \/ Begin \/ IndexRow \/ IndexTail \/ StartGather \/ Finish \/ Finished
    \/ \E c \in Chunks : StartChunk(c) \/ Advance(c) \/ Emit(c) \/ Gather(c)

Spec == Init /\ [][Next]_vars

-------------------------------------------------------------------------------
\* "bucket_offsets[b] = first right row with timestamp >= min_r_ts + b *
\* bucket_ms. Sparse buckets forward-fill."
BucketsSound ==
    pc \in {"sweep", "gather"} /\ variant.bucketed =>
        \A b \in 0..NumBuckets :
            offsets[b] = Cardinality({i \in 1..Len(right) : right[i] < right[1] + b * width})

\* The variables have their types, the buckets are what their comment says, and
\* the unchecked reads are in bounds: "r_idx < right_len always holds here", from
\* the moment a chunk starts, whatever its first left time.
UncheckedInRange ==
    /\ TypeOK /\ BucketsSound
    /\ variant.bucketed => \A c \in Chunks : ptr[c] # -1 => ptr[c] \in 1..Len(right)

\* asof_join_multi_ref, for one left time.
Reference(l) ==
    LET j == PartitionPoint(l)
    IN  IF j > 0 /\ l - right[j] <= tol THEN j ELSE None

\* What main asserts of the functions on one generated input: the chunked
\* sweeps, started from a bucket or by binary search and run in any
\* interleaving, return what the row-by-row reference returns.
MatchesReference ==
    pc = "returned" => \A i \in Rows : out[i] = Reference(left[i])

\* "every element of both buffers was written exactly once": what assume_init
\* relies on; no two workers ever store to the same row.
WrittenExactlyOnce ==
    /\ \A i \in Rows : writes[i] <= 1
    /\ pc = "returned" /\ variant.bucketed => \A i \in Rows : writes[i] = 1
================================================================================
