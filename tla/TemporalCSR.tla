------------------------------ MODULE TemporalCSR ------------------------------
(***************************************************************************)
(* gtv-core: node and edge tables, edge chunks and the Temporal-CSR index. *)
(* A table or chunk is checked when it is made; from_arrays checks it      *)
(* again, sorts its rows, counts them per source and turns the counts into *)
(* offsets; neighbors scans the run of one source, neighbors_record_batch  *)
(* does so for a list of sources; khop expands one frontier per hop.  Both *)
(* give up on the first node that is out of range.                         *)
(*                                                                         *)
(* Abstractions.  The parallel columns are one sequence of rows and their  *)
(* lengths.  A frontier is a set: khop sorts and deduplicates it.          *)
(***************************************************************************)
EXTENDS Integers, Sequences, FiniteSets

CONSTANTS
    NodeCount,   \* node_count
    Rows,        \* rows [src, dst, type, from, to] a table may have
    MaxRows,     \* bound on the length of a table
    NodeLists,   \* nodes khop and neighbors_record_batch are called with
    MaxHops,     \* bound on k
    Times        \* valid_at values

ASSUME CSRAssumption ==
    /\ NodeCount \in Nat /\ MaxRows \in Nat /\ MaxHops \in Nat
    /\ Times \subseteq Int
    /\ Rows \subseteq [src : Nat, dst : Nat, type : Nat, from : Int, to : Int]
    /\ NodeLists \subseteq Seq(Nat)

VARIABLES
    given,      \* how the columns are handed over, their types and lengths
    table,      \* the edges the columns stand for
    rows,       \* the rows, sorted once the sort has run
    offsets,    \* offsets[s]: first position (from 0) of source s
    i,          \* loop counter: rows or nodes done
    phase,      \* what happens next
    query,      \* the call being answered: [op, nodes, k, at]
    frontiers,  \* the frontiers khop has pushed
    batch       \* the rows neighbors_record_batch has collected

index  == <<given, table, rows, offsets>>
answer == <<query, frontiers, batch>>
vars   == <<index, i, phase, answer>>

NoQuery == [op |-> "none", nodes |-> <<>>, k |-> 0, at |-> 0]

TypeOK ==
    /\ table \in Seq(Rows) /\ rows \in Seq(Rows)
    /\ given.src \in Nat /\ given.others \in Nat
    /\ offsets \in [0..NodeCount -> Nat]
    /\ i \in Nat
    /\ phase \in {"construct", "validate", "sort", "count", "prefix", "ready", "rejected",
                  "hop", "batch", "answered", "failed"}
    /\ query.op \in {"none", "khop", "batch"} /\ query.nodes \in Seq(Nat)
    /\ frontiers \in Seq(SUBSET Nat) /\ batch \in Seq(Rows)

-------------------------------------------------------------------------------
\* Strict order of the sort key (src, valid_from, valid_to, dst).
KeyBefore(a, b) ==
    \/ a.src < b.src
    \/ a.src = b.src /\ a.from < b.from
    \/ a.src = b.src /\ a.from = b.from /\ a.to < b.to
    \/ a.src = b.src /\ a.from = b.from /\ a.to = b.to /\ a.dst < b.dst

Permutes(p, n) == \A j \in 1..n : \E l \in 1..n : p[l] = j

\* The results sort_unstable_by_key may have: rows with equal keys (edges that
\* differ in their type only, or not at all) come in any order.
UnstableSorts(v) ==
    {[j \in DOMAIN v |-> v[p[j]]] : p \in
        {q \in [DOMAIN v -> DOMAIN v] :
            /\ Permutes(q, Len(v))
            /\ \A j, l \in DOMAIN v : j < l => ~KeyBefore(v[q[l]], v[q[j]])}}

\* What a caller hands over for a table of n rows: a record batch (EdgeTable::new,
\* whose columns arrow keeps equally long), vectors (from_vecs), a chunk (to_csr)
\* or the arrays themselves; the types may be wrong, or a column too short.
Inputs(n) ==
    {g \in [way : {"batch", "vecs", "chunk", "arrays"}, typed : BOOLEAN, src : {n, n - 1},
            others : {n, n - 1}] :
        /\ g.src >= 0 /\ g.others >= 0 /\ (g.src = n \/ g.others = n)
        /\ g.way = "batch" => g.src = g.others
        /\ g.way # "batch" => g.typed}

Init ==
    /\ table \in UNION {[1..n -> Rows] : n \in 0..MaxRows}
    /\ given \in Inputs(Len(table))
    /\ rows = SubSeq(table, 1, given.src)
    /\ offsets = [s \in 0..NodeCount |-> 0]
    /\ i = 0 /\ phase = "construct"
    /\ query = NoQuery /\ frontiers = <<>> /\ batch = <<>>

Mismatched == given.src # given.others

\* A constructor hands its columns on to from_arrays unless it refuses them.
Construct(way, refused) ==
    /\ phase = "construct" /\ given.way = way
    /\ phase' = IF refused THEN "rejected" ELSE "validate"
    /\ UNCHANGED <<index, i, answer>>

\* ensure_column_type, of NodeTable::new and EdgeTable::new.
Mistyped == ~given.typed

NewTable   == Construct("batch", Mistyped)
FromVecs   == Construct("vecs", Mismatched)
ToCsr      == Construct("chunk", Mismatched)     \* TemporalEdgeChunk: validate, then to_csr
FromArrays == Construct("arrays", FALSE)

\* from_arrays: lengths and sources are checked; a destination may be no node.
Validate ==
    /\ phase = "validate"
    /\ phase' = IF Mismatched \/ \E j \in DOMAIN rows : rows[j].src >= NodeCount
                THEN "rejected" ELSE "sort"
    /\ UNCHANGED <<index, i, answer>>

SortRows ==
    /\ phase = "sort" /\ phase' = "count"
    /\ rows' \in UnstableSorts(rows)
    /\ UNCHANGED <<given, table, offsets, i, answer>>

\* for r in &rows { offsets[r.src + 1] += 1 }
CountRow ==
    /\ phase = "count"
    /\ IF i < Len(rows)
       THEN /\ offsets' = [offsets EXCEPT ![rows[i + 1].src + 1] = @ + 1]
            /\ i' = i + 1 /\ UNCHANGED phase
       ELSE i' = 0 /\ phase' = "prefix" /\ UNCHANGED offsets
    /\ UNCHANGED <<given, table, rows, answer>>

\* Fault: the running sum is taken from the node itself, not from the one before.
SummandFault(n) == n + 1

Summand(n) == n

\* for i in 0..node_count { offsets[i + 1] += offsets[i] }
PrefixSum ==
    /\ phase = "prefix"
    /\ IF i < NodeCount
       THEN /\ offsets' = [offsets EXCEPT ![i + 1] = @ + offsets[Summand(i)]]
            /\ i' = i + 1 /\ UNCHANGED phase
       ELSE i' = 0 /\ phase' = "ready" /\ UNCHANGED offsets
    /\ UNCHANGED <<given, table, rows, answer>>

\* A constructor returned Err: there is no index to query.
Rejected == phase = "rejected" /\ UNCHANGED vars

-------------------------------------------------------------------------------
Active(r, at) == r.from <= at /\ at < r.to

\* Fault: the first edge of the run is left out.
EdgeRangeFault(s) == [start |-> offsets[s] + 2, end |-> offsets[s + 1]]

\* Positions (from 1) of the run of s.
EdgeRange(s) == [start |-> offsets[s] + 1, end |-> offsets[s + 1]]

\* The rows at a set of positions, in the order of the index: the j-th is the one
\* that j of the positions do not come after.
RowsAt(P) ==
    [j \in 1..Cardinality(P) |-> rows[CHOOSE p \in P : Cardinality({q \in P : q <= p}) = j]]

\* The rows neighbors() yields: the positions of the run, filtered.
Neighbors(s, at) ==
    RowsAt({p \in EdgeRange(s).start..EdgeRange(s).end : Active(rows[p], at)})

Destinations(v) == {v[j].dst : j \in DOMAIN v}

StartKhop ==
    /\ phase = "ready" /\ phase' = "hop"
    /\ \E v \in NodeLists, k \in 0..MaxHops, at \in Times :
          query' = [op |-> "khop", nodes |-> v, k |-> k, at |-> at]
    /\ UNCHANGED <<index, i, frontiers, batch>>

Seeds == {query.nodes[j] : j \in DOMAIN query.nodes}

\* The nodes the next hop starts from.
Current == IF frontiers = <<>> THEN Seeds ELSE frontiers[Len(frontiers)]

\* Fault: a node without a run is skipped instead of failing the query.
OutsideFault(s) == FALSE

Outside(s) == s >= NodeCount

\* One hop: neighbors(s)? for every s, then sort and dedup.
Hop ==
    /\ phase = "hop" /\ Len(frontiers) < query.k
    /\ \A s \in Current : ~Outside(s)
    /\ frontiers' = Append(frontiers, UNION {Destinations(Neighbors(s, query.at)) :
                                             s \in {c \in Current : c < NodeCount}})
    /\ UNCHANGED <<index, i, phase, query, batch>>

\* The ? on a node out of range: the frontiers found so far are discarded.
HopFails ==
    /\ phase = "hop" /\ Len(frontiers) < query.k
    /\ \E s \in Current : Outside(s)
    /\ phase' = "failed"
    /\ UNCHANGED <<index, i, answer>>

KhopReturns ==
    /\ phase = "hop" /\ Len(frontiers) = query.k
    /\ phase' = "answered"
    /\ UNCHANGED <<index, i, answer>>

StartBatch ==
    /\ phase = "ready" /\ phase' = "batch"
    /\ \E v \in NodeLists, at \in Times :
          query' = [op |-> "batch", nodes |-> v, k |-> 0, at |-> at]
    /\ UNCHANGED <<index, i, frontiers, batch>>

\* One source of neighbors_record_batch, or the ? on a node out of range.
BatchSource ==
    /\ phase = "batch" /\ i < Len(query.nodes)
    /\ LET s == query.nodes[i + 1]
       IN  IF s >= NodeCount THEN phase' = "failed" /\ UNCHANGED <<i, batch>>
           ELSE batch' = batch \o Neighbors(s, query.at) /\ i' = i + 1 /\ UNCHANGED phase
    /\ UNCHANGED <<index, query, frontiers>>

BatchReturns ==
    /\ phase = "batch" /\ i = Len(query.nodes)
    /\ phase' = "answered"
    /\ UNCHANGED <<index, i, answer>>

NextQuery ==
    /\ phase \in {"answered", "failed"} /\ phase' = "ready"
    /\ i' = 0 /\ query' = NoQuery /\ frontiers' = <<>> /\ batch' = <<>>
    /\ UNCHANGED index

Next == \/ NewTable \/ FromVecs \/ ToCsr \/ FromArrays \/ Validate \/ SortRows \/ CountRow \/ PrefixSum \/ Rejected
        \/ StartKhop \/ Hop \/ HopFails \/ KhopReturns
        \/ StartBatch \/ BatchSource \/ BatchReturns \/ NextQuery

Spec == Init /\ [][Next]_vars

-------------------------------------------------------------------------------
Indexed == phase \in {"ready", "hop", "batch", "answered", "failed"}

\* The offsets partition the sorted rows: the run of a node is exactly the rows
\* with that source, and together the runs cover every row of the table.
OffsetsPartition ==
    Indexed =>
        /\ offsets[0] = 0 /\ offsets[NodeCount] = Len(table)
        /\ \A s \in 0..(NodeCount - 1) :
              {p \in DOMAIN rows : rows[p].src = s} = (offsets[s] + 1)..offsets[s + 1]

\* The index holds the rows of the table, each as often as the table does: no edge
\* is lost or invented, and columns of different lengths never become an index.
SameRows ==
    Indexed =>
        \A r \in Rows : Cardinality({p \in DOMAIN rows : rows[p] = r})
                          = Cardinality({p \in DOMAIN table : table[p] = r})

\* The variables have their types, and the index is exact: its runs partition the
\* rows by source, and its rows are those of the table.
IndexExact == TypeOK /\ OffsetsPartition /\ SameRows

\* The meaning of an interval: half-open.
Live(r, at) == at \in r.from..(r.to - 1)

\* The nodes one active edge away from S, read off the table without an index.
Step(S, at) == {table[p].dst : p \in {q \in DOMAIN table :
                                        table[q].src \in S /\ Live(table[q], at)}}

\* Every frontier khop has pushed is what the table says it should be: the
\* nodes reached by an edge active at valid_at from the frontier before it.
FrontiersExact ==
    \A h \in DOMAIN frontiers :
        frontiers[h] = Step(IF h = 1 THEN Seeds ELSE frontiers[h - 1], query.at)

\* The nodes exactly h edges away from the seeds.
Reach[h \in 0..MaxHops] == IF h = 0 THEN Seeds ELSE Step(Reach[h - 1], query.at)

\* What neighbors_record_batch should have collected after n of its sources: for
\* each in turn, repeated ones too, its active edges in the order of the index,
\* found without the offsets.
Collected[n \in 0..Len(query.nodes)] ==
    LET Wanted == {p \in DOMAIN rows : rows[p].src = query.nodes[n] /\ Live(rows[p], query.at)}
    IN  IF n = 0 THEN <<>> ELSE Collected[n - 1] \o RowsAt(Wanted)

\* A batch lookup returns exactly the active edges of the sources asked for, in
\* their order and under their own source.
BatchExact == query.op = "batch" => batch = Collected[i]

\* Whatever khop and neighbors_record_batch have put together so far is what the
\* table alone says it should be.
LookupsExact == FrontiersExact /\ BatchExact

\* A query fails exactly when it has to expand a node the graph does not have,
\* be it one reached only through a destination nobody validated; the nodes of
\* khop's last frontier are never expanded, so they may be out of range.
FailsIffOutOfRange ==
    LET Expanded == IF query.op = "batch" THEN Seeds
                    ELSE UNION {Reach[h] : h \in 0..(query.k - 1)}
    IN  /\ phase = "failed" => \E s \in Expanded : s >= NodeCount
        /\ phase = "answered" => /\ \A s \in Expanded : s < NodeCount
                                 /\ Len(frontiers) = query.k
================================================================================
