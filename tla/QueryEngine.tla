------------------------------ MODULE QueryEngine ------------------------------
(***************************************************************************)
(* gtv-engine: the context the shell and the server query, as a value.  It *)
(* holds the registered tables, the graph behind neighbors(), the series   *)
(* behind asof_join() and the vector collections behind knn(); the         *)
(* operators below register, look up and change.  SQL is DataFusion's: a   *)
(* statement is what it refers to, and reads, creates, drops or extends    *)
(* one table, or calls one table function.                                 *)
(*                                                                         *)
(* A result is a record with ok; when ok is TRUE, rows is the answer.      *)
(***************************************************************************)
EXTENDS Integers, Sequences, FiniteSets

Err       == [ok |-> FALSE, rows |-> <<>>]
Ok(rows)  == [ok |-> TRUE, rows |-> rows]

\* Arguments of a table function: absent, not a literal, or a literal.  casts says
\* whether it casts to an integer, value to which one; a string also has the vector
\* it denotes, empty if it is not a list of numbers.
Missing      == [kind |-> "missing", casts |-> FALSE, value |-> 0]
Column       == [kind |-> "column", casts |-> FALSE, value |-> 0]
Num(n)       == [kind |-> "number", casts |-> TRUE, value |-> n]
Vec(v)       == [kind |-> "string", casts |-> FALSE, value |-> 0, text |-> "", vector |-> v]
Str(t)       == [Vec(<<>>) EXCEPT !.text = t]
Digits(t, n) == [Str(t) EXCEPT !.casts = TRUE, !.value = n]       \* '3'

\* expr_to_i64, expr_to_u64 and expr_to_string: what each accepts.
IsI64(e)    == e.casts
IsU64(e)    == e.casts /\ e.value >= 0
IsString(e) == e.kind = "string"

-------------------------------------------------------------------------------
\* GtvContext::new
EmptyContext == [tables |-> <<>>, csr |-> <<>>, nodeCount |-> 0, asof |-> <<>>, knn |-> <<>>]

\* The members of S in the strict total order Before.
Sorted(S, Before(_, _)) ==
    [n \in 1..Cardinality(S) |->
        CHOOSE x \in S : Cardinality({y \in S : Before(y, x)}) = n - 1]

With(f, x, y) == [z \in DOMAIN f \cup {x} |-> IF z = x THEN y ELSE f[z]]

\* register_batches under a name that is free.
RegisterBatches(ctx, name, rows) == [ctx EXCEPT !.tables = With(@, name, rows)]

\* TemporalCSR::from_arrays: the rows by (src, valid_from, valid_to, dst).
RowBefore(r, s) ==
    \/ r.src < s.src
    \/ r.src = s.src /\ r.from < s.from
    \/ r.src = s.src /\ r.from = s.from /\ r.to < s.to
    \/ r.src = s.src /\ r.from = s.from /\ r.to = s.to /\ r.dst < s.dst

\* register_neighbors: the function keeps a copy of the index.
RegisterNeighbors(ctx, edges, nodeCount) ==
    [ctx EXCEPT !.csr = Sorted({edges[i] : i \in 1..Len(edges)}, RowBefore), !.nodeCount = nodeCount]

ActiveAt(r, t) == r.from <= t /\ t < r.to

\* The positions of the rows of src that are active at t, in order.
Hits(csr, src, t) ==
    Sorted({p \in DOMAIN csr : csr[p].src = src /\ ActiveAt(csr[p], t)}, LAMBDA p, q : p < q)

\* TemporalCSR::neighbors
Neighbors(csr, nodeCount, src, t) ==
    IF src >= nodeCount THEN Err
    ELSE Ok([n \in DOMAIN Hits(csr, src, t) |-> csr[Hits(csr, src, t)[n]]])

\* neighbors(src, valid_at): the rows, with the source it was asked for.
CallNeighbors(ctx, args) ==
    LET found == Neighbors(ctx.csr, ctx.nodeCount, args.src.value, args.at.value)
    IN  IF IsU64(args.src) /\ IsI64(args.at) /\ found.ok
        THEN Ok([n \in DOMAIN found.rows |-> [found.rows[n] EXCEPT !.src = args.src.value]])
        ELSE Err

\* register_asof_join
RegisterAsofJoin(ctx, series) == [ctx EXCEPT !.asof = series]

\* The last row at or before t, if there is one, of a series in order of time
\* (module AsofJoin has the merge).
LastAsOf(series, t) ==
    {i \in 1..Len(series) : series[i].t <= t /\ \A j \in (i + 1)..Len(series) : series[j].t > t}

\* asof_join(t0, t1, ...): no value is NULL.
CallAsof(ctx, args) ==
    IF \A n \in 1..Len(args.left) : IsI64(args.left[n])
    THEN Ok([n \in 1..Len(args.left) |->
               [t     |-> args.left[n].value,
                value |-> {ctx.asof[i].price : i \in LastAsOf(ctx.asof, args.left[n].value)}]])
    ELSE Err

-------------------------------------------------------------------------------
\* A collection: ids, vectors, and labels if it has them.
Collection(ids, vectors, hasLabels, labels) ==
    [ids |-> ids, vectors |-> vectors, hasLabels |-> hasLabels, labels |-> labels]

\* KnnCollection::new
Accepted(c) ==
    /\ Len(c.ids) = Len(c.vectors)
    /\ c.hasLabels => Len(c.labels) = Len(c.vectors)
    /\ c.vectors # <<>> /\ Len(c.vectors[1]) > 0
    /\ \A i \in 1..Len(c.vectors) : Len(c.vectors[i]) = Len(c.vectors[1])

\* register_knn: a refused collection leaves the registry as it was.
RegisterKnn(ctx, name, c) ==
    IF Accepted(c) THEN [ctx EXCEPT !.knn = With(@, name, c)] ELSE ctx

SquaredL2(a, b) ==
    LET sum[i \in 0..Len(a)] == IF i = 0 THEN 0 ELSE sum[i - 1] + (a[i] - b[i]) * (a[i] - b[i])
    IN  sum[Len(a)]

\* k as usize: a negative number becomes one no collection reaches.
Huge == 1000000
AsUsize(n) == IF n < 0 THEN Huge ELSE n

\* The rows the label leaves: all of them when the collection has no labels.
Restricted(c, label) ==
    {i \in 1..Len(c.vectors) :
        c.hasLabels /\ IsString(label) => c.labels[i] = label.text}

\* search's comparator: by distance, then by id.
Nearer(c, query, i, j) ==
    \/ SquaredL2(query, c.vectors[i]) < SquaredL2(query, c.vectors[j])
    \/ SquaredL2(query, c.vectors[i]) = SquaredL2(query, c.vectors[j]) /\ c.ids[i] < c.ids[j]

\* Fault: the rows are truncated to k before the label is looked at.
SearchFault(c, query, k, label) ==
    LET sorted == Sorted(1..Len(c.vectors), LAMBDA i, j : Nearer(c, query, i, j))
        first  == SubSeq(sorted, 1, IF k < Len(sorted) THEN k ELSE Len(sorted))
        kept   == SelectSeq(first, LAMBDA i : i \in Restricted(c, label))
    IN  [n \in 1..Len(kept) |-> [id |-> c.ids[kept[n]], d2 |-> SquaredL2(query, c.vectors[kept[n]])]]

\* KnnCollection::search: sort the rows and truncate them to k.
Search(c, query, k, label) ==
    LET sorted == Sorted(Restricted(c, label), LAMBDA i, j : Nearer(c, query, i, j))
    IN  [n \in 1..(IF k < Len(sorted) THEN k ELSE Len(sorted)) |->
            [id |-> c.ids[sorted[n]], d2 |-> SquaredL2(query, c.vectors[sorted[n]])]]

\* knn(name, query, k [, label])
CallKnn(ctx, args) ==
    IF /\ IsString(args.name) /\ IsString(args.query) /\ IsI64(args.k)
       /\ args.label = Missing \/ IsString(args.label)
       /\ args.query.vector # <<>>
       /\ args.name.text \in DOMAIN ctx.knn
       /\ Len(args.query.vector) = Len(ctx.knn[args.name.text].vectors[1])
    THEN Ok(Search(ctx.knn[args.name.text], args.query.vector, AsUsize(args.k.value), args.label))
    ELSE Err

-------------------------------------------------------------------------------
\* What CREATE TABLE name AS SELECT * FROM source, DROP TABLE name and INSERT INTO
\* name VALUES ask for: a free name and a source, a table, one with these columns.
CanCreate(ctx, stmt) == stmt.name \notin DOMAIN ctx.tables /\ stmt.source \in DOMAIN ctx.tables
CanDrop(ctx, stmt)   == stmt.name \in DOMAIN ctx.tables
CanInsert(ctx, stmt) ==
    stmt.name \in DOMAIN ctx.tables /\ DOMAIN stmt.row = DOMAIN ctx.tables[stmt.name][1]

\* GtvContext::sql: what a statement answers in a context.
Sql(ctx, stmt) ==
    CASE stmt.kind = "table"     -> IF stmt.name \in DOMAIN ctx.tables
                                    THEN Ok(ctx.tables[stmt.name]) ELSE Err
      [] stmt.kind = "neighbors" -> CallNeighbors(ctx, stmt)
      [] stmt.kind = "asof"      -> CallAsof(ctx, stmt)
      [] stmt.kind = "knn"       -> CallKnn(ctx, stmt)
      [] stmt.kind = "create"    -> IF CanCreate(ctx, stmt) THEN Ok(<<>>) ELSE Err
      [] stmt.kind = "drop"      -> IF CanDrop(ctx, stmt) THEN Ok(<<>>) ELSE Err
      [] stmt.kind = "insert"    -> IF CanInsert(ctx, stmt) THEN Ok(<< [count |-> 1] >>) ELSE Err

\* And what it makes of the context.
SqlEffect(ctx, stmt) ==
    CASE stmt.kind = "create" /\ CanCreate(ctx, stmt) ->
            RegisterBatches(ctx, stmt.name, ctx.tables[stmt.source])
      [] stmt.kind = "drop" /\ CanDrop(ctx, stmt) ->
            [ctx EXCEPT !.tables = [n \in DOMAIN @ \ {stmt.name} |-> @[n]]]
      [] stmt.kind = "insert" /\ CanInsert(ctx, stmt) ->
            [ctx EXCEPT !.tables[stmt.name] = Append(@, stmt.row)]
      [] OTHER -> ctx

Select(name)            == [kind |-> "table", name |-> name]
FromNeighbors(src, at)  == [kind |-> "neighbors", src |-> src, at |-> at]
FromAsof(left)          == [kind |-> "asof", left |-> left]
FromKnn(name, q, k, lb) == [kind |-> "knn", name |-> name, query |-> q, k |-> k, label |-> lb]
Create(name, source)    == [kind |-> "create", name |-> name, source |-> source]
DropTable(name)         == [kind |-> "drop", name |-> name]
Insert(name, row)       == [kind |-> "insert", name |-> name, row |-> row]
================================================================================
