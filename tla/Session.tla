-------------------------------- MODULE Session --------------------------------
(***************************************************************************)
(* gtv-cli: the interactive shell.  It builds the demo (graph, snapshots,  *)
(* LSM store, price series), registers copies of its tables in a query     *)
(* context and runs one command at a time.  save and load go through       *)
(* Parquet files, which outlive the process; a save takes several steps,   *)
(* each of which may fail, and the process may be killed between them.     *)
(*                                                                         *)
(* A command's arguments are what parsing makes of them: "none" if absent, *)
(* "bad" if they do not parse.  Printing is left out; answer is the last   *)
(* command with its result.                                                *)
(***************************************************************************)
EXTENDS DemoData, Functions

CONSTANTS
    Paths,           \* files that save and load name
    Names,           \* table names given to save and load
    Queries,         \* SQL statements typed in
    MaxRows          \* bound: the length to which tables are extended

\* The kinds of statement; a number or a vector that knn() is given is one of
\* integers.
ASSUME QueriesAssumption ==
    \A q \in Queries :
        /\ q.kind \in {"table", "neighbors", "asof", "knn", "create", "drop", "insert"}
        /\ q.kind = "knn" => /\ IsI64(q.k) => q.k.value \in Int
                             /\ IsString(q.query) => q.query.vector \in Seq(Int)

\* What a path may hold: nothing, a Parquet file without row groups, something
\* that is no complete Parquet file, or the rows of a complete one.
Absent         == [kind |-> "absent", rows |-> <<>>]
NoBatches      == [kind |-> "complete", rows |-> <<>>]
Partial        == [kind |-> "partial", rows |-> <<>>]
Complete(rows) == [kind |-> "complete", rows |-> rows]

Idle == [stage |-> "idle", table |-> "", path |-> ""]
None == ""

VARIABLES
    shell,           \* "running" or "down"
    ctx,             \* the GtvContext
    lsm,             \* the LsmStore: snapshot edges and pending insertions
    files,
    saving,          \* the save in progress
    answer,          \* the last command and its result
    saved            \* history: the table last saved to each path, if nothing
                     \* has opened the path for writing since

state == <<ctx, lsm>>
vars  == <<shell, ctx, lsm, files, saving, answer, saved>>

DemoTables == {"nodes", "edges", "prices"}

\* demo_batch: what save writes under a name, whatever is registered under it.
DemoBatch(name) ==
    CASE name = "nodes" -> NodeRows [] name = "edges" -> EdgeRows [] name = "prices" -> PriceRows

FreshLsm == [snapshot |-> Range(EdgeRows), inserts |-> {}]

Result(cmd, args, ok, rows) == [cmd |-> cmd, args |-> args, ok |-> ok, rows |-> rows]
NoArgs  == [arg |-> "none"]
Nothing == Result("none", NoArgs, TRUE, <<>>)

\* Statements that create a table or extend one.
Asked(kind) == {q \in Queries : q.kind = kind}

\* The rows a table may hold.
Rows == (UNION {Range(DemoBatch(d)) : d \in DemoTables}) \cup {q.row : q \in Asked("insert")}

StartsWith(rows, first) == Len(first) <= Len(rows) /\ \A i \in 1..Len(first) : rows[i] = first[i]

TypeOK ==
    /\ shell \in {"running", "down"}
    /\ DOMAIN ctx.tables \subseteq DemoTables \cup Names \cup {q.name : q \in Asked("create")}
    /\ \A n \in DOMAIN ctx.tables :
          ctx.tables[n] \in Seq(Rows) /\ \E d \in DemoTables : StartsWith(ctx.tables[n], DemoBatch(d))
    /\ files \in [Paths -> {Absent, NoBatches, Partial} \cup {Complete(DemoBatch(d)) : d \in DemoTables}]
    /\ saving.stage \in {"idle", "created", "written"}
    /\ answer.ok \in BOOLEAN
    /\ saved \in [Paths -> DemoTables \cup {None}]

Init ==
    /\ shell = "running" /\ ctx = ShellContext /\ lsm = FreshLsm
    /\ files \in [Paths -> {Absent, NoBatches, Partial}]
    /\ saving = Idle /\ answer = Nothing
    /\ saved = [p \in Paths |-> None]

\* A line is read only when the command before it is done.
Prompt == shell = "running" /\ saving = Idle /\ answer = Nothing

\* The result is printed, an error included, and the loop goes on.
Printed ==
    /\ shell = "running" /\ answer # Nothing
    /\ answer' = Nothing
    /\ UNCHANGED <<shell, state, files, saving, saved>>

-------------------------------------------------------------------------------
\* Fault: the command reads the LSM store's edges.
ShellGraphFault == Sorted(lsm.snapshot \cup lsm.inserts, RowBefore)

\* demo.graph: built once, never changed.
ShellGraph == Sorted(Range(EdgeRows), RowBefore)

\* neighbors_record_batch for one source: the rows, each with the source.
NeighborsRecordBatch(csr, src, t) ==
    LET found == Neighbors(csr, NodeCount, src, t)
    IN  [found EXCEPT !.rows = [n \in DOMAIN @ |-> [@[n] EXCEPT !.src = src]]]

\* neighbors <node> [T]
NeighborsCommand(node, t) ==
    /\ Prompt
    /\ LET r == NeighborsRecordBatch(ShellGraph, node, t)
       IN  answer' = Result("neighbors", [node |-> node, t |-> t], r.ok, r.rows)
    /\ UNCHANGED <<shell, state, files, saving, saved>>

\* The destinations active at t from a set of nodes, in order and without
\* repetition.
Frontier(S, t) == {r.dst : r \in {e \in Range(ShellGraph) : e.src \in S /\ ActiveAt(e, t)}}

\* khop <node> <k> [T], for up to two hops: the first looks the node up, and what
\* it reaches are nodes.
KhopCommand(node, k, t) ==
    /\ Prompt
    /\ LET one  == Frontier({node}, t)
           hops == << [hop |-> one], [hop |-> Frontier(one, t)] >>
           ok   == k = 0 \/ node < NodeCount
       IN  answer' = Result("khop", [node |-> node, t |-> t], ok, IF ok THEN SubSeq(hops, 1, k) ELSE <<>>)
    /\ UNCHANGED <<shell, state, files, saving, saved>>

\* tt <table> <T>: the store holds the active edges as of 0, 100 and 200.
Snapshots == {0, 100, 200}

TimeTravel(name, t) ==
    /\ Prompt
    /\ LET past == {s \in Snapshots : s <= t}
           at   == CHOOSE s \in past : \A u \in past : u <= s
           ok   == name = "edges" /\ past # {}
       IN  answer' = Result("tt", [table |-> name, t |-> t], ok,
                            IF ok THEN SelectSeq(EdgeRows, LAMBDA r : ActiveAt(r, at)) ELSE <<>>)
    /\ UNCHANGED <<shell, state, files, saving, saved>>

\* The commands that compute over the demo and print, with the arguments each
\* insists on; remote also depends on the server.
Arguments == {"none", "bad", "good"}
Succeeds(cmd, arg) ==
    CASE cmd \in {"help", "tables", "deltas", "usage"} -> {TRUE}   \* usage: `sql` alone
      [] cmd \in {"mavg", "msum", "knn"}               -> {arg = "good"}
      [] cmd \in {"asof", "pattern", "udf"}            -> {arg # "bad"}
      [] cmd = "remote"                                -> IF arg = "good" THEN {TRUE, FALSE} ELSE {FALSE}

Report(cmd, arg) ==
    /\ Prompt
    /\ \E ok \in Succeeds(cmd, arg) : answer' = Result(cmd, [arg |-> arg], ok, <<>>)
    /\ UNCHANGED <<shell, state, files, saving, saved>>

\* mavg 0 and msum 0 parse, and the assertion on the window ends the process.
WindowOfZero ==
    /\ Prompt
    /\ shell' = "down"
    /\ UNCHANGED <<state, files, saving, answer, saved>>

\* run_sql, for `sql <query>` and for any line that is no command.
RunSql(q) ==
    /\ Prompt
    /\ q.kind = "insert" /\ CanInsert(ctx, q) => Len(ctx.tables[q.name]) < MaxRows
    /\ LET r == Sql(ctx, q) IN answer' = Result("sql", q, r.ok, r.rows)
    /\ ctx' = SqlEffect(ctx, q)
    /\ UNCHANGED <<shell, lsm, files, saving, saved>>

\* delta: insert one edge and compact; its source is a node, so nothing fails.
DeltaEdge == Edge(3, 1, 5, 0, 500)

Delta ==
    /\ Prompt
    /\ LET merged == lsm.snapshot \cup lsm.inserts \cup {DeltaEdge}
       IN  /\ lsm' = [snapshot |-> merged, inserts |-> {}]
           /\ answer' = Result("delta", NoArgs, TRUE, << [edges |-> Cardinality(merged)] >>)
    /\ UNCHANGED <<shell, ctx, files, saving, saved>>

-------------------------------------------------------------------------------
\* save <table> <path>: an unknown table, or a path that cannot be created.
SaveRefused(name, p) ==
    /\ Prompt
    /\ answer' = Result("save", [table |-> name, path |-> p], FALSE, <<>>)
    /\ UNCHANGED <<shell, state, files, saving, saved>>

\* File::create: whatever the path held is gone.
SaveCreate(name, p) ==
    /\ Prompt /\ name \in DemoTables
    /\ files' = [files EXCEPT ![p] = Partial]
    /\ saved' = [saved EXCEPT ![p] = None]
    /\ saving' = [stage |-> "created", table |-> name, path |-> p]
    /\ UNCHANGED <<shell, state, answer>>

\* ArrowWriter::try_new and write: the file has no footer yet.
SaveWrite ==
    /\ saving.stage = "created"
    /\ saving' = [saving EXCEPT !.stage = "written"]
    /\ UNCHANGED <<shell, state, files, answer, saved>>

\* Fault: the writer is dropped without being closed.
FinishedFileFault == Partial

\* close() writes the footer.
FinishedFile == Complete(DemoBatch(saving.table))

SaveClose ==
    /\ saving.stage = "written"
    /\ files' = [files EXCEPT ![saving.path] = FinishedFile]
    /\ saved' = [saved EXCEPT ![saving.path] = saving.table]
    /\ answer' = Result("save", [table |-> saving.table, path |-> saving.path], TRUE, <<>>)
    /\ saving' = Idle
    /\ UNCHANGED <<shell, state>>

\* A write or the close fails: the file stays as far as it got.
SaveFails ==
    /\ saving # Idle
    /\ answer' = Result("save", [table |-> saving.table, path |-> saving.path], FALSE, <<>>)
    /\ saving' = Idle
    /\ UNCHANGED <<shell, state, files, saved>>

\* Fault: what is left of a file is taken for the table.
ReadableFault(p) == files[p].kind # "absent"

\* read_batches succeeds and gives a batch.
Readable(p) == files[p].kind = "complete" /\ files[p].rows # <<>>

\* load <table> <path>: no such file, not a Parquet file, or no batches.
LoadRefused(name, p) ==
    /\ Prompt /\ ~Readable(p)
    /\ answer' = Result("load", [table |-> name, path |-> p], FALSE, <<>>)
    /\ UNCHANGED <<shell, state, files, saving, saved>>

\* register_batches.  Whether DataFusion replaces a table of that name or
\* refuses it is left open (LoadTaken).
Load(name, p) ==
    /\ Prompt /\ Readable(p)
    /\ ctx' = RegisterBatches(ctx, name, files[p].rows)
    /\ answer' = Result("load", [table |-> name, path |-> p], TRUE, <<>>)
    /\ UNCHANGED <<shell, lsm, files, saving, saved>>

LoadTaken(name, p) ==
    /\ Prompt /\ Readable(p) /\ name \in DOMAIN ctx.tables
    /\ answer' = Result("load", [table |-> name, path |-> p], FALSE, <<>>)
    /\ UNCHANGED <<shell, state, files, saving, saved>>

\* quit, end of input, or a readline error.
Quit ==
    /\ Prompt
    /\ shell' = "down"
    /\ UNCHANGED <<state, files, saving, answer, saved>>

\* The process is killed, in the middle of a save if there is one.
Crash ==
    /\ shell = "running"
    /\ shell' = "down" /\ saving' = Idle /\ answer' = Nothing
    /\ UNCHANGED <<state, files, saved>>

\* main: everything but the files is built again.
Restart ==
    /\ shell = "down"
    /\ shell' = "running" /\ ctx' = ShellContext /\ lsm' = FreshLsm
    /\ UNCHANGED <<files, saving, answer, saved>>

SaveStep == SaveWrite \/ SaveClose \/ SaveFails

Next ==
    \/ \E node \in {0, 3, NodeCount}, t \in {0, 100} :
          NeighborsCommand(node, t) \/ \E k \in 0..2 : KhopCommand(node, k, t)
    \/ \E name \in Names, t \in {-1, 150} : TimeTravel(name, t)
    \/ \E cmd \in {"help", "tables", "deltas", "usage", "mavg", "msum", "knn", "asof", "pattern", "udf", "remote"},
          arg \in Arguments : Report(cmd, arg)
    \/ WindowOfZero
    \/ \E q \in Queries : RunSql(q)
    \/ \E name \in Names, p \in Paths :
          SaveRefused(name, p) \/ SaveCreate(name, p) \/ LoadRefused(name, p)
             \/ Load(name, p) \/ LoadTaken(name, p)
    \/ Delta \/ Printed \/ SaveStep \/ Quit \/ Crash \/ Restart

Spec == Init /\ [][Next]_vars

-------------------------------------------------------------------------------
\* The variables have their types, and a save that returned Ok is durable: until
\* the path is opened for writing again, it holds exactly the demo table, through
\* crashes and restarts.
SavedIsLoadable ==
    /\ TypeOK
    /\ \A p \in Paths : saved[p] # None => files[p] = Complete(DemoBatch(saved[p]))

\* TEST_PLAN.md: "`save prices …` → `load prices2 …` → `SELECT * FROM prices2`
\* reproduces `prices`" - whatever was loaded, deleted by a crash or half saved
\* in between; and a load that succeeds never takes an unfinished file.
RoundTrip ==
    [][answer'.cmd = "load" /\ answer'.ok =>
          LET name == answer'.args.table
              p    == answer'.args.path
          IN  /\ saved[p] # None
              /\ ctx'.tables = [n \in DOMAIN ctx.tables \cup {name} |->
                                  IF n = name THEN DemoBatch(saved[p]) ELSE ctx.tables[n]]]_answer

\* The three ways to look at the graph agree - the neighbors command, the
\* neighbors() table function and a slice of the edges table, as long as it holds
\* what was registered at the start - and none of them shows what delta wrote to
\* the LSM store or what SQL or a load made of the tables; the first hop of khop is
\* the same set of nodes.
GraphViewsAgree ==
    answer.ok /\ (answer.cmd = "neighbors" \/ (answer.cmd = "khop" /\ answer.rows # <<>>)) =>
        LET node == answer.args.node
            t    == answer.args.t
            fn   == Sql(ctx, FromNeighbors(Num(node), Num(t)))
        IN  /\ fn.ok
            /\ answer.cmd = "neighbors" => answer.rows = fn.rows
            /\ answer.cmd = "khop" => answer.rows[1].hop = {r.dst : r \in Range(fn.rows)}
            /\ "edges" \in DOMAIN ctx.tables /\ ctx.tables["edges"] = EdgeRows =>
                  Range(fn.rows) = {r \in Range(ctx.tables["edges"]) : r.src = node /\ ActiveAt(r, t)}

\* The rows are the k of the collection c nearest to what args asks for, of those
\* with the label if one is given.
Nearest(c, args, rows) ==
    LET k     == args.k.value
        dist  == [i \in 1..Len(c.ids) |-> SquaredL2(args.query.vector, c.vectors[i])]
        pool  == {i \in 1..Len(c.ids) :
                    \/ args.label = Missing
                    \/ c.labels[i] = args.label.text}
        given == {i \in pool : \E r \in Range(rows) : r.id = c.ids[i]}
    IN  /\ Len(rows) = Cardinality(given)
        /\ Cardinality(given) = IF k > Cardinality(pool) THEN Cardinality(pool) ELSE k
        /\ \A i \in given, j \in pool \ given :
              dist[i] < dist[j] \/ (dist[i] = dist[j] /\ c.ids[i] < c.ids[j])
        /\ \A m, n \in 1..Len(rows) : m < n =>
              \/ rows[m].d2 < rows[n].d2
              \/ rows[m].d2 = rows[n].d2 /\ rows[m].id < rows[n].id

\* knn() is exact, as its documentation says: the k nearest rows, or all there are,
\* nearest first and ties by id, and with a label only rows with that label.  It
\* speaks of collections that have labels when one is given, and of k >= 0.
KnnExact ==
    answer.cmd = "sql" /\ answer.ok /\ answer.args.kind = "knn" =>
        LET c == ctx.knn[answer.args.name.text]
        IN  answer.args.k.value >= 0 /\ (answer.args.label # Missing => c.hasLabels) =>
               Nearest(c, answer.args, answer.rows)
================================================================================
