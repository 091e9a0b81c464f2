# gtvdb: a verification development in TLA+

gtvdb is an in-memory temporal graph and array database in Rust: an immutable
graph with a Temporal-CSR index, a mutable delta over it with background
compaction, a time-travel snapshot store, zone maps, as-of joins and moving
windows, flat and HNSW vector indexes, temporal pattern matching, a DataFusion
SQL front end, a gRPC server and a shell.  This directory models its core logic,
model-checks it with TLC on small instances and proves the main results with
TLAPS for every instance.

`PROJECT.json` lists the components, the runs, the mutations that show each
property can fail, the map from definitions to source lines, the hazards and the
theorems.  A definition `XFault` is a faulty variant of `X`, the kind of bug a
change to that code could introduce; it is used only to show that a property
notices it.

## 1. Inventory

| Component (crate) | State | Operations | Hard behaviour | What makes it correct |
|---|---|---|---|---|
| DeltaBuffer, LsmStore (gtv-delta) | snapshot graph and delta, one mutex each; stop flag, thread handle | insert, delete, pending, merged_edges, compact_now, spawn_background, stop_background, drop; the background loop | several threads, two mutexes, a compaction of several steps that may fail in the middle, stop and join racing it | every reader sees one logical edge set; no write is lost; nobody deadlocks; stop returns and is final |
| SnapshotStore (gtv-storage) | per table a schema and a vector of snapshots in timestamp order | insert, as_of, latest, timestamps | out-of-order and repeated timestamps, refused inserts | as_of(T) is the newest version not after T; the past does not change |
| Tables, TemporalCSR, TemporalGraph (gtv-core) | immutable columns; sorted rows, offsets | the table and chunk constructors, from_arrays, neighbors, neighbors_record_batch, khop | index arithmetic, lengths checked in several places, unvalidated destinations | the runs partition the rows; lookups equal what the table says |
| Zone maps (gtv-core) | zones over two columns | build_zone_maps, temporal_mask_pruned | half-open bounds, partial chunk, inverted intervals | pruning never changes the mask |
| As-of join (gtv-array) | none | sorted and unsorted two-pointer merge | ties, duplicates, unsorted input | each row gets the last right row not after it |
| Moving windows (gtv-array, gtv-engine udf) | running sum | mavg, msum, deltas | infinity and NaN in a running sum, overflow | each value is the sum over its window |
| FlatIndex, HnswIndex (gtv-index) | vectors; layered neighbour lists, entry point | build, insert, search_knn | links pruned in one direction, layer bounds | results are members, masked, ordered; search terminates |
| Pattern matching (gtv-pattern) | DFS state | find, find_from | backtracking, limit, errors | exactly the matches of the pattern, up to the limit |
| Query engine (gtv-engine) | registered tables, index, series and K-NN collections (RwLock) | register_*, sql, table functions | data registered once and never refreshed, any statement accepted, arguments that are not what they seem | the views of the graph agree; knn is exact |
| Protocol and server (gtv-proto, gtv-server) | one context for all clients, lost with the process | execute, encode, decode, query_remote | statements of several clients that change the context, failures carried in the answer, connections lost, no timeout | the answer is what the context gives at some moment of the call, or an error |
| Parquet (gtv-storage) | a file | write_batch, read_batches | truncation before a write that may fail, crashes | a load returns what the last complete save wrote |
| WASM UDFs (gtv-udf) | guest instance | call, map | traps in the middle of a column | none or all of a column |
| Shell (gtv-cli) | the demo stores and context | one command at a time | several stores over clones of one graph | each command does what it prints |
| start.sh, stop.sh | pid file | start, stop | stale pid file, reused pids, concurrent scripts | no server is lost, none is left running, no stranger is signalled |
| Benchmarks (hft_bench) | buckets, per-chunk pointers, uninitialised output | parallel as-of joins with a tolerance | unchecked reads, parallel stores, two passes | the result is the reference's, every row written once |

How they interact: `LsmStore` calls `DeltaBuffer::apply` and `TemporalGraph::new` (which
builds a `TemporalCSR`) inside its critical sections; the engine's table functions, the
pattern matcher and the shell read graphs through the CSR; the shell and the server each
own one `GtvContext`.  Shared mutable state between threads exists in four places: the
two mutexes of `LsmStore`, the engine's registries, the output slices of the benchmark's
joins, which rayon splits by chunk, and the context of a server: all clients of a server
query, and may change, its one context.  Processes share files: the Parquet files of
`save` and `load`, and the pid file.

## 2. Modules

| Module | Models | Uses |
|---|---|---|
| `EdgeSet` | abstract: the logical edge set callers of LsmStore rely on | |
| `LsmStore` | `store.rs`, `delta.rs`: clients, background thread, owner, one lock operation per step | refines `EdgeSet` |
| `LsmStoreProofs` | inductive invariant, safety theorems, refinement | `LsmStore`, TLAPS |
| `VersionMap` | abstract: timestamps to contents | |
| `SnapshotStore` | `snapshot.rs` | refines `VersionMap` |
| `SnapshotStoreProofs` | order, stable past, refinement | `SnapshotStore`, TLAPS |
| `TemporalCSR` | `table.rs`, `chunk.rs`, `graph.rs`, `csr.rs`: constructors, building the index, neighbors, batch lookups, khop | |
| `TemporalCSRProofs` | the index and the lookups are exact, for all tables and queries | `TemporalCSR`, TLAPS |
| `ZoneMap` | `temporal.rs`: both loops | |
| `HnswIndex` | `hnsw.rs`: insertion, pruning, masked search; `flat.rs` as the exact reference | |
| `HnswIndexProofs` | bounds, masked and wide searches, for all vectors and insertions | `HnswIndex`, TLAPS |
| `PatternMatch` | `gtv-pattern`: the constructors and the backtracking search | |
| `ScanProofs` | zone-map pruning and pattern matching are exact, for all inputs | `ZoneMap`, `PatternMatch`, TLAPS |
| `AsofColumns` | the columns both as-of joins work on, what a match is | |
| `AsofJoin` | `asof.rs` of gtv-array and of the engine: both merges, the table function | `AsofColumns` |
| `RollingWindow` | `window.rs`, `udf.rs`: mavg, msum, deltas | |
| `BucketJoin` | `hft_bench.rs`, `asof_join.cu`: the five parallel as-of joins and their reference | `AsofColumns` |
| `ColumnProofs` | both joins and the moving windows are correct, for all columns | `BucketJoin`, `RollingWindow`, an instance of `AsofJoin`, TLAPS |
| `QueryEngine` | gtv-engine: context, `neighbors()`, `asof_join()`, `knn()`, argument checks, statements that change tables, as operators on a context value | |
| `DemoData` | the tables and collections the shell and the server register | `QueryEngine` |
| `Session` | the shell with its stores, context and Parquet files | `DemoData` |
| `SessionProofs` | durable saves, round trips, agreeing views, exact knn | `Session`, TLAPS |
| `RemoteQuery` | gtv-proto, gtv-server, `start.sh`, `stop.sh` | `DemoData` |
| `RemoteQueryProofs` | honest answers, placement of the server | `RemoteQuery`, TLAPS |
| `MC*` | instances for TLC | |

**LsmStore.**  `snapshot`, `inserts`, `deletes` are the data behind the two
mutexes `snapLock` and `deltaLock`.  `pc[t]` walks a thread through `lock()` of
the snapshot, `lock()` of the delta, the body, and the drops of the two guards in
reverse order.  A compaction's body is three steps (`CompactApply`,
`CompactInstall` or `CompactFail`, `CompactClear`), so that other threads may run
between them; `compact_now` and the background thread share these actions as they
share the code's sequence.  The owner's `&mut self` methods need every client
outside a call, which is what the borrow checker enforces.  The flag is read and
written with relaxed ordering; it is one location, and the only other
synchronisation between the owner and the thread is the join, so a stale read is
the same as reading earlier, which interleaving covers.  An edge table is the set
of its rows since `apply` deduplicates.  A poisoned mutex is not modelled: no
code panics while holding one.

**SnapshotStore.**  One action per outcome of each call.  `sort_by_key` is the
permutation that is ordered and stable; `iter().rev().find` is the greatest index
that matches.  Only the first batch's schema is compared, as in the code, so a
snapshot may hold batches of another schema.

**TemporalCSR.**  `from_arrays` phase by phase and, in its two counting loops,
row by row and node by node; the unstable sort may return any ordered
permutation.  A table comes as a record batch, as vectors, as a chunk or as arrays,
with the checks of each way (`NewTable`, `FromVecs`, `ToCsr`, `FromArrays`, then
`Validate`).  `neighbors` lists the active rows of a run by their rank in it, which is
what its filter yields.  `khop` hop by hop, `neighbors_record_batch` source by source.

**ZoneMap.**  Chunk by chunk and row by row, then zone by zone; the ends of i64
are constants.

**HnswIndex.**  An insertion is a push, the moves of the greedy descent, and per
layer a beam search (one step per expanded candidate) and a `WireLayer` that links
and prunes; a search shares the descent and the beam.  Candidate, result and
neighbour lists are sets: the first two are sorted by (distance, position) at every
use, a neighbour list is only read as a set except for ties of the descent, which
are left open.  The level is any the generator may draw (`Levels`).  The constructor
takes any m and raises it to at least 1, where the level distribution divides by ln 1 = 0
and the level is the largest `usize` (-1 in the model, so that the level after it is 0):
`InsertOverflows` is the addition that panics in a debug build, and in a release build
the node is pushed without any layer and `OutOfRange` ends the program at the first list
that is not there.

**PatternMatch.**  The recursion of `dfs` is `ei` and, per pattern edge, the row its
iterator over the neighbours is at and `to_bound`; the iterator yields the least active
row after that one.  Pattern edges are declared forward, which `PatternEdge` demands of
its callers. `Leave` is the return into the caller's loop, with the
unbinding that follows the call there.  `u64::MAX` is both an id an edge may end in
and the mark of an unbound variable, as in the code.  `find` is `find_from` from node
to node with one common list of matches, which is what subtracting the matches
found so far from the limit amounts to.

**AsofJoin.**  One action per turn of the inner loop and per result; the two
variants differ in `order`, the identity or any argsort.  A result is the position
of the right row, so that equal values cannot hide a wrong row.

**RollingWindow.**  One step per value.  Numbers are finite, infinite or NaN; i64
arithmetic wraps (release build; a debug build panics where the model wraps).  The sum
of a range, which the outputs are compared with, is a recursive function of its end.

**BucketJoin.**  The five functions differ in how a chunk finds its first right row,
in what the output holds before it is written, and in whether the payload is gathered
in a second pass; a variant is the record of these three.  The bucket index is built
row by row; after that every chunk advances and emits on its own, in any
interleaving.  The SIMD, prefetching and non-temporal variants of one store are one
store.  `writes` counts the stores to each row.

**QueryEngine, DemoData.**  A context is a value: tables, the index behind
`neighbors()`, the series behind `asof_join()`, collections.  An argument is what the
literal helpers can make of it; a string may cast to an integer, as DataFusion casts
`'3'`.  A statement reads a table or a table function, or creates a table from another,
drops one or inserts a row: `Sql` is what it answers, `SqlEffect` what it makes of the
context.
Distances stay squared and NaN coordinates are left out, as are tied ids (both
programs number them).  Numbers in the demo vectors are in tenths.

**Session.**  One action per command; `save` is a step per call of `write_batch`, so
that a failure or a kill can come in between.  SQL may create, extend and drop tables of
the context (`RunSql`); a moving window of 0 ends the process (`WindowOfZero`).  `saved`
is history: the table last saved completely to a path that nothing has opened for
writing since.  Whether DataFusion replaces a table of the same name or refuses it is
left open (`Load` and `LoadTaken`).  One shell at a time writes a path.

**RemoteQuery.**  One action per step of `query_remote` and `execute`, and one per
test or command of the scripts that looks at a process or the pid file.  `ctx[p]` is the
context of the server process p, which all its clients share and which goes with the
process.  A statement is executed in one step, but for a CREATE TABLE AS, which reads its
source before it registers the table (`Collect`, `RegisterTable`).  `seen` is history:
what the context would have answered to a call at each moment of it.  Signals, pids and the
port are external: a signalled server ends in its own time, a free pid may be taken
by another program, one process listens.  `overlap` and `stale` are history: scripts
have run at once; the server named in the pid file ended without being asked to.

## 3. Runs

| Run | Question | Instance |
|---|---|---|
| `lsm_store` | locks, stale merges, honest outcomes, quiet after stop, no deadlock; does it implement `EdgeSet`; does the thread fold the delta, does stop return? | 2 clients, background, owner; 1 good edge and 1 with an unknown source; with fairness |
| `lsm_respawn` (violated) | does a respawned thread compact? | 1 client, 1 edge |
| `snapshot_store` | order, stable past, `VersionMap` | 1 table, 3 timestamps, up to 4 snapshots of 1 or 2 batches in 2 schemas |
| `temporal_csr` | partition, rows kept, exact frontiers and batches, exact failures | every table of up to 3 rows over ids 0, 1 and the unknown 2, by every way in; 2 hops; lists with repeated, unordered and unknown nodes |
| `zone_map` | sound zones, exact mask | every pair of columns up to length 3 over {-1, 0, 1}, chunk sizes 1 to 4 |
| `hnsw_index` | index bounds, list bounds, termination; are masked searches complete, and exact with a wide beam? | up to 4 nodes on 2 layers at 3 places and without coordinates; up to 6 nodes on 1 layer at 2 places, every mask, k up to 6; m = 2; and m = 0, up to 2 nodes |
| `pattern_match` | exactly the matches, exact failures, restored state | graphs of up to 3 rows over 2 nodes, an unknown id and `u64::MAX`; graphs with a diamond; paths, a ring, a diamond, a typed path; limits 0, 1, 4 |
| `asof_join` | is every left time matched, in both variants and the table function? | up to 3 left and 4 right times over 3 instants |
| `rolling_window` | do outputs equal the sums over their windows? | columns of up to 4 values; integers of 3 bits; windows -1 to 3 |
| `bucket_join` | sound buckets, reads in bounds, rows written once, equal to the reference, nobody stuck | ascending columns of up to 4 left and 3 right times over 0, 1, 2, 4; chunks of 2 rows; widths 1, 2; tolerances 0, 1; all five functions |
| `session` | durable saves, round trips, agreeing views, exact knn | the demo data, 2 paths, 3 names (two registered, one free), 41 statements; tables grow to 7 rows |
| `remote_query` | honest answers, no orphan, stop stops, no stranger signalled, scripts end | 2 clients, 2 scripts, at most 2 of the four at a time; 2 pids; 3 statements (create, read and drop one table) |

Each module has one type invariant, `TypeOK`.  `lsm_store` checks it on its own; in
the other runs it is a conjunct of an invariant that says more, and in all proved
modules it is proved.

Why the bounds suffice: LsmStore's state has no counters, so its runs are
exhaustive for the given threads and edges; every lock conflict involves two
threads and the data of one edge, and the second edge separates "the write that
fails" from "the write it holds up".  Four snapshots put equal timestamps on
both sides of others.  Three rows give a source with two rows, an empty run, a
duplicate, and a partial chunk.  In the HNSW graph with m = 2 a list is first
pruned with the fourth node above layer 0 and with the sixth at layer 0, where a node
can then also become unreachable, so that searches over such graphs are covered.  A
diamond needs four edges; five rows add a parallel one.  Four left rows in chunks of
two make two workers with their own start row; times 0 to 4 with a gap leave a bucket
empty, and left times lie before, between and after the right ones.  Two scripts are
what it takes for a race on the pid file, two pids for a second server and a reused
pid; two calls at a time are what it takes for one statement to change the context under
another, and a call and a script for a server stopped under a call.  One row inserted
(`MaxRows` is one more than the demo's longest table) already makes a table differ from
what was registered.  The theorems below remove the bounds where they
exist.

**Fairness.**  Weak fairness for each client inside a call, for the background
thread and for the join: the operating system runs runnable threads.  Calls,
spawns and stops are never forced.  `std::sync::Mutex` does not promise that a
waiter ever gets the lock, so no strong fairness is assumed; `BackgroundFolds`
therefore speaks of behaviours in which the clients eventually leave the mutexes
alone.  `StopReturns` needs no such premise, because `&mut self` keeps clients
out while the owner joins.  `HnswIndex` assumes that a call in progress keeps
running on its caller's thread.  `RemoteQuery` assumes that a
running script goes on and nothing else: not that a server answers, starts up or ends
when it is signalled, and not that a call ends, since `query_remote` has no timeout.
`ScriptsEnd` therefore rests on the bounded loop of `stop.sh` alone.  The
other modules are sequential loops or calls without a liveness property; TLC checks
them for deadlock, so none of their states but the finished ones is stuck.

**What the violation shows.**
`stop_background` sets the stop flag and nothing clears it, so a thread spawned
later exits at its first check while `handle` is `Some` (`store.rs:102`; the
comment on line 71 says it compacts every interval).

**Observations** the models make visible and that no run states:

* `insert` accepts any source node; `TemporalGraph::new` then refuses the merged
  table in every iteration, the background thread drops the error (`store.rs:91`) and
  no pending write is folded until the edge is deleted.  Nothing is lost
  (`HonestOutcome`, the refinement); `BackgroundFolds` therefore asks for indexable
  edges.
* An inserted vector that is far from all its neighbours is pruned from each of their
  lists at once (`hnsw.rs:238`) and can never be found; `MaskedSearchFills` and
  `WideBeamIsExact` speak of the nodes linked from the entry point.
* An index made with an m of 0 or 1 panics at its first insertion (debug build) or at the
  first list it indexes (release build), because `random_level` divides by ln 1
  (`hnsw.rs:111`); `IndexInRange` is about other indexes, and says of these that no
  search ever answers.
* The comment of `KnnCollection::search` (`knn.rs:77`) speaks of an answer restricted to
  the vectors with the given label, but a label given for a collection that has none is
  ignored (`knn.rs:84`) and the answer is not restricted; a negative k becomes a huge one
  (`knn.rs:143`) and gives all rows.  Both are in the model and in the run; `KnnExact`
  leaves them out by its premise.
* A remote call has no timeout (`gtv-proto/src/lib.rs:62`): with a query that never
  finishes or a connection that goes silent the shell hangs, and no property denies it.
* Any client may create, change and drop the tables of the server, for all clients
  (`gtv-server/src/lib.rs:40`), and what was created is lost when the server restarts.
* `save` writes the demo table of that name even after another file was loaded over
  it, and refuses tables that only a load created (`main.rs:293`).
* When the server ends between `kill -0` and `kill`, `set -e` ends `stop.sh` with exit
  code 1 and leaves the pid file (`stop.sh:27`), although its header says it is removed
  either way, and a program that gets the pid is taken for the server; `StopStops`
  speaks of exit code 0.
* Two `start.sh` at once can leave a server that no pid file names (`start.sh:45`), and
  while `stop.sh` waits, the pid may pass to another program, which then gets the
  SIGKILL (`stop.sh:34`): `NoOrphan` asks for scripts that run one at a time, and
  `OthersAreSafe` speaks of the SIGTERM.

Two further properties carry a premise that the code does not ensure.  `EveryLeftMatched`
needs ascending right times: the library functions ask their callers for them, but
`asof_join(...)` in SQL joins against a series nobody checked
(`gtv-engine/src/asof.rs:53`), and on another order may answer NULL although an
earlier row exists.  `OutputsExact` needs what has left the window to be finite: an
infinity or NaN stays in the running sum after it has left (`window.rs:31`), so every
later sum is NaN.

## 4. Proofs

All 34 safety and refinement properties that the runs check are theorems, for every
value of the constants.  The assumptions on constants are the named `ASSUME`s
of the component modules, which TLC evaluates in every run; all of them are types
(times are integers, bounds are natural numbers) or say what the code or its callers
ensure: `ThreadsAssumption`, `EdgesAssumption` (thread names differ, the initial
snapshot was indexable), `HnswAssumption` (m, the beam widths and the bounds are natural
numbers; a vector has one coordinate or none, so distances are those on a line),
`NoneAssumption` (no process has the pid that stands for "no pid"),
`PatternAssumption` (the rows are in the index's order, pattern edges are declared
forward) and `QueriesAssumption` (the kinds of statement; k and the vectors asked for are
numbers).

`LsmStoreProofs`, for any clients, edges, node count and initial snapshot:

* `ControlInv` is inductive: types, `CallShape` (a thread's locals follow its
  control), `Roles` (the borrow rules; no handle, no thread) and `LockDiscipline`.
  `LockDiscipline` alone is not inductive: spawning must know that a thread that
  has no handle holds no lock, and unlocking must know which method is running.
* `DataInv` is inductive given `ControlInv`: `FreshMerge`, `HonestOutcome` and
  `StoppedIsQuiet`.  The argument is that a thread at
  `install` or `clear` holds both mutexes, so nobody else changes the data.
* `Refinement`: every step maps to a step of `EdgeSet` or is invisible.  `Insert`
  and `Delete` change the logical set by their edge; `CompactInstall` replaces the
  snapshot by a table that `FreshMerge` says is the logical set, and applying the
  delta to it again gives the same set; `CompactClear` then removes a delta that
  is already in the snapshot.

`SnapshotStoreProofs`, for any tables, timestamps and batches: `Ordered` is inductive
because a stable sort of a vector in order with one more element at the end always
exists and only moves that element (`PushCanBeSorted`, `SortEffect`).  Then the last
index not after T is the end of a prefix, which makes `as_of` and `latest` the lookups
of `VersionMap` (`ReadIsNewest`) and the refinement a case per call; `PastIsStable`
follows since an insert leaves every shorter prefix alone (`SamePast`).

`TemporalCSRProofs`, for any table, node list, number of hops and instant: the invariant
says, for each loop of `from_arrays`, what `offsets` counts after i turns (`Counting`,
`Summing`); it makes the offsets the numbers of rows before each source
(`OffsetsPartition`), so a source's run is exactly its rows (`RunOfSource`).  The
lookups follow from what a filtered run is (`RowsAtIs`: the n-th active row is the one
with n - 1 active rows before it) and from the unfolding of the two recursive functions
they are compared with (`ReachUnfolds`, `CollectedUnfolds`).  `Hopping` and `Batching`
record that everything expanded so far was a node, which `FailsIffOutOfRange` needs.

`ScanProofs`, for the two scans over temporal edges.

* `ZonesSound` and `PrunedIsFull`, for columns of any length and content.  The invariant
  adds the running bounds of the chunk being scanned and what the mask holds after the
  zones visited so far.
* `StateFollowsRecursion`, `FoundExact` and `FailsIffOutside`, for any graph, forward
  pattern, start and limit.  The search takes the choices of rows in one order, edge by
  edge and each by its row, and `Passed` says which of them it is past: those from an
  earlier start, and those before the current path.  Besides the types
  (`Typed`), `PInv` then has five parts.
  `OnPath`: the rows chosen so far match the edges before `ei` and bind what `nodes`
  binds, and each open loop remembers rightly whether it has to unbind its variable.
  `Starting`: `find` ends before its last node only at its limit.  `Complete`: whatever
  the search is past is in `matches` or, if it is the beginning of a match, does not lead
  outside.  `Sound`: `matches` holds matches, each once, all of which the search is past.
  `Outside`: a failed call has met a matching that leads outside.  `Complete` and `Sound`
  need each other: a match is new because the search was not past it.  A row the loop
  skips begins no match (`NextRow`: the next row of an embedding fits), one it takes
  extends the path (`TakeExtends`), and a return shortens it (`LeaveShortens`).  At the
  end everything is passed (`EndPassesAll`); the matches are finitely many
  (`FiniteFound`), so `matches`, which lists them without repetition, has their number.

`HnswIndexProofs`, for any constructor arguments, vectors, levels and number of
insertions.  The invariant has two cases (`Built`, `Unlayered`).  With an m below two no
node has a layer, so whatever a call does it never comes to a beam search and never
answers; a panic is then the only way on.  With a larger one the layers are in range: the
order by (distance, position) is total, so the rank of a node in a set is a bijection
onto the numbers below its size (`RankNumbers`), and taking the n nearest leaves n nodes
(`NearestCount`): that is `DegreeBound`.  `Beam` is the invariant of `search_layer`: the
visited nodes are linked from the entry point, the links of all but the candidates have
been followed, and the results are as many allowed nodes as fit.  When the loop stops
nothing is left to follow, so the visited nodes are all that can be reached, which gives
`MaskedSearchFills` and, when everything fits into the beam, `WideBeamIsExact`.

`ColumnProofs`, for columns of any length.  `AsofJoin` is an instance there; the two
joins share their columns (`AsofColumns`).

* `EveryLeftMatched`, whenever the right times ascend.  `MergeSound` is the heart of the
  invariant: what the pointer has passed is at or before every left time still to come,
  which needs the order visited to be ascending (`OrderSound`), and what is emitted is
  settled for good.
* `UncheckedInRange`, `MatchesReference` and `WrittenExactlyOnce`, for every chunk size,
  bucket width, tolerance, variant and interleaving of the workers.  `Indexing` says that
  the buckets up to that of the last row passed are filled; at the end of the loop the
  index is what its comment says, so a bucket never starts after a time of its own
  (`BucketStartIs`).  `Chasing`: a chunk's pointer does not overtake the match of the left
  row it is at, except that the bucketed variants begin at row 1 even if that is too late,
  which the sign of the difference catches (`StoppedAtAnswer`).  `Storing` says what is
  stored for the rows each pass has and has not come to; since a row is in one chunk
  only (`OneChunk`), a worker disturbs nobody else's.
* `OutputsExact`, for every window size and integer width.  `OutputsExact` does not
  mention the running sum, so the invariant adds `Running`: it is the sum of the window,
  as long as what has left is finite.  One turn of the loop is `AddEntering`, which holds
  for infinities and NaN too, and `SubLeaving`, which needs a finite number to leave.
  Integers wrap around at every step and still end where the definition does, since a
  wrapped number differs by a multiple of 2^64 and there is one such number in the range
  (`WrapIs`, `WrapSteps`).

`SessionProofs`, for any paths, names and statements: `SavedIsLoadable` needs that a save
in progress has given up its claim on the path (`SaveShape`) and `RoundTrip` that a file
with rows was filled by a save (`OnlySavesFill`).  `Registered` - the index and the
collections are the ones registered at start, whatever is loaded and whatever SQL does to
the tables - gives
`GraphViewsAgree` and `KnnExact`, through what sorting a finite set by a strict order
yields (`ArrangedIs`).

`RemoteQueryProofs`, for any clients, scripts, pids and statements: `HonestAnswer` needs,
of every call (`CallOK`), that what the context answers now has been seen while the call
is at its server, that a source read by a CREATE TABLE AS found its name free, which was
an answer of that moment, and that a reply not read yet is one of what has been seen.
What another client executes adds to what is seen and takes nothing away.
`Placement` says where a server may be by what the one running script is about to do;
with `FreshPid` it is inductive as long as scripts do not overlap, and gives `NoOrphan`,
`StopStops` and `OthersAreSafe`.

Sums of data, ranks and least elements are where these proofs would use induction.  They
use instead that a non-empty set of natural numbers has a least member (`LeastNatural`,
from the well-foundedness of inclusion between finite sets) and that an injection of a
finite set into one of its size is onto.

Only model-checked: liveness (`BackgroundFolds`, `StopReturns`, `CallsReturn`,
`ScriptsEnd`), since fairness is beyond the prover.

## 5. Plan

All components that keep state or carry an algorithm of their own are modelled, and
every safety and refinement property checked is proved.  What could follow is
finer-grained: floating-point rounding in the moving windows, and HNSW vectors of more
than one coordinate.

## 6. Not modelled

SQL planning and execution (DataFusion), Arrow's and Parquet's encodings, gRPC transport
and wasmtime are external: of SQL the models have statements on one table or table
function, without OR REPLACE, IF EXISTS, views and the like, and an INSERT is planned
and run in one step.  A statement whose connection was lost may still be executed by the
server: the models let other clients' statements take that place.  A WASM function is a
shell command that succeeds or fails: the guest is compiled for each command and
dropped, so its state is never seen.  The constructor of `FlatIndex` only checks
lengths.  The other test cases of `hft_bench.rs`, `bench_temporal.rs` and
`bench_asof.rs` time functions modelled here on generated data.  Printing, command-line
text and the scripts' options are left out.  Offsets are unbounded integers: the code's
`u32` would wrap at 2^32 rows.
