----------------------------- MODULE SnapshotStore -----------------------------
(***************************************************************************)
(* gtv-storage: SnapshotStore, named tables that each keep a vector of     *)
(* full-table snapshots in timestamp order.  An insert pushes at the end   *)
(* and sorts the vector with a stable sort; a point-in-time read scans it  *)
(* backwards.                                                              *)
(*                                                                         *)
(* Abstractions.  A record batch is an opaque value with a schema; nothing *)
(* else of its contents matters here.  &mut self makes the calls           *)
(* sequential.  answer keeps the outcome of the last call.                 *)
(***************************************************************************)
EXTENDS Integers, Sequences

CONSTANTS
    Tables,        \* table names
    Times,         \* i64 timestamps used by callers
    Batches,       \* RecordBatch values
    Schemas,       \* Arrow schemas
    SchemaOf,      \* SchemaOf[b]: schema of batch b
    NoSchema,      \* schema of a table that is not in the map
    MaxBatches,    \* bound on the batches of one snapshot
    MaxSnapshots   \* bound on the snapshots of one table

ASSUME StoreAssumption ==
    /\ Times \subseteq Int
    /\ SchemaOf \in [Batches -> Schemas]
    /\ NoSchema \notin Schemas
    /\ MaxBatches \in Nat
    /\ MaxSnapshots \in Nat

VARIABLES
    schema,      \* schema[t]: TableVersions.schema, or NoSchema if t has no entry
    snapshots,   \* snapshots[t]: TableVersions.snapshots
    answer       \* outcome of the last call: [ok, batches]

vars == <<schema, snapshots, answer>>

\* A Vec<RecordBatch>; a snapshot that is stored has at least one batch.
BatchVecs == UNION {[1..n -> Batches] : n \in 0..MaxBatches}
Snapshot  == [timestamp : Times, batches : BatchVecs \ {<<>>}]

Err    == [ok |-> FALSE, batches |-> <<>>]
Ok(b)  == [ok |-> TRUE, batches |-> b]

TypeOK ==
    /\ schema \in [Tables -> Schemas \cup {NoSchema}]
    /\ snapshots \in [Tables -> Seq(Snapshot)]
    /\ answer \in [ok : BOOLEAN, batches : BatchVecs]

-------------------------------------------------------------------------------
\* Fault: among equal timestamps the order of insertion is reversed.
SortedByFault(v, p) ==
    /\ \A i \in DOMAIN v : \E j \in DOMAIN v : p[j] = i
    /\ \A i, j \in DOMAIN v : i < j =>
          \/ v[p[i]].timestamp < v[p[j]].timestamp
          \/ v[p[i]].timestamp = v[p[j]].timestamp /\ p[i] > p[j]

\* Vec::sort_by_key(|s| s.timestamp): a stable sort, so the permutation that
\* orders by timestamp and, among equal timestamps, keeps the order of v.
SortedBy(v, p) ==
    /\ \A i \in DOMAIN v : \E j \in DOMAIN v : p[j] = i
    /\ \A i, j \in DOMAIN v : i < j =>
          \/ v[p[i]].timestamp < v[p[j]].timestamp
          \/ v[p[i]].timestamp = v[p[j]].timestamp /\ p[i] < p[j]

\* Fault: the vector is not sorted after the push.
SortByTimestampFault(v) == v

SortByTimestamp(v) ==
    LET p == CHOOSE q \in [DOMAIN v -> DOMAIN v] : SortedBy(v, q)
    IN  [i \in DOMAIN v |-> v[p[i]]]

\* Index found by iter().rev().find(|s| s.timestamp <= time), 0 if none.
FindLast(v, time) ==
    LET hits == {i \in DOMAIN v : v[i].timestamp <= time}
    IN  IF hits = {} THEN 0 ELSE CHOOSE i \in hits : \A j \in hits : j <= i

-------------------------------------------------------------------------------
Init ==
    /\ schema = [t \in Tables |-> NoSchema]
    /\ snapshots = [t \in Tables |-> <<>>]
    /\ answer = Ok(<<>>)

\* insert(): only the schema of the first batch is compared.
InsertEmpty ==
    /\ answer' = Err
    /\ UNCHANGED <<schema, snapshots>>

InsertMismatch(t, b) ==
    /\ b # <<>>
    /\ schema[t] \notin {NoSchema, SchemaOf[b[1]]}
    /\ answer' = Err
    /\ UNCHANGED <<schema, snapshots>>

Insert(t, ts, b) ==
    /\ b # <<>>
    /\ schema[t] \in {NoSchema, SchemaOf[b[1]]}
    /\ Len(snapshots[t]) < MaxSnapshots
    /\ schema' = [schema EXCEPT ![t] = SchemaOf[b[1]]]
    /\ snapshots' = [snapshots EXCEPT
                       ![t] = SortByTimestamp(Append(@, [timestamp |-> ts, batches |-> b]))]
    /\ answer' = Ok(<<>>)

\* as_of(): an unknown table, or one with nothing that old, is an error.
AsOf(t, time) ==
    LET i == FindLast(snapshots[t], time)
    IN  /\ answer' = IF i = 0 THEN Err ELSE Ok(snapshots[t][i].batches)
        /\ UNCHANGED <<schema, snapshots>>

\* latest(): the last of the vector.
Latest(t) ==
    /\ answer' = IF snapshots[t] = <<>> THEN Err
                 ELSE Ok(snapshots[t][Len(snapshots[t])].batches)
    /\ UNCHANGED <<schema, snapshots>>

Next ==
    \/ InsertEmpty
    \/ \E t \in Tables, b \in BatchVecs :
          InsertMismatch(t, b) \/ \E ts \in Times : Insert(t, ts, b)
    \/ \E t \in Tables : Latest(t) \/ \E time \in Times : AsOf(t, time)

Spec == Init /\ [][Next]_vars

-------------------------------------------------------------------------------
\* The variables have their types, no stored snapshot being empty, and the vector
\* every reader scans is in timestamp order, whatever the order in which the
\* snapshots were recorded; only a table with a schema has one.
Ordered ==
    /\ TypeOK
    /\ \A t \in Tables :
          /\ \A i, j \in DOMAIN snapshots[t] :
                i < j => snapshots[t][i].timestamp <= snapshots[t][j].timestamp
          /\ schema[t] = NoSchema <=> snapshots[t] = <<>>

\* What as_of(time) answers in the current state.
AsOfAnswer(t, time) ==
    LET i == FindLast(snapshots[t], time)
    IN  IF i = 0 THEN <<>> ELSE snapshots[t][i].batches

\* The past is immutable: whatever a call does, the answer of as_of(time) can
\* change only by an insert into that table at or before that time that nothing
\* recorded is newer than, and then only to the batches just inserted.
PastIsStable ==
    [][\A t \in Tables, time \in Times :
          \/ AsOfAnswer(t, time)' = AsOfAnswer(t, time)
          \/ \E ts \in Times, b \in BatchVecs :
                /\ Insert(t, ts, b)
                /\ ts <= time
                /\ \A i \in DOMAIN snapshots[t] :
                      snapshots[t][i].timestamp \notin ts + 1 .. time
                /\ AsOfAnswer(t, time)' = b]_vars

\* The store implements VersionMap: a timestamp recorded twice answers with the
\* later recording, out-of-order inserts do not matter, and refused inserts
\* leave no trace.
LastAt(v, ts) ==
    LET at == {i \in DOMAIN v : v[i].timestamp = ts}
    IN  IF at = {} THEN <<>> ELSE v[CHOOSE i \in at : \A j \in at : j <= i].batches

Abstract == INSTANCE VersionMap WITH
                Contents <- BatchVecs \ {<<>>}, None <- <<>>,
                recorded <- [t \in Tables |-> [ts \in Times |-> LastAt(snapshots[t], ts)]]

ImplementsVersionMap == Abstract!Spec
================================================================================
