------------------------------ MODULE VersionMap ------------------------------
(***************************************************************************)
(* What gtv-storage's SnapshotStore promises: for every table a map from   *)
(* timestamps to the batches recorded there, where recording again at the  *)
(* same timestamp replaces what was recorded before, read at the newest    *)
(* recorded timestamp that is not after the one asked for.  There is no    *)
(* list, no order of insertion and no sort at this level.                  *)
(***************************************************************************)
EXTENDS Integers, FiniteSetsExt

CONSTANTS
    Tables,     \* table names
    Times,      \* timestamps used by callers
    Contents,   \* Vec<RecordBatch> values a snapshot may have
    None        \* no batches: a timestamp at which nothing is recorded

VARIABLES
    recorded,   \* recorded[t][ts]: batches of table t recorded at ts, or None
    answer      \* outcome of the last call: [ok, batches]

vars == <<recorded, answer>>

Failed    == [ok |-> FALSE, batches |-> None]
Done      == [ok |-> TRUE, batches |-> None]
Found(b)  == [ok |-> TRUE, batches |-> b]

Init == /\ recorded = [t \in Tables |-> [ts \in Times |-> None]]
        /\ answer = Done

Record(t, ts, b) ==
    /\ recorded' = [recorded EXCEPT ![t][ts] = b]
    /\ answer' = Done

\* A refused snapshot and a read that finds nothing leave every version alone.
Refuse == /\ answer' = Failed
          /\ UNCHANGED recorded

\* The timestamps of t among which a read chooses the newest.
Candidates(t, P(_)) == {ts \in Times : recorded[t][ts] # None /\ P(ts)}

Newest(t, P(_)) ==
    /\ answer' = IF Candidates(t, P) = {} THEN Failed
                 ELSE Found(recorded[t][Max(Candidates(t, P))])
    /\ UNCHANGED recorded

AsOf(t, time) == LET NotAfter(ts) == ts <= time IN Newest(t, NotAfter)

Latest(t) == LET Any(ts) == TRUE IN Newest(t, Any)

Next == \/ \E t \in Tables, ts \in Times, b \in Contents : Record(t, ts, b)
        \/ Refuse
        \/ \E t \in Tables, time \in Times : AsOf(t, time)
        \/ \E t \in Tables : Latest(t)

Spec == Init /\ [][Next]_vars
================================================================================
