---------------------------- MODULE MCSnapshotStore ----------------------------
(* Instance of SnapshotStore for TLC.                                        *)
EXTENDS SnapshotStore

CONSTANTS other, s1, s2

MCSchemaOf == [b \in Batches |-> IF b = other THEN s2 ELSE s1]
================================================================================
