------------------------------ MODULE MCLsmStore ------------------------------
(* Instances of LsmStore for TLC.                                            *)
EXTENDS LsmStore

CONSTANTS BadEdges   \* edges whose source is not a node of the graph

MCNodeCount == 1
MCSrcOf     == [e \in Edges |-> IF e \in BadEdges THEN MCNodeCount ELSE 0]
================================================================================
