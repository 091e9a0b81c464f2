----------------------------- MODULE MCTemporalCSR -----------------------------
(* Instance of TemporalCSR for TLC: two nodes and a node id that is neither. *)
EXTENDS TemporalCSR

\* Every edge over the three ids with a long or a short interval, and one that
\* ties with another in the sort key.
MCRows == {[src |-> s, dst |-> d, type |-> 1, from |-> f, to |-> 2] :
             s \in 0..NodeCount, d \in 0..NodeCount, f \in {0, 1}}
          \cup {[src |-> 0, dst |-> 1, type |-> 2, from |-> 0, to |-> 2]}

\* A node twice, nodes out of order, and one that is not there.
MCNodeLists == {<<0, 0>>, <<1, 0>>, <<NodeCount>>, <<0, NodeCount>>}
================================================================================
