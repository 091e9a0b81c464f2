------------------------------ MODULE MCHnswIndex ------------------------------
(* Instances of HnswIndex for TLC: one that grows layers out of vectors of    *)
(* both dimensions, one on a single layer whose nodes lie in two clusters,    *)
(* and one whose m is too small for levels to be drawn.                       *)
EXTENDS HnswIndex

Layered ==
    [vectors |-> {<<>>, <<0>>, <<1>>, <<3>>}, nodes |-> 4, level |-> 1, ks |-> {0, 1},
     m |-> 2, efConstruction |-> 2, efSearch |-> 1]

Clustered ==
    [vectors |-> {<<0>>, <<5>>}, nodes |-> 6, level |-> 0, ks |-> {2, 6},
     m |-> 2, efConstruction |-> 6, efSearch |-> 3]

\* The constructor raises m from 0 to 1.
Degenerate ==
    [vectors |-> {<<>>, <<0>>}, nodes |-> 2, level |-> 1, ks |-> {0, 1},
     m |-> 0, efConstruction |-> 0, efSearch |-> 0]

MCIndexes == {Layered, Clustered, Degenerate}
================================================================================
