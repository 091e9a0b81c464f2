------------------------------- MODULE MCSession -------------------------------
(* Instance of Session for TLC: the statements of the parity tests, and calls  *)
(* of the table functions with missing, mistyped and mismatched arguments;     *)
(* tables that SQL creates, extends and drops.                                 *)
EXTENDS Session

SixDim == Vec(<<30, 30, 30, 30, 30, 35>>)

KnnQueries ==
    {FromKnn(Str("songs"), Vec(<<5, 0>>), k, label) :
        k \in {Num(-1), Num(3), Digits("2", 2), Str("x"), Missing}, label \in {Missing, Str("rock"), Num(1)}}
    \cup {FromKnn(Str("tss"), SixDim, Num(k), label) : k \in {-1, 3}, label \in {Missing, Str("rock")}}
    \cup {FromKnn(Str(name), q, Num(2), Missing) : name \in {"songs", "none"}, q \in {SixDim, Str("x")}}

TableStatements ==
    { Create("copy", "edges"), DropTable("copy"), DropTable("edges"),
      Insert("edges", Edge(2, 4, 7, 0, 500)), Insert("prices", Edge(2, 4, 7, 0, 500)) }

MCQueries ==
    Statements \cup KnnQueries \cup TableStatements
    \cup {FromNeighbors(Num(-1), Num(0)), FromNeighbors(Column, Num(0))}
================================================================================
