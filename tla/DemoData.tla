------------------------------- MODULE DemoData -------------------------------
(***************************************************************************)
(* The data the shell and the server are built with.  Numbers of the       *)
(* vectors are in tenths.                                                  *)
(***************************************************************************)
EXTENDS QueryEngine

NodeCount == 6
NodeRows  == [i \in 1..NodeCount |-> [id |-> i - 1, value |-> i]]

Edge(s, d, ty, f, t) == [src |-> s, dst |-> d, type |-> ty, from |-> f, to |-> t]

\* edges_int64_batch: the edge table with its times as numbers.
EdgeRows ==
    << Edge(0, 1, 1, 0, 100),  Edge(0, 2, 1, 50, 200), Edge(1, 3, 2, 0, 100),
       Edge(1, 4, 2, 100, 300), Edge(2, 5, 1, 0, 300), Edge(3, 5, 3, 150, 400) >>

Times     == << 0, 10, 20, 30, 40, 50 >>
Prices    == << 100, 101, 99, 102, 103, 104 >>
PriceRows == [i \in 1..Len(Times) |-> [t |-> Times[i], price |-> Prices[i]]]

NumberRows == [n \in 1..10 |-> [n |-> n, square |-> n * n]]

Songs ==
    Collection([i \in 1..10 |-> i - 1],
               << <<0, 0>>, <<5, 5>>, <<50, 50>>, <<52, 51>>, <<10, 10>>,
                  <<11, 10>>, <<90, 90>>, <<91, 90>>, <<2, 1>>, <<49, 50>> >>,
               TRUE,
               << "pop", "pop", "rock", "rock", "jazz",
                  "jazz", "classical", "classical", "pop", "rock" >>)

Tss ==
    Collection([i \in 1..4 |-> i - 1],
               << <<10, 20, 30, 40, 50, 60>>, <<50, 40, 20, 20, 40, 50>>,
                  <<30, 30, 30, 30, 30, 30>>, <<60, 50, 40, 30, 20, 10>> >>,
               FALSE, <<>>)

RegisterKnnCollections(ctx) == RegisterKnn(RegisterKnn(ctx, "songs", Songs), "tss", Tss)

\* register_tables: the shell's context.
ShellContext ==
    LET nodes  == RegisterBatches(EmptyContext, "nodes", NodeRows)
        edges  == RegisterBatches(nodes, "edges", EdgeRows)
        prices == RegisterBatches(edges, "prices", PriceRows)
        graph  == RegisterNeighbors(prices, EdgeRows, NodeCount)
    IN  RegisterKnnCollections(RegisterAsofJoin(graph, PriceRows))

\* build_ctx: the server's, with one more table.
ServerContext ==
    LET nodes   == RegisterBatches(EmptyContext, "nodes", NodeRows)
        edges   == RegisterBatches(nodes, "edges", EdgeRows)
        prices  == RegisterBatches(edges, "prices", PriceRows)
        numbers == RegisterBatches(prices, "numbers", NumberRows)
        graph   == RegisterNeighbors(numbers, EdgeRows, NodeCount)
    IN  RegisterKnnCollections(RegisterAsofJoin(graph, PriceRows))

\* The statements of the parity test, and others that are refused.
Statements ==
    { Select("edges"), Select("prices"), Select("numbers"), Select("missing"),
      FromNeighbors(Num(0), Num(100)), FromNeighbors(Num(6), Num(0)), FromNeighbors(Num(0), Missing),
      FromAsof(<< Num(15), Num(-5), Digits("25", 25) >>), FromAsof(<< Num(0), Str("x") >>),
      FromKnn(Str("songs"), Vec(<<1, 1>>), Num(3), Missing),
      FromKnn(Str("tss"), Vec(<<11, 20, 31, 40, 51, 60>>), Num(4), Missing) }
================================================================================
