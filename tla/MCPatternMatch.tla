---------------------------- MODULE MCPatternMatch ----------------------------
(* Instance of PatternMatch for TLC: every graph of up to three rows between *)
(* two nodes, an id that is no node and u64::MAX, and the graphs in which a  *)
(* diamond fits.                                                             *)
EXTENDS PatternMatch

Row(s, d, t, f, u) == [src |-> s, dst |-> d, type |-> t, from |-> f, to |-> u]

\* Active early, active late, and over at instant 2.
SmallRows ==
    {Row(s, d, "a", i[1], i[2]) : s \in {0, 1}, d \in {0, 1, 3, Unbound},
                                  i \in {<<0, 3>>, <<1, 3>>, <<0, 2>>}}
      \cup {Row(0, 1, "b", 0, 3)}

DiamondRows ==
    {Row(e[1], e[2], "a", f, 3) : e \in {<<0, 1>>, <<0, 2>>, <<1, 3>>, <<2, 3>>}, f \in {0, 1}}

Sorted(g) == \A i, j \in DOMAIN g : i < j => g[i].src <= g[j].src

MCGraphs ==
    UNION {{g \in [1..n -> SmallRows] : Sorted(g)} : n \in 0..2}
      \cup {<<a, b, Row(1, d, "a", f, 3)>> : a, b \in {r \in SmallRows : r.src = 0},
                                            d \in {0, 3}, f \in {0, 1}}
      \cup {g \in [1..5 -> DiamondRows] :
               /\ \A i, j \in 1..5 : i < j => g[i].src < g[j].src
                                               \/ (g[i].src = g[j].src /\ g[i].dst <= g[j].dst)
               /\ {g[i].dst : i \in 1..5} = {1, 2, 3}}

MCPatterns ==
    {TemporalPath(1), TemporalPath(2), Ring(2), Diamond,
     [TemporalPath(2) EXCEPT !.edges[1].type = "b"]}
================================================================================
