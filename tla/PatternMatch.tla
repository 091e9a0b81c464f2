------------------------------ MODULE PatternMatch ------------------------------
(***************************************************************************)
(* gtv-pattern: temporal pattern matching.  find_from runs a backtracking  *)
(* search that matches the pattern's edges in order, binding a variable to *)
(* a node the first time an edge ends in it; find runs it from every node. *)
(* The recursion of dfs is a program counter and, per pattern edge, the    *)
(* row at which its iterator over the neighbours is.                       *)
(*                                                                         *)
(* The graph is the row sequence of a TemporalCSR: sources are nodes,      *)
(* destinations are not checked and may be any id, even u64::MAX, which    *)
(* is also the mark of an unbound variable.  A match keeps the rows it     *)
(* used in place of their columns.                                         *)
(***************************************************************************)
EXTENDS Integers, Sequences, FiniteSets

CONSTANTS
    NodeCount,       \* csr.node_count(); the nodes are 0..NodeCount-1
    Unbound,         \* u64::MAX
    Graphs,          \* the row sequences, in the index's order
    At,              \* valid_at
    Patterns, Starts, Limits

CsrNodes == 0..(NodeCount - 1)

\* A pattern's edges are declared forward, as PatternEdge asks: each starts in
\* variable 0 or in one that an edge before it ends in.
ASSUME PatternAssumption ==
    /\ NodeCount \in Nat \ {0} /\ Unbound \in Nat \ CsrNodes
    /\ At \in Int /\ Starts \subseteq Nat /\ Limits \subseteq Nat
    /\ \A g \in Graphs :
          /\ g \in Seq([src : CsrNodes, dst : Nat, type : STRING, from : Int, to : Int])
          /\ \A i, j \in DOMAIN g : i < j => g[i].src <= g[j].src
    /\ \A p \in Patterns :
          /\ p.num_vars \in Nat \ {0} /\ p.edges \in Seq([from : Nat, to : Nat, type : STRING])
          /\ \A e \in DOMAIN p.edges :
                /\ p.edges[e].from < p.num_vars /\ p.edges[e].to < p.num_vars
                /\ p.edges[e].from = 0 \/ \E f \in 1..(e - 1) : p.edges[f].to = p.edges[e].from

VARIABLES
    rows, pattern, limit,
    start,           \* the node variable 0 is bound to
    single,          \* find_from, rather than find
    nodes,           \* nodes[v], the binding of variable v
    row,             \* row[e], the row chosen for pattern edge e
    pos, bound,      \* per pattern edge: the row its iterator is at, and to_bound
    ei, pc,
    matches

call       == <<rows, pattern, limit, single>>
searchVars == <<call, start, nodes, row, pos, bound, ei, pc, matches>>

-------------------------------------------------------------------------------
Edge(u, v) == [from |-> u, to |-> v, type |-> "any"]

\* Pattern::temporal_path: v0 -> v1 -> ... with increasing event times.
TemporalPath(len) ==
    [num_vars |-> len + 1,
     edges    |-> [i \in 1..len |-> Edge(i - 1, i)],
     orders   |-> {<<i, i + 1>> : i \in 1..(len - 1)}]

\* Pattern::diamond: two arms from variable 0 to variable 3.
Diamond ==
    [num_vars |-> 4,
     edges    |-> <<Edge(0, 1), Edge(0, 2), Edge(1, 3), Edge(2, 3)>>,
     orders   |-> {<<1, 3>>, <<2, 4>>}]

\* Pattern::ring: back to variable 0.
Ring(len) ==
    [num_vars |-> len,
     edges    |-> [i \in 1..len |-> Edge(i - 1, i % len)],
     orders   |-> {<<i, i + 1>> : i \in 1..(len - 1)}]

Vars      == 0..(pattern.num_vars - 1)
EdgeCount == Len(pattern.edges)
Pattern   == pattern.edges[ei]

SearchTypeOK ==
    /\ pattern \in Patterns /\ limit \in Limits /\ single \in BOOLEAN
    /\ start \in Nat
    /\ nodes \in [Vars -> Nat]
    /\ row \in [1..EdgeCount -> 0..Len(rows)] /\ pos \in [1..EdgeCount -> 0..Len(rows)]
    /\ bound \in [1..EdgeCount -> BOOLEAN]
    /\ ei \in 1..(EdgeCount + 1)
    /\ pc \in {"start", "enter", "loop", "done", "failed"}
    /\ Len(matches) <= limit

\* TemporalCSR::neighbors: the active rows of a source.
Live(r) == rows[r].from <= At /\ At < rows[r].to
Neighbors(n) == {r \in DOMAIN rows : rows[r].src = n /\ Live(r)}

EventOrdersSatisfied(chosen) ==
    \A o \in pattern.orders : rows[chosen[o[1]]].from < rows[chosen[o[2]]].from

\* DfsState::new, with variable 0 at s.
Fresh(s) == [v \in Vars |-> IF v = 0 THEN s ELSE Unbound]

SearchInit ==
    /\ rows \in Graphs /\ pattern \in Patterns /\ limit \in Limits
    /\ single \in BOOLEAN
    /\ start \in (IF single THEN Starts ELSE {0})
    /\ nodes = Fresh(start)
    /\ row = [e \in 1..EdgeCount |-> 0] /\ pos = [e \in 1..EdgeCount |-> 0]
    /\ bound = [e \in 1..EdgeCount |-> FALSE]
    /\ ei = 1 /\ pc = "start" /\ matches = <<>>

-------------------------------------------------------------------------------
\* find_from begins unless the limit is used up; so does find for each node.
BeginStart ==
    /\ pc = "start" /\ Len(matches) < limit
    /\ single \/ start < NodeCount
    /\ nodes' = Fresh(start) /\ ei' = 1
    /\ pc' = "enter"
    /\ UNCHANGED <<call, start, row, pos, bound, matches>>

AllTried ==
    /\ pc = "start" /\ (Len(matches) >= limit \/ (~single /\ start >= NodeCount))
    /\ pc' = "done"
    /\ UNCHANGED <<call, start, nodes, row, pos, bound, ei, matches>>

\* Fault: the variable stays bound.
LeaveFault ==
    /\ ei' = IF ei = 1 THEN 1 ELSE ei - 1
    /\ nodes' = nodes
    /\ pc' = IF ei > 1 THEN "loop" ELSE IF single THEN "done" ELSE "start"
    /\ start' = IF ei = 1 /\ ~single THEN start + 1 ELSE start
    /\ UNCHANGED <<call, row, pos, bound>>

\* dfs returns: to the loop that called it, which unbinds the variable it had
\* bound for the call, or to find.
Leave ==
    /\ ei' = IF ei = 1 THEN 1 ELSE ei - 1
    /\ nodes' = IF ei = 1 \/ bound[ei - 1] THEN nodes
                ELSE [nodes EXCEPT ![pattern.edges[ei - 1].to] = Unbound]
    /\ pc' = IF ei > 1 THEN "loop" ELSE IF single THEN "done" ELSE "start"
    /\ start' = IF ei = 1 /\ ~single THEN start + 1 ELSE start
    /\ UNCHANGED <<call, row, pos, bound>>

\* Fault: an id that is no node has no neighbours.
EnterReturnsFault ==
    /\ pc = "enter"
    /\ IF ei > EdgeCount THEN Len(matches) >= limit
       ELSE Len(matches) >= limit \/ nodes[Pattern.from] \notin CsrNodes
    /\ Leave /\ UNCHANGED matches

\* The early returns: the limit is reached, or the edge's source is unbound.
EnterReturns ==
    /\ pc = "enter"
    /\ IF ei > EdgeCount THEN Len(matches) >= limit
       ELSE Len(matches) >= limit \/ nodes[Pattern.from] = Unbound
    /\ Leave /\ UNCHANGED matches

\* All edges are matched: record the match if the events are in order.
EnterComplete ==
    /\ pc = "enter" /\ ei > EdgeCount /\ Len(matches) < limit
    /\ matches' = IF EventOrdersSatisfied(row)
                  THEN Append(matches, [nodes |-> nodes, rows |-> row]) ELSE matches
    /\ Leave

AtEdge ==
    pc = "enter" /\ ei <= EdgeCount /\ Len(matches) < limit /\ nodes[Pattern.from] # Unbound

\* neighbors refuses an id that is no node, and the error ends the whole call.
EnterFails ==
    /\ AtEdge /\ nodes[Pattern.from] \notin CsrNodes
    /\ pc' = "failed"
    /\ UNCHANGED <<call, start, nodes, row, pos, bound, ei, matches>>

EnterLoop ==
    /\ AtEdge /\ nodes[Pattern.from] \in CsrNodes
    /\ bound' = [bound EXCEPT ![ei] = nodes[Pattern.to] # Unbound]
    /\ pos' = [pos EXCEPT ![ei] = 0]
    /\ pc' = "loop"
    /\ UNCHANGED <<call, start, nodes, row, ei, matches>>

\* The neighbours the iterator of edge ei has still to yield, and the next one.
Ahead   == {r \in Neighbors(nodes[Pattern.from]) : pos[ei] < r}
LoopHas == Ahead # {}
LoopRow == CHOOSE r \in Ahead : \A q \in Ahead : r <= q

\* Fault: a fresh variable may be bound to the start again.
FitsFault(r) ==
    /\ Pattern.type \in {"any", rows[r].type}
    /\ IF bound[ei] THEN rows[r].dst = nodes[Pattern.to]
       ELSE \A v \in Vars \ {0} : nodes[v] # rows[r].dst

\* The edge has the type asked for, and ends in the bound node or, to bind a
\* fresh variable, in a node no variable is bound to.
Fits(r) ==
    /\ Pattern.type \in {"any", rows[r].type}
    /\ IF bound[ei] THEN rows[r].dst = nodes[Pattern.to]
       ELSE \A v \in Vars : nodes[v] # rows[r].dst

Skip ==
    /\ pc = "loop" /\ LoopHas /\ ~Fits(LoopRow)
    /\ pos' = [pos EXCEPT ![ei] = LoopRow]
    /\ UNCHANGED <<call, start, nodes, row, bound, ei, pc, matches>>

Take ==
    /\ pc = "loop" /\ LoopHas /\ Fits(LoopRow)
    /\ nodes' = [nodes EXCEPT ![Pattern.to] = rows[LoopRow].dst]
    /\ row' = [row EXCEPT ![ei] = LoopRow]
    /\ pos' = [pos EXCEPT ![ei] = LoopRow]
    /\ ei' = ei + 1 /\ pc' = "enter"
    /\ UNCHANGED <<call, start, bound, matches>>

LoopEnds ==
    /\ pc = "loop" /\ ~LoopHas
    /\ Leave /\ UNCHANGED matches

Ended == pc \in {"done", "failed"} /\ UNCHANGED searchVars

Step == BeginStart \/ AllTried \/ EnterReturns \/ EnterComplete \/ EnterFails \/ EnterLoop
          \/ Skip \/ Take \/ LoopEnds

SearchNext == Step \/ Ended

SearchSpec == SearchInit /\ [][SearchNext]_searchVars

-------------------------------------------------------------------------------
(* What a match is, without a search: a choice of a row for each of the       *)
(* first n pattern edges.                                                    *)

Binding(s, c) ==
    [v \in Vars |->
        IF v = 0 THEN s
        ELSE LET into == {e \in DOMAIN c : pattern.edges[e].to = v}
             IN  IF into = {} THEN Unbound ELSE rows[c[CHOOSE e \in into : TRUE]].dst]

Embeddings(s, n) ==
    {c \in [1..n -> DOMAIN rows] :
        LET b == Binding(s, c)
        IN  /\ \A e \in 1..n :
                  /\ Live(c[e])
                  /\ pattern.edges[e].type \in {"any", rows[c[e]].type}
                  /\ rows[c[e]].src = b[pattern.edges[e].from]
                  /\ rows[c[e]].dst = b[pattern.edges[e].to]
                  /\ rows[c[e]].dst # Unbound
            /\ \A u, v \in Vars : b[u] = b[v] /\ b[u] # Unbound => u = v}

Tried == IF single THEN {start} ELSE CsrNodes

Found ==
    UNION {{[nodes |-> Binding(s, c), rows |-> c] :
               c \in {d \in Embeddings(s, EdgeCount) :
                         \A o \in pattern.orders : rows[d[o[1]]].from < rows[d[o[2]]].from}} :
           s \in Tried}

\* The backtracking loses nothing and repeats nothing: every returned match is
\* one by the definition, none is returned twice, and fewer than limit are
\* returned only if there are no more.
FoundExact ==
    pc = "done" =>
        /\ \A i \in DOMAIN matches : matches[i] \in Found
        /\ \A i, j \in DOMAIN matches : matches[i] = matches[j] => i = j
        /\ Len(matches) = (IF Cardinality(Found) < limit THEN Cardinality(Found) ELSE limit)

\* Some matching of the first edges reaches, as the source of the next one, an
\* id that is no node.
LeadsOutside(s) ==
    \E n \in 0..(EdgeCount - 1) : \E c \in Embeddings(s, n) :
        Binding(s, c)[pattern.edges[n + 1].from] \notin CsrNodes \cup {Unbound}

\* The call fails only if a matching leads outside the graph, and a call that
\* was not cut short by its limit fails whenever one does.
FailsIffOutside ==
    /\ pc = "failed" => \E s \in Tried : LeadsOutside(s)
    /\ pc = "done" /\ Len(matches) < limit => \A s \in Tried : ~LeadsOutside(s)

\* The variables have their types, and the shared search state follows the
\* recursion: in the call for edge ei exactly the variables of the edges before
\* it are bound, and each of those edges' rows joins its variables' nodes.
StateFollowsRecursion ==
    /\ SearchTypeOK
    /\ pc \in {"enter", "loop"} =>
          /\ \A v \in Vars \ {0} :
                nodes[v] # Unbound <=> \E e \in 1..(ei - 1) : pattern.edges[e].to = v
          /\ \A e \in 1..(ei - 1) :
                /\ row[e] \in DOMAIN rows
                /\ rows[row[e]].src = nodes[pattern.edges[e].from]
                /\ rows[row[e]].dst = nodes[pattern.edges[e].to]
================================================================================
