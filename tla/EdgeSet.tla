------------------------------- MODULE EdgeSet -------------------------------
(***************************************************************************)
(* What gtv-delta's LsmStore promises its callers: one logical set of      *)
(* temporal edges.  An insert adds an edge, a delete removes exactly that  *)
(* edge (an exact-match tombstone), a read takes the whole set.  A call    *)
(* has its effect at one instant between its invocation and its return,    *)
(* and does not return without it.  Snapshots, deltas, locks and           *)
(* compaction do not exist at this level: LsmStore.tla is shown to         *)
(* implement this module.                                                  *)
(***************************************************************************)

CONSTANTS
    Clients,    \* threads that call the store
    Edges,      \* edges that may be written
    NoEdge,     \* argument of a read
    InitEdges   \* edges of the graph the store is opened on

VARIABLES
    edges,      \* the logical edge set
    call        \* call[c]: c's call in progress, and what it will return

vars == <<edges, call>>

Idle == [op |-> "none", edge |-> NoEdge, done |-> FALSE, result |-> {}]

Init == /\ edges = InitEdges
        /\ call = [c \in Clients |-> Idle]

Invoke(c, o, e) ==
    /\ call[c] = Idle
    /\ call' = [call EXCEPT ![c] = [op |-> o, edge |-> e, done |-> FALSE, result |-> {}]]
    /\ UNCHANGED edges

\* The instant at which c's call takes effect.
Effect(c, o, newEdges, result) ==
    /\ call[c].op = o /\ ~call[c].done
    /\ edges' = newEdges
    /\ call' = [call EXCEPT ![c].done = TRUE, ![c].result = result]

Insert(c) == Effect(c, "insert", edges \cup {call[c].edge}, {})
Delete(c) == Effect(c, "delete", edges \ {call[c].edge}, {})
Read(c)   == Effect(c, "merged_edges", edges, edges)

Return(c) ==
    /\ call[c].done
    /\ call' = [call EXCEPT ![c] = Idle]
    /\ UNCHANGED edges

Next == \E c \in Clients :
            \/ \E o \in {"insert", "delete"}, e \in Edges : Invoke(c, o, e)
            \/ Invoke(c, "merged_edges", NoEdge)
            \/ Insert(c) \/ Delete(c) \/ Read(c)
            \/ Return(c)

Spec == Init /\ [][Next]_vars
==============================================================================
