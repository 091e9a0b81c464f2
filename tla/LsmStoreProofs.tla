---------------------------- MODULE LsmStoreProofs ----------------------------
(***************************************************************************)
(* Proofs about LsmStore, for any sets of clients and edges, any graph and *)
(* any initial snapshot: its safety invariants, and that it implements     *)
(* EdgeSet.                                                                *)
(***************************************************************************)
EXTENDS LsmStore, TLAPS

\* How a thread's locals follow its control: a method runs only inside, the
\* argument of a write is an edge, and apply's result exists only after apply.
CallShape ==
    \A t \in Threads :
        /\ pc[t] \in Outside => op[t] = "none"
        /\ pc[t] \in Inside => op[t] \in DeltaOps \cup BothOps
        /\ pc[t] \in {"lock_snapshot", "unlock_snapshot"} => op[t] \in BothOps
        /\ pc[t] \in {"install", "clear"} => op[t] = "compact"
        /\ op[t] \in {"insert", "delete"} => arg[t] \in Edges
        /\ pc[t] \in Outside \cup {"lock_snapshot", "lock_delta", "locked"} => table[t] = {}

\* Who may be where: the borrow rules keep clients out while the owner runs,
\* and only the background thread runs the loop, while the owner has its handle.
Roles ==
    /\ ownerPc # "idle" => \A c \in Clients : pc[c] = "idle"
    /\ \A c \in Clients : pc[c] \in Inside \cup {"idle"}
    /\ pc[Background] # "idle"
    /\ ~handle => pc[Background] = "off"
    /\ op[Background] \in {"none", "compact"}

ControlInv == TypeOK /\ CallShape /\ Roles /\ LockDiscipline

DataInv == FreshMerge /\ HonestOutcome /\ StoppedIsQuiet

-------------------------------------------------------------------------------
(* Control: types, call structure, roles and locks.                          *)

\* A fresh LsmStore has both mutexes free and no call in flight.
LEMMA ControlInit == Init => ControlInv
  <1> SUFFICES ASSUME Init
               PROVE  ControlInv
    OBVIOUS
  <1> USE ThreadsAssumption, EdgesAssumption
      DEF Init, Threads, Outside, Inside, DeltaOps, BothOps
  <1>1. TypeOK
    BY DEF TypeOK
  <1>2. CallShape
    BY DEF CallShape
  <1>3. Roles
    BY DEF Roles
  <1>4. LockDiscipline
    BY DEF LockDiscipline, HoldsSnapshot, HoldsDelta
  <1>5. QED
    BY <1>1, <1>2, <1>3, <1>4 DEF ControlInv

\* Every step of a client, of the background thread and of the owner keeps the
\* locks with the threads whose code is between lock() and the guard's drop.
LEMMA ControlStep == ControlInv /\ [Next]_vars => ControlInv'
  <1> SUFFICES ASSUME ControlInv, [Next]_vars
               PROVE  ControlInv'
    OBVIOUS
  <1> USE ThreadsAssumption, EdgesAssumption
      DEF ControlInv, TypeOK, CallShape, Roles, LockDiscipline, HoldsSnapshot, HoldsDelta,
          Threads, Outside, Inside, DeltaOps, BothOps, data, locks, locals, lifetime,
          MergedEdges, Apply
  <1>1. ASSUME NEW c \in Clients, Call(c) PROVE ControlInv'
    BY <1>1 DEF Call, Enter
  <1>2. ASSUME NEW t \in Threads, LockSnapshot(t) PROVE ControlInv'
    BY <1>2 DEF LockSnapshot
  <1>3. ASSUME NEW t \in Threads, LockDelta(t) PROVE ControlInv'
    BY <1>3 DEF LockDelta
  <1>4. ASSUME NEW t \in Threads, UnlockDelta(t) PROVE ControlInv'
    BY <1>4 DEF UnlockDelta, Return
  <1>5. ASSUME NEW t \in Threads, UnlockSnapshot(t) PROVE ControlInv'
    BY <1>5 DEF UnlockSnapshot, Return
  <1>6. ASSUME NEW c \in Clients, Insert(c) PROVE ControlInv'
    BY <1>6 DEF Insert
  <1>7. ASSUME NEW c \in Clients, Delete(c) PROVE ControlInv'
    BY <1>7 DEF Delete
  <1>8. ASSUME NEW c \in Clients, Pending(c) PROVE ControlInv'
    BY <1>8 DEF Pending
  <1>9. ASSUME NEW c \in Clients, ReadMerged(c) PROVE ControlInv'
    BY <1>9 DEF ReadMerged
  <1>10. ASSUME NEW t \in Threads, CompactNothing(t) PROVE ControlInv'
    BY <1>10 DEF CompactNothing
  <1>11. ASSUME NEW t \in Threads, CompactApply(t) PROVE ControlInv'
    BY <1>11 DEF CompactApply
  <1>12. ASSUME NEW t \in Threads, CompactInstall(t) PROVE ControlInv'
    BY <1>12 DEF CompactInstall
  <1>13. ASSUME NEW t \in Threads, CompactFail(t) PROVE ControlInv'
    BY <1>13 DEF CompactFail
  <1>14. ASSUME NEW t \in Threads, CompactClear(t) PROVE ControlInv'
    BY <1>14 DEF CompactClear
  <1>15. CASE BgCheck
    BY <1>15 DEF BgCheck
  <1>16. CASE BgSleep
    BY <1>16 DEF BgSleep
  <1>17. CASE BgRecheck
    BY <1>17 DEF BgRecheck
  <1>18. CASE SpawnBackground
    BY <1>18 DEF SpawnBackground, OwnerReady
  <1>19. ASSUME NEW next \in {"join", "drop_join"}, SignalStop(next) PROVE ControlInv'
    BY <1>19 DEF SignalStop, OwnerReady
  <1>20. CASE Join
    BY <1>20 DEF Join
  <1>21. CASE UNCHANGED vars
    BY <1>21 DEF vars
  <1>22. QED
    BY <1>1, <1>2, <1>3, <1>4, <1>5, <1>6, <1>7, <1>8, <1>9, <1>10, <1>11, <1>12, <1>13, <1>14, <1>15, <1>16, <1>17, <1>18, <1>19, <1>20, <1>21
    DEF Next, ClientStep, BackgroundStep, OwnerStart, Dropped, LockStep, Body, Compact

\* The variables keep their types, whatever the interleaving.
THEOREM TypeCorrect == Spec => []TypeOK
  <1>1. Spec => []ControlInv
    BY ControlInit, ControlStep, PTL DEF Spec
  <1>2. ControlInv => TypeOK
    BY DEF ControlInv
  <1>3. QED
    BY <1>1, <1>2, PTL

\* Each mutex protects its data: the critical sections of insert, delete,
\* pending, merged_edges, compact_now and the background thread never overlap.
THEOREM LocksProtect == Spec => []LockDiscipline
  <1>1. Spec => []ControlInv
    BY ControlInit, ControlStep, PTL DEF Spec
  <1>2. ControlInv => LockDiscipline
    BY DEF ControlInv
  <1>3. QED
    BY <1>1, <1>2, PTL

-------------------------------------------------------------------------------
(* Data: what a compaction computes, installs and reports.                   *)

\* A fresh store has an indexed snapshot, an empty delta and no thread.
LEMMA DataInit == Init => DataInv
  BY ThreadsAssumption, EdgesAssumption
     DEF Init, DataInv, FreshMerge, HonestOutcome, StoppedIsQuiet,
         Indexable, Threads

\* While a thread holds both mutexes nobody else changes the data under it.
LEMMA DataStep == ControlInv /\ DataInv /\ [Next]_vars => DataInv'
  <1> SUFFICES ASSUME ControlInv, DataInv, [Next]_vars
               PROVE  DataInv'
    OBVIOUS
  <1> USE ThreadsAssumption, EdgesAssumption
      DEF ControlInv, TypeOK, CallShape, Roles, LockDiscipline, HoldsSnapshot, HoldsDelta,
          Threads, Outside, Inside, DeltaOps, BothOps, data, locks, locals, lifetime,
          DataInv, FreshMerge, HonestOutcome, StoppedIsQuiet,
          MergedEdges, Apply, Indexable, DeltaEmpty
  <1>1. ASSUME NEW c \in Clients, Call(c) PROVE DataInv'
    BY <1>1 DEF Call, Enter
  <1>2. ASSUME NEW t \in Threads, LockSnapshot(t) PROVE DataInv'
    BY <1>2 DEF LockSnapshot
  <1>3. ASSUME NEW t \in Threads, LockDelta(t) PROVE DataInv'
    BY <1>3 DEF LockDelta
  <1>4. ASSUME NEW t \in Threads, UnlockDelta(t) PROVE DataInv'
    BY <1>4 DEF UnlockDelta, Return
  <1>5. ASSUME NEW t \in Threads, UnlockSnapshot(t) PROVE DataInv'
    BY <1>5 DEF UnlockSnapshot, Return
  <1>6. ASSUME NEW c \in Clients, Insert(c) PROVE DataInv'
    BY <1>6 DEF Insert
  <1>7. ASSUME NEW c \in Clients, Delete(c) PROVE DataInv'
    BY <1>7 DEF Delete
  <1>8. ASSUME NEW c \in Clients, Pending(c) PROVE DataInv'
    BY <1>8 DEF Pending
  <1>9. ASSUME NEW c \in Clients, ReadMerged(c) PROVE DataInv'
    BY <1>9 DEF ReadMerged
  <1>10. ASSUME NEW t \in Threads, CompactNothing(t) PROVE DataInv'
    BY <1>10 DEF CompactNothing
  <1>11. ASSUME NEW t \in Threads, CompactApply(t) PROVE DataInv'
    BY <1>11 DEF CompactApply
  <1>12. ASSUME NEW t \in Threads, CompactInstall(t) PROVE DataInv'
    BY <1>12 DEF CompactInstall
  <1>13. ASSUME NEW t \in Threads, CompactFail(t) PROVE DataInv'
    BY <1>13 DEF CompactFail
  <1>14. ASSUME NEW t \in Threads, CompactClear(t) PROVE DataInv'
    BY <1>14 DEF CompactClear
  <1>15. CASE BgCheck
    BY <1>15 DEF BgCheck
  <1>16. CASE BgSleep
    BY <1>16 DEF BgSleep
  <1>17. CASE BgRecheck
    BY <1>17 DEF BgRecheck
  <1>18. CASE SpawnBackground
    BY <1>18 DEF SpawnBackground, OwnerReady
  <1>19. ASSUME NEW next \in {"join", "drop_join"}, SignalStop(next) PROVE DataInv'
    BY <1>19 DEF SignalStop, OwnerReady
  <1>20. CASE Join
    BY <1>20 DEF Join
  <1>21. CASE UNCHANGED vars
    BY <1>21 DEF vars
  <1>22. QED
    BY <1>1, <1>2, <1>3, <1>4, <1>5, <1>6, <1>7, <1>8, <1>9, <1>10, <1>11, <1>12, <1>13, <1>14, <1>15, <1>16, <1>17, <1>18, <1>19, <1>20, <1>21
    DEF Next, ClientStep, BackgroundStep, OwnerStart, Dropped, LockStep, Body, Compact

\* The inductive invariant holds of every reachable state.
LEMMA Invariance == Spec => [](ControlInv /\ DataInv)
  <1>1. Init => ControlInv /\ DataInv
    BY ControlInit, DataInit
  <1>2. ControlInv /\ DataInv /\ [Next]_vars => (ControlInv /\ DataInv)'
    BY ControlStep, DataStep
  <1>3. QED
    BY <1>1, <1>2, PTL DEF Spec

\* A compaction never installs a merge that misses a concurrent write, and never
\* clears a write it did not install.
THEOREM NoStaleMerge == Spec => []FreshMerge
  <1>1. ControlInv /\ DataInv => FreshMerge
    BY DEF DataInv
  <1>2. QED
    BY <1>1, Invariance, PTL

\* Ok means drained; Err means the offending edge is still there to be seen.
THEOREM OutcomesHonest == Spec => []HonestOutcome
  <1>1. ControlInv /\ DataInv => HonestOutcome
    BY DEF DataInv
  <1>2. QED
    BY <1>1, Invariance, PTL

\* No compaction runs after stop_background or drop has returned.
THEOREM StopIsFinal == Spec => []StoppedIsQuiet
  <1>1. ControlInv /\ DataInv => StoppedIsQuiet
    BY DEF DataInv
  <1>2. QED
    BY <1>1, Invariance, PTL

-------------------------------------------------------------------------------
(* Refinement.  A compaction is invisible because installing the merge        *)
(* (FreshMerge) and then clearing the delta both leave MergedEdges as it was; *)
(* every other method changes it, or reads it, in one step under the locks.   *)

Visible == <<MergedEdges, Calls>>

\* The calls EdgeSet sees.
SeenOps == {"insert", "delete", "merged_edges"}

\* The store opens on the edges of its snapshot, with no call in progress.
LEMMA RefinementInit == Init => Abstract!Init
  BY DEF Init, Abstract!Init, Abstract!Idle, MergedEdges, Apply, Calls, VisibleCall

\* Entering a method is an invocation, or invisible.
LEMMA EnterRefines ==
    ASSUME ControlInv, NEW c \in Clients, Call(c)
    PROVE  Abstract!Next \/ UNCHANGED Visible
  <1> USE DEF Threads, Calls, VisibleCall, Visible
  <1>1. ASSUME NEW o \in DeltaOps \cup BothOps, NEW e \in Edges \cup {NoEdge}, Enter(c, o, e)
        PROVE  /\ UNCHANGED MergedEdges
               /\ o \in SeenOps =>
                     Calls' = [Calls EXCEPT ![c] =
                                 [op |-> o, edge |-> e, done |-> FALSE, result |-> {}]]
               /\ o \notin SeenOps => UNCHANGED Calls
    <2>1. UNCHANGED MergedEdges
      BY <1>1 DEF Enter, MergedEdges, data
    <2>2. \A u \in Threads \ {c} : VisibleCall(u)' = VisibleCall(u)
      BY <1>1 DEF Enter, ControlInv, TypeOK
    <2>3. VisibleCall(c)' = IF o \in SeenOps
                            THEN [op |-> o, edge |-> e, done |-> FALSE, result |-> {}]
                            ELSE [op |-> "none", edge |-> NoEdge, done |-> FALSE, result |-> {}]
      <3>1. op'[c] = o /\ arg'[c] = e /\ table'[c] = {}
        BY <1>1 DEF Enter, ControlInv, TypeOK, CallShape, Outside
      <3>2. pc'[c] \in {"lock_snapshot", "lock_delta"}
        BY <1>1 DEF Enter, ControlInv, TypeOK
      <3>3. (pc'[c] \in {"unlock_delta", "unlock_snapshot"}) = FALSE
        BY <3>2
      <3>4. QED
        BY <3>1, <3>3 DEF SeenOps
    <2>4. VisibleCall(c) = [op |-> "none", edge |-> NoEdge, done |-> FALSE, result |-> {}]
      BY <1>1 DEF Enter, ControlInv, CallShape, Outside
    <2> HIDE DEF VisibleCall
    <2>5. QED
      BY <2>1, <2>2, <2>3, <2>4
  <1>2. pc[c] = "idle"
    BY DEF Call, Enter
  <1>3. Calls[c] = Abstract!Idle
    BY <1>2 DEF ControlInv, CallShape, Outside, Abstract!Idle
  <1>4. CASE \E o \in {"insert", "delete"}, e \in Edges : Enter(c, o, e)
    BY <1>1, <1>3, <1>4 DEF Abstract!Next, Abstract!Invoke, SeenOps, DeltaOps
  <1>5. CASE Enter(c, "merged_edges", NoEdge)
    BY <1>1, <1>3, <1>5 DEF Abstract!Next, Abstract!Invoke, SeenOps, BothOps
  <1>6. CASE \E o \in {"pending", "compact"} : Enter(c, o, NoEdge)
    BY <1>1, <1>6 DEF SeenOps, BothOps, DeltaOps
  <1>7. QED
    BY <1>4, <1>5, <1>6 DEF Call

\* Leaving a method is a return of a call that had its effect, or invisible.
LEMMA ReturnRefines ==
    ASSUME ControlInv, NEW t \in Threads, Return(t), UNCHANGED data,
           pc[t] \in {"unlock_delta", "unlock_snapshot"}
    PROVE  Abstract!Next \/ UNCHANGED Visible
  <1>1. UNCHANGED MergedEdges
    BY DEF MergedEdges, data
  <1>2. Calls' = [Calls EXCEPT ![t] = Abstract!Idle]
    BY DEF Return, Calls, VisibleCall, Abstract!Idle, ControlInv, TypeOK
  <1>3. CASE op[t] \in SeenOps
    <2>1. Calls[t].done
      BY <1>3 DEF Calls, VisibleCall, SeenOps
    <2>2. QED
      BY <1>1, <1>2, <2>1 DEF Abstract!Next, Abstract!Return
  <1>4. CASE op[t] \notin SeenOps
    BY <1>1, <1>2, <1>4 DEF Visible, Calls, VisibleCall, SeenOps, Abstract!Idle
  <1>5. QED
    BY <1>3, <1>4

\* The body of a visible call is its effect.
LEMMA BodyRefines ==
    ASSUME ControlInv, NEW c \in Clients, Insert(c) \/ Delete(c) \/ ReadMerged(c)
    PROVE  Abstract!Next
  <1> USE DEF Threads, ControlInv, TypeOK, CallShape, Calls, VisibleCall, MergedEdges, Apply
  <1>1. pc[c] = "locked" /\ table[c] = {} /\ op[c] \in SeenOps
    BY DEF Insert, Delete, ReadMerged, SeenOps
  <1>2. /\ Calls[c].op = op[c] /\ ~Calls[c].done /\ Calls[c].edge = arg[c]
        /\ Calls \in [Threads -> {VisibleCall(t) : t \in Threads}]
    BY <1>1 DEF SeenOps
  <1>3. CASE Insert(c)
    <2>1. MergedEdges' = MergedEdges \cup {arg[c]}
      BY <1>3 DEF Insert
    <2>2. Calls' = [Calls EXCEPT ![c].done = TRUE, ![c].result = {}]
      BY <1>1, <1>3 DEF Insert, locals
    <2>3. QED
      BY <1>2, <1>3, <2>1, <2>2 DEF Abstract!Next, Abstract!Insert, Abstract!Effect, Insert
  <1>4. CASE Delete(c)
    <2>1. MergedEdges' = MergedEdges \ {arg[c]}
      BY <1>4 DEF Delete
    <2>2. Calls' = [Calls EXCEPT ![c].done = TRUE, ![c].result = {}]
      BY <1>1, <1>4 DEF Delete, locals
    <2>3. QED
      BY <1>2, <1>4, <2>1, <2>2 DEF Abstract!Next, Abstract!Delete, Abstract!Effect, Delete
  <1>5. CASE ReadMerged(c)
    <2>1. UNCHANGED MergedEdges
      BY <1>5 DEF ReadMerged, data
    <2>2. Calls' = [Calls EXCEPT ![c].done = TRUE, ![c].result = MergedEdges]
      BY <1>1, <1>5 DEF ReadMerged
    <2>3. QED
      BY <1>2, <1>5, <2>1, <2>2 DEF Abstract!Next, Abstract!Read, Abstract!Effect, ReadMerged
  <1>6. QED
    BY <1>3, <1>4, <1>5

\* A step that keeps the edge set and takes no visible call past its effect is
\* invisible.
LEMMA Invisible ==
    ASSUME ControlInv, UNCHANGED MergedEdges,
           \A t \in Threads : VisibleCall(t)' = VisibleCall(t)
    PROVE  UNCHANGED Visible
  BY DEF Visible, Calls

\* Every step of the store is a step of the edge set, or invisible.
LEMMA RefinementStep ==
    ControlInv /\ DataInv /\ [Next]_vars => [Abstract!Next]_(Abstract!vars)
  <1> SUFFICES ASSUME ControlInv, DataInv, [Next]_vars
               PROVE  Abstract!Next \/ UNCHANGED Visible
    BY DEF Abstract!vars, Visible
  <1>1. ASSUME NEW c \in Clients, Call(c) PROVE Abstract!Next \/ UNCHANGED Visible
    BY <1>1, EnterRefines
  <1>2. ASSUME NEW t \in Threads, UnlockDelta(t) \/ UnlockSnapshot(t)
        PROVE  Abstract!Next \/ UNCHANGED Visible
    <2>1. CASE Return(t)
      BY <1>2, <2>1, ReturnRefines DEF UnlockDelta, UnlockSnapshot
    <2>2. CASE ~Return(t)
      <3>1. UNCHANGED MergedEdges
        BY <1>2 DEF UnlockDelta, UnlockSnapshot, MergedEdges, data
      <3>2. \A u \in Threads : VisibleCall(u)' = VisibleCall(u)
        BY <1>2, <2>2 DEF UnlockDelta, UnlockSnapshot, VisibleCall, locals, ControlInv, TypeOK
      <3>3. QED
        BY <3>1, <3>2, Invisible
    <2>3. QED
      BY <2>1, <2>2
  <1>3. ASSUME NEW c \in Clients, Insert(c) \/ Delete(c) \/ ReadMerged(c)
        PROVE  Abstract!Next
    BY <1>3, BodyRefines
  <1> USE DEF ControlInv, TypeOK, CallShape, Roles, Threads, VisibleCall, MergedEdges, Apply,
              data, locks, locals, lifetime
  <1>4. ASSUME NEW t \in Threads, LockSnapshot(t) PROVE UNCHANGED Visible
    <2>1. UNCHANGED MergedEdges
      BY <1>4 DEF LockSnapshot
    <2>2. \A u \in Threads : VisibleCall(u)' = VisibleCall(u)
      BY <1>4 DEF LockSnapshot
    <2>3. QED
      BY <2>1, <2>2, Invisible
  <1>5. ASSUME NEW t \in Threads, LockDelta(t) PROVE UNCHANGED Visible
    <2>1. UNCHANGED MergedEdges
      BY <1>5 DEF LockDelta
    <2>2. \A u \in Threads : VisibleCall(u)' = VisibleCall(u)
      BY <1>5 DEF LockDelta
    <2>3. QED
      BY <2>1, <2>2, Invisible
  <1>6. ASSUME NEW t \in Threads, CompactNothing(t) PROVE UNCHANGED Visible
    <2>1. UNCHANGED MergedEdges
      BY <1>6 DEF CompactNothing
    <2>2. \A u \in Threads : VisibleCall(u)' = VisibleCall(u)
      BY <1>6 DEF CompactNothing
    <2>3. QED
      BY <2>1, <2>2, Invisible
  <1>7. ASSUME NEW t \in Threads, CompactApply(t) PROVE UNCHANGED Visible
    <2>1. UNCHANGED MergedEdges
      BY <1>7 DEF CompactApply
    <2>2. \A u \in Threads : VisibleCall(u)' = VisibleCall(u)
      BY <1>7 DEF CompactApply
    <2>3. QED
      BY <2>1, <2>2, Invisible
  <1>8. ASSUME NEW t \in Threads, CompactInstall(t) PROVE UNCHANGED Visible
    <2>1. UNCHANGED MergedEdges
      BY <1>8 DEF CompactInstall, DataInv, FreshMerge
    <2>2. \A u \in Threads : VisibleCall(u)' = VisibleCall(u)
      BY <1>8 DEF CompactInstall, DataInv, FreshMerge
    <2>3. QED
      BY <2>1, <2>2, Invisible
  <1>9. ASSUME NEW t \in Threads, CompactFail(t) PROVE UNCHANGED Visible
    <2>1. UNCHANGED MergedEdges
      BY <1>9 DEF CompactFail
    <2>2. \A u \in Threads : VisibleCall(u)' = VisibleCall(u)
      BY <1>9 DEF CompactFail
    <2>3. QED
      BY <2>1, <2>2, Invisible
  <1>10. ASSUME NEW t \in Threads, CompactClear(t) PROVE UNCHANGED Visible
    <2>1. UNCHANGED MergedEdges
      BY <1>10 DEF CompactClear, DataInv, FreshMerge
    <2>2. \A u \in Threads : VisibleCall(u)' = VisibleCall(u)
      BY <1>10 DEF CompactClear, DataInv, FreshMerge
    <2>3. QED
      BY <2>1, <2>2, Invisible
  <1>11. ASSUME NEW c \in Clients, Pending(c) PROVE UNCHANGED Visible
    <2>1. UNCHANGED MergedEdges
      BY <1>11 DEF Pending
    <2>2. \A u \in Threads : VisibleCall(u)' = VisibleCall(u)
      BY <1>11 DEF Pending
    <2>3. QED
      BY <2>1, <2>2, Invisible
  <1>12. ASSUME BgCheck PROVE UNCHANGED Visible
    <2>1. UNCHANGED MergedEdges
      BY <1>12 DEF BgCheck, Outside
    <2>2. \A u \in Threads : VisibleCall(u)' = VisibleCall(u)
      BY <1>12 DEF BgCheck, Outside
    <2>3. QED
      BY <2>1, <2>2, Invisible
  <1>13. ASSUME BgSleep PROVE UNCHANGED Visible
    <2>1. UNCHANGED MergedEdges
      BY <1>13 DEF BgSleep, Outside
    <2>2. \A u \in Threads : VisibleCall(u)' = VisibleCall(u)
      BY <1>13 DEF BgSleep, Outside
    <2>3. QED
      BY <2>1, <2>2, Invisible
  <1>14. ASSUME BgRecheck PROVE UNCHANGED Visible
    <2>1. UNCHANGED MergedEdges
      BY <1>14 DEF BgRecheck, Outside
    <2>2. \A u \in Threads : VisibleCall(u)' = VisibleCall(u)
      BY <1>14 DEF BgRecheck, Outside
    <2>3. QED
      BY <2>1, <2>2, Invisible
  <1>15. ASSUME SpawnBackground PROVE UNCHANGED Visible
    <2>1. UNCHANGED MergedEdges
      BY <1>15 DEF SpawnBackground, Outside
    <2>2. \A u \in Threads : VisibleCall(u)' = VisibleCall(u)
      BY <1>15 DEF SpawnBackground, Outside
    <2>3. QED
      BY <2>1, <2>2, Invisible
  <1>16. ASSUME Join PROVE UNCHANGED Visible
    <2>1. UNCHANGED MergedEdges
      BY <1>16 DEF Join, Outside
    <2>2. \A u \in Threads : VisibleCall(u)' = VisibleCall(u)
      BY <1>16 DEF Join, Outside
    <2>3. QED
      BY <2>1, <2>2, Invisible
  <1>17. ASSUME NEW next \in {"join", "drop_join"}, SignalStop(next) PROVE UNCHANGED Visible
    <2>1. UNCHANGED MergedEdges
      BY <1>17 DEF SignalStop
    <2>2. \A u \in Threads : VisibleCall(u)' = VisibleCall(u)
      BY <1>17 DEF SignalStop
    <2>3. QED
      BY <2>1, <2>2, Invisible
  <1>18. ASSUME UNCHANGED vars PROVE UNCHANGED Visible
    <2>1. UNCHANGED MergedEdges
      BY <1>18 DEF vars
    <2>2. \A u \in Threads : VisibleCall(u)' = VisibleCall(u)
      BY <1>18 DEF vars
    <2>3. QED
      BY <2>1, <2>2, Invisible
  <1>19. QED
    BY <1>1, <1>2, <1>3, <1>4, <1>5, <1>6, <1>7, <1>8, <1>9, <1>10, <1>11, <1>12, <1>13, <1>14, <1>15, <1>16, <1>17, <1>18
    DEF Next, ClientStep, BackgroundStep, OwnerStart, Dropped, LockStep, Body, Compact

\* LsmStore implements EdgeSet: inserts, deletes and merged_edges are
\* linearizable, writes are neither lost, resurrected nor duplicated by
\* compactions, and no intermediate step of a compaction is visible.
THEOREM Refinement == Spec => ImplementsEdgeSet
  BY RefinementInit, RefinementStep, Invariance, PTL
     DEF Spec, ImplementsEdgeSet, Abstract!Spec
================================================================================
