------------------------------- MODULE LsmStore -------------------------------
(***************************************************************************)
(* gtv-delta: LsmStore, an immutable snapshot (a TemporalGraph) and a      *)
(* mutable delta (a DeltaBuffer), each behind its own Mutex, with an       *)
(* optional background compaction thread.                                  *)
(*                                                                         *)
(* Every thread that shares the store is modelled one lock operation at a  *)
(* time.  Clients call the &self methods (insert, delete, pending,         *)
(* merged_edges, compact_now) concurrently; the owner calls the &mut self  *)
(* methods (spawn_background, stop_background, drop), which Rust's borrow  *)
(* rules run only while no client call is in flight, but which do run      *)
(* concurrently with the background thread.                                *)
(*                                                                         *)
(* Abstractions.  An edge is an opaque value with a source node: the       *)
(* other four columns only tell edges apart.  An edge table is the set of  *)
(* its rows, because DeltaBuffer::apply deduplicates every table it        *)
(* returns.  A mutex has no queue: any waiter may get it.  A call's        *)
(* locals, its result included, are forgotten when it returns.             *)
(***************************************************************************)
EXTENDS Naturals

CONSTANTS
    Clients,      \* threads calling the &self methods
    Background,   \* the compaction thread
    NoThread,     \* "owner" of a free mutex
    Edges,        \* DeltaEdge values that may be written
    NoEdge,       \* argument of a method that takes none
    SrcOf,        \* SrcOf[e]: source node of e
    NodeCount,    \* nodes of the graph, numbered from 0
    InitEdges     \* edges of the snapshot given to LsmStore::new

ASSUME ThreadsAssumption ==
    /\ Background \notin Clients
    /\ NoThread \notin Clients \cup {Background}

\* The initial snapshot is a TemporalGraph, so from_arrays accepted its edges.
ASSUME EdgesAssumption ==
    /\ NoEdge \notin Edges
    /\ NodeCount \in Nat
    /\ SrcOf \in [Edges -> Nat]
    /\ InitEdges \subseteq Edges
    /\ \A e \in InitEdges : SrcOf[e] < NodeCount

Threads == Clients \cup {Background}

VARIABLES
    snapshot,   \* edges of the graph behind the snapshot mutex
    inserts,    \* DeltaBuffer.inserts
    deletes,    \* DeltaBuffer.deletes
    snapLock,   \* holder of the snapshot mutex
    deltaLock,  \* holder of the delta mutex
    pc,         \* pc[t]: what thread t does next
    op,         \* op[t]: the method t is executing
    arg,        \* arg[t]: the edge t's insert or delete was given
    table,      \* table[t]: the edge table t's apply() returned
    status,     \* status[t]: outcome of t's pending() or compaction
    stop,       \* the stop flag shared with the background thread
    handle,     \* TRUE iff self.handle is Some
    ownerPc     \* what the owner of the LsmStore value does next

data     == <<snapshot, inserts, deletes>>
locks    == <<snapLock, deltaLock>>
locals   == <<op, arg, table, status>>
lifetime == <<stop, handle, ownerPc>>
vars     == <<data, locks, pc, locals, lifetime>>

DeltaOps == {"insert", "delete", "pending"}     \* lock the delta only
BothOps  == {"merged_edges", "compact"}         \* lock the snapshot, then the delta

\* What a thread does outside of a method (or of the loop's critical section),
\* and inside.
Outside == {"idle", "off", "check", "sleep", "recheck", "exited"}
Inside  == {"lock_snapshot", "lock_delta", "locked", "install", "clear",
            "unlock_delta", "unlock_snapshot"}

TypeOK ==
    /\ snapshot \subseteq Edges /\ inserts \subseteq Edges /\ deletes \subseteq Edges
    /\ snapLock \in Threads \cup {NoThread}
    /\ deltaLock \in Threads \cup {NoThread}
    /\ pc \in [Threads -> Outside \cup Inside]
    /\ op \in [Threads -> DeltaOps \cup BothOps \cup {"none"}]
    /\ arg \in [Threads -> Edges \cup {NoEdge}]
    /\ table \in [Threads -> SUBSET Edges]
    /\ status \in [Threads -> {"none", "ok", "err", "zero", "some"}]
    /\ stop \in BOOLEAN /\ handle \in BOOLEAN
    /\ ownerPc \in {"idle", "join", "drop_join", "dropped"}

-------------------------------------------------------------------------------
(* DeltaBuffer and TemporalGraph, as functions of the locked data.           *)

\* DeltaBuffer::apply: tombstones drop snapshot rows, insertions land on top.
Apply(edges, ins, del) == (edges \ del) \cup ins

\* TemporalCSR::from_arrays succeeds iff every source node exists; the
\* destination is not checked.
Indexable(edges) == \A e \in edges : SrcOf[e] < NodeCount

DeltaEmpty == inserts = {} /\ deletes = {}

\* The logical edge set.
MergedEdges == Apply(snapshot, inserts, deletes)

-------------------------------------------------------------------------------
Init ==
    /\ snapshot = InitEdges
    /\ inserts = {} /\ deletes = {}
    /\ snapLock = NoThread /\ deltaLock = NoThread
    /\ pc = [t \in Threads |-> IF t = Background THEN "off" ELSE "idle"]
    /\ op = [t \in Threads |-> "none"]
    /\ arg = [t \in Threads |-> NoEdge]
    /\ table = [t \in Threads |-> {}]
    /\ status = [t \in Threads |-> "none"]
    /\ stop = FALSE /\ handle = FALSE /\ ownerPc = "idle"

\* Fault: a write call that loses its argument.
EnterFault(c, o, e) ==
    /\ pc[c] = "idle" /\ ownerPc = "idle"
    /\ op' = [op EXCEPT ![c] = o]
    /\ pc' = [pc EXCEPT ![c] = IF o \in BothOps THEN "lock_snapshot" ELSE "lock_delta"]
    /\ UNCHANGED <<data, locks, arg, table, status, lifetime>>

\* A client enters a &self method; the owner is in none of its own.
Enter(c, o, e) ==
    /\ pc[c] = "idle" /\ ownerPc = "idle"
    /\ op' = [op EXCEPT ![c] = o]
    /\ arg' = [arg EXCEPT ![c] = e]
    /\ pc' = [pc EXCEPT ![c] = IF o \in BothOps THEN "lock_snapshot" ELSE "lock_delta"]
    /\ UNCHANGED <<data, locks, table, status, lifetime>>

Call(c) ==
    \/ \E o \in {"insert", "delete"}, e \in Edges : Enter(c, o, e)
    \/ \E o \in {"pending", "merged_edges", "compact"} : Enter(c, o, NoEdge)

LockSnapshot(t) ==
    /\ pc[t] = "lock_snapshot" /\ snapLock = NoThread
    /\ snapLock' = t
    /\ pc' = [pc EXCEPT ![t] = "lock_delta"]
    /\ UNCHANGED <<data, deltaLock, locals, lifetime>>

\* Fault: the delta is used without waiting for its mutex.
LockDeltaFault(t) ==
    /\ pc[t] = "lock_delta"
    /\ deltaLock' = t
    /\ pc' = [pc EXCEPT ![t] = "locked"]
    /\ UNCHANGED <<data, snapLock, locals, lifetime>>

LockDelta(t) ==
    /\ pc[t] = "lock_delta" /\ deltaLock = NoThread
    /\ deltaLock' = t
    /\ pc' = [pc EXCEPT ![t] = "locked"]
    /\ UNCHANGED <<data, snapLock, locals, lifetime>>

\* The end of a method or of a loop iteration.
Return(t) ==
    /\ pc' = [pc EXCEPT ![t] = IF t = Background THEN "check" ELSE "idle"]
    /\ op' = [op EXCEPT ![t] = "none"]
    /\ arg' = [arg EXCEPT ![t] = NoEdge]
    /\ table' = [table EXCEPT ![t] = {}]
    /\ status' = [status EXCEPT ![t] = "none"]

\* Guards drop in reverse order of declaration: the delta mutex first.
UnlockDelta(t) ==
    /\ pc[t] = "unlock_delta"
    /\ deltaLock' = NoThread
    /\ \/ /\ op[t] \in BothOps
          /\ pc' = [pc EXCEPT ![t] = "unlock_snapshot"]
          /\ UNCHANGED locals
       \/ /\ op[t] \in DeltaOps
          /\ Return(t)
    /\ UNCHANGED <<data, snapLock, lifetime>>

UnlockSnapshot(t) ==
    /\ pc[t] = "unlock_snapshot"
    /\ snapLock' = NoThread
    /\ Return(t)
    /\ UNCHANGED <<data, deltaLock, lifetime>>

-------------------------------------------------------------------------------
(* Method bodies, run with the locks held.                                   *)

Insert(c) ==
    /\ pc[c] = "locked" /\ op[c] = "insert"
    /\ deletes' = deletes \ {arg[c]}
    /\ inserts' = inserts \cup {arg[c]}
    /\ pc' = [pc EXCEPT ![c] = "unlock_delta"]
    /\ UNCHANGED <<snapshot, locks, locals, lifetime>>

\* Fault: the tombstone is queued, the pending insertion stays.
DeleteFault(c) ==
    /\ pc[c] = "locked" /\ op[c] = "delete"
    /\ deletes' = deletes \cup {arg[c]}
    /\ pc' = [pc EXCEPT ![c] = "unlock_delta"]
    /\ UNCHANGED <<snapshot, inserts, locks, locals, lifetime>>

Delete(c) ==
    /\ pc[c] = "locked" /\ op[c] = "delete"
    /\ inserts' = inserts \ {arg[c]}
    /\ deletes' = deletes \cup {arg[c]}
    /\ pc' = [pc EXCEPT ![c] = "unlock_delta"]
    /\ UNCHANGED <<snapshot, locks, locals, lifetime>>

\* pending(): only zero or non-zero is kept of the length.
Pending(c) ==
    /\ pc[c] = "locked" /\ op[c] = "pending"
    /\ status' = [status EXCEPT ![c] = IF DeltaEmpty THEN "zero" ELSE "some"]
    /\ pc' = [pc EXCEPT ![c] = "unlock_delta"]
    /\ UNCHANGED <<data, locks, op, arg, table, lifetime>>

ReadMerged(c) ==
    /\ pc[c] = "locked" /\ op[c] = "merged_edges"
    /\ table' = [table EXCEPT ![c] = MergedEdges]
    /\ pc' = [pc EXCEPT ![c] = "unlock_delta"]
    /\ UNCHANGED <<data, locks, op, arg, status, lifetime>>

CompactNothing(t) ==
    /\ pc[t] = "locked" /\ op[t] = "compact" /\ DeltaEmpty
    /\ status' = [status EXCEPT ![t] = "ok"]
    /\ pc' = [pc EXCEPT ![t] = "unlock_delta"]
    /\ UNCHANGED <<data, locks, op, arg, table, lifetime>>

\* Fault: the delta guard is a temporary, dropped when apply() returns.
CompactApplyFault(t) ==
    /\ pc[t] = "locked" /\ op[t] = "compact" /\ ~DeltaEmpty
    /\ table' = [table EXCEPT ![t] = MergedEdges]
    /\ deltaLock' = NoThread
    /\ pc' = [pc EXCEPT ![t] = "install"]
    /\ UNCHANGED <<data, snapLock, op, arg, status, lifetime>>

CompactApply(t) ==
    /\ pc[t] = "locked" /\ op[t] = "compact" /\ ~DeltaEmpty
    /\ table' = [table EXCEPT ![t] = MergedEdges]
    /\ pc' = [pc EXCEPT ![t] = "install"]
    /\ UNCHANGED <<data, locks, op, arg, status, lifetime>>

CompactInstall(t) ==
    /\ pc[t] = "install" /\ Indexable(table[t])
    /\ snapshot' = table[t]
    /\ pc' = [pc EXCEPT ![t] = "clear"]
    /\ UNCHANGED <<inserts, deletes, locks, locals, lifetime>>

\* TemporalGraph::new fails: compact_now returns Err, the thread ignores it.
CompactFail(t) ==
    /\ pc[t] = "install" /\ ~Indexable(table[t])
    /\ status' = [status EXCEPT ![t] = "err"]
    /\ pc' = [pc EXCEPT ![t] = "unlock_delta"]
    /\ UNCHANGED <<data, locks, op, arg, table, lifetime>>

\* Fault: clear() forgets the tombstones.
CompactClearFault(t) ==
    /\ pc[t] = "clear"
    /\ inserts' = {}
    /\ status' = [status EXCEPT ![t] = "ok"]
    /\ pc' = [pc EXCEPT ![t] = "unlock_delta"]
    /\ UNCHANGED <<snapshot, deletes, locks, op, arg, table, lifetime>>

CompactClear(t) ==
    /\ pc[t] = "clear"
    /\ inserts' = {} /\ deletes' = {}
    /\ status' = [status EXCEPT ![t] = "ok"]
    /\ pc' = [pc EXCEPT ![t] = "unlock_delta"]
    /\ UNCHANGED <<snapshot, locks, op, arg, table, lifetime>>

-------------------------------------------------------------------------------
(* The background loop around the compaction.                                *)

\* while !stop.load()
BgCheck ==
    /\ pc[Background] = "check"
    /\ pc' = [pc EXCEPT ![Background] = IF stop THEN "exited" ELSE "sleep"]
    /\ UNCHANGED <<data, locks, locals, lifetime>>

BgSleep ==
    /\ pc[Background] = "sleep"
    /\ pc' = [pc EXCEPT ![Background] = "recheck"]
    /\ UNCHANGED <<data, locks, locals, lifetime>>

\* if stop.load() { break }
BgRecheck ==
    /\ pc[Background] = "recheck"
    /\ \/ /\ stop
          /\ pc' = [pc EXCEPT ![Background] = "exited"]
          /\ UNCHANGED op
       \/ /\ ~stop
          /\ pc' = [pc EXCEPT ![Background] = "lock_snapshot"]
          /\ op' = [op EXCEPT ![Background] = "compact"]
    /\ UNCHANGED <<data, locks, arg, table, status, lifetime>>

-------------------------------------------------------------------------------
(* The owner.  &mut self excludes every client call.                         *)

OwnerReady == ownerPc = "idle" /\ \A c \in Clients : pc[c] = "idle"

\* A second call while a handle is present returns at once (a stutter).
SpawnBackground ==
    /\ OwnerReady /\ ~handle
    /\ handle' = TRUE
    /\ pc' = [pc EXCEPT ![Background] = "check"]
    /\ UNCHANGED <<data, locks, locals, stop, ownerPc>>

\* Fault: the join is not preceded by the store to the flag.
SignalStopFault(next) ==
    /\ OwnerReady
    /\ ownerPc' = next
    /\ UNCHANGED <<data, locks, pc, locals, stop, handle>>

\* stop_background, called directly ("join") or by Drop ("drop_join").
SignalStop(next) ==
    /\ OwnerReady
    /\ stop' = TRUE
    /\ ownerPc' = next
    /\ UNCHANGED <<data, locks, pc, locals, handle>>

\* Fault: the handle is dropped, which detaches the thread.
JoinFault ==
    /\ ownerPc \in {"join", "drop_join"}
    /\ handle' = FALSE
    /\ ownerPc' = IF ownerPc = "join" THEN "idle" ELSE "dropped"
    /\ UNCHANGED <<data, locks, pc, locals, stop>>

Join ==
    /\ ownerPc \in {"join", "drop_join"}
    /\ handle => pc[Background] = "exited"
    /\ handle' = FALSE
    /\ pc' = [pc EXCEPT ![Background] = "off"]
    /\ ownerPc' = IF ownerPc = "join" THEN "idle" ELSE "dropped"
    /\ UNCHANGED <<data, locks, locals, stop>>

\* The store has been dropped: nothing can reach it any more.
Dropped == ownerPc = "dropped" /\ UNCHANGED vars

-------------------------------------------------------------------------------
LockStep(t) == LockSnapshot(t) \/ LockDelta(t) \/ UnlockDelta(t) \/ UnlockSnapshot(t)
Compact(t)  == CompactNothing(t) \/ CompactApply(t) \/ CompactInstall(t)
                 \/ CompactFail(t) \/ CompactClear(t)
Body(c)     == Insert(c) \/ Delete(c) \/ Pending(c) \/ ReadMerged(c)

ClientStep(c)  == LockStep(c) \/ Body(c) \/ Compact(c)
BackgroundStep == LockStep(Background) \/ Compact(Background)
                    \/ BgCheck \/ BgSleep \/ BgRecheck
OwnerStart     == SpawnBackground \/ SignalStop("join") \/ SignalStop("drop_join")

Next ==
    \/ \E c \in Clients : Call(c) \/ ClientStep(c)
    \/ BackgroundStep
    \/ OwnerStart
    \/ Join
    \/ Dropped

Spec == Init /\ [][Next]_vars

\* Threads that can run do run.  Starting a call, spawning and stopping are the
\* program's choice; std's Mutex promises no order among waiters, so acquiring a
\* lock gets weak fairness only.
FairSpec ==
    /\ Spec
    /\ \A c \in Clients : WF_vars(ClientStep(c))
    /\ WF_vars(BackgroundStep)
    /\ WF_vars(Join)

-------------------------------------------------------------------------------
(* Safety.                                                                   *)

HoldsSnapshot(t) == /\ op[t] \in BothOps
                    /\ pc[t] \in Inside \ {"lock_snapshot"}
HoldsDelta(t)    == pc[t] \in {"locked", "install", "clear", "unlock_delta"}

\* Each mutex is held by exactly the threads whose code is between the lock()
\* and the drop of its guard, so the bodies of insert, delete, pending,
\* merged_edges and both compactions never overlap on the data they share.
LockDiscipline ==
    \A t \in Threads : /\ snapLock = t <=> HoldsSnapshot(t)
                       /\ deltaLock = t <=> HoldsDelta(t)

\* No stale merge: the table a compaction computed is still the logical edge
\* set when it is installed, and the delta it is about to clear holds nothing
\* that the installed snapshot does not already have.
FreshMerge ==
    \A t \in Threads :
        /\ pc[t] = "install" => table[t] = MergedEdges
        /\ pc[t] = "clear" => snapshot = MergedEdges

\* A compaction that reports Ok has drained the delta, one that reports Err
\* kept it: the edge the index refused is still part of the logical edge set.
HonestOutcome ==
    \A t \in Threads :
        pc[t] = "unlock_delta" /\ op[t] = "compact" =>
            /\ status[t] = "ok" => DeltaEmpty
            /\ status[t] = "err" => ~Indexable(MergedEdges)

\* When stop_background (or drop) has returned, no compaction is running and
\* none will: the thread is gone, or is a later one that sees the flag at once.
StoppedIsQuiet ==
    /\ stop /\ ownerPc \in {"idle", "dropped"} =>
          pc[Background] \in {"off", "check", "exited"}
    /\ ~handle => pc[Background] = "off"

\* The call of t that EdgeSet sees: pending() and compactions are invisible.
VisibleCall(t) ==
    IF op[t] \in {"insert", "delete", "merged_edges"}
    THEN [op |-> op[t], edge |-> arg[t],
          done |-> pc[t] \in {"unlock_delta", "unlock_snapshot"}, result |-> table[t]]
    ELSE [op |-> "none", edge |-> NoEdge, done |-> FALSE, result |-> {}]

Calls == [t \in Threads |-> VisibleCall(t)]

Abstract == INSTANCE EdgeSet WITH Clients <- Threads, edges <- MergedEdges, call <- Calls

\* The store implements EdgeSet: every insert, delete and merged_edges takes
\* effect once, between its call and its return, on the one logical edge set,
\* and no step of a compaction, between the installation of the snapshot and
\* the clearing of the delta included, is visible to anybody.
ImplementsEdgeSet == Abstract!Spec

-------------------------------------------------------------------------------
(* Liveness.                                                                 *)

Quiet   == \A c \in Clients : pc[c] = "idle"
Running == handle /\ ~stop

\* If clients eventually leave the mutexes alone (they are not fair), a running
\* background thread folds whatever is pending, unless it is told to stop or an
\* edge whose source is no node of the graph is in the way.
BackgroundFolds ==
    <>[]Quiet => (Running /\ ~DeltaEmpty
                    ~> DeltaEmpty \/ stop \/ ~Indexable(MergedEdges))

\* stop_background and drop return: the join cannot wait on a thread that waits
\* for a mutex for ever, whatever the thread was doing when the flag was set.
StopReturns == ownerPc \in {"join", "drop_join"} ~> ownerPc \in {"idle", "dropped"}

\* What the comment on spawn_background says: the spawned thread compacts, as
\* long as its handle is kept and the owner does not stop it.
SpawnCompacts ==
    <>[]Quiet => (handle /\ ownerPc = "idle" /\ ~DeltaEmpty
                    ~> DeltaEmpty \/ ~handle \/ ownerPc # "idle")
================================================================================
