------------------------------ MODULE RemoteQuery ------------------------------
(***************************************************************************)
(* gtv-server and gtv-proto with the scripts that start and stop the       *)
(* server: clients send SQL over gRPC, the server process answers from one *)
(* context that all of them share and change, start.sh and stop.sh manage  *)
(* that process through a pid file.  Processes crash, and their context    *)
(* with them, the network fails, pids are used again by other programs,    *)
(* and nothing keeps two scripts from running at once.                     *)
(*                                                                         *)
(* gRPC, the kernel's processes and signals and the port are external,     *)
(* modelled by what the code relies on: a request is answered once or      *)
(* fails, one process listens on the port, a signalled server ends.        *)
(***************************************************************************)
EXTENDS DemoData

CONSTANTS
    Clients, Scripts, Pids,
    Stmts,           \* statements the clients send
    MaxBusy,         \* bound: calls and scripts at the same time
    None             \* no pid

ASSUME NoneAssumption == None \notin Pids

VARIABLES
    proc,            \* what runs under each pid
    ctx,             \* the GtvContext of each server process
    pidfile,         \* target/gtv-server.pid
    script,          \* each script: its next step, the pid it has read
    client,          \* each call of query_remote
    seen,            \* history: what the context would have answered to each
                     \* call, at each moment of the call
    overlap,         \* history: two scripts have run at once
    stale            \* history: the server in the pid file ended unasked

calls   == <<ctx, client, seen>>
history == <<overlap, stale>>
vars    == <<proc, ctx, pidfile, script, client, seen, history>>

Server(p) == proc[p] \in {"booting", "serving"}
Alive(p)  == proc[p] # "free"            \* kill -0

Resting == [pc |-> "done", pid |-> None]
NoBytes == [stream |-> FALSE, rows |-> <<>>]
NoReply == [error |-> "", ipc |-> NoBytes]
NoCall  == [pc |-> "idle", stmt |-> Select("none"), server |-> None, copy |-> <<>>,
            reply |-> NoReply, result |-> "", rows |-> <<>>]

Running(s) == script[s].pc # "done"

\* Another call or script begins only within the bound.
Room ==
    Cardinality({c \in Clients : client[c].pc # "idle"}) + Cardinality({s \in Scripts : Running(s)}) < MaxBusy

TypeOK ==
    /\ proc \in [Pids -> {"free", "booting", "serving", "dying", "other"}]
    /\ pidfile \in Pids \cup {None}
    /\ \A s \in Scripts :
          /\ script[s].pc \in {"done", "check", "peek", "ping", "remove", "spawn", "record", "probe",
                               "look", "read", "test", "kill", "wait", "unlink"}
          /\ script[s].pid \in Pids \cup {None}
          /\ script[s].pc \in {"ping", "record", "probe", "test", "kill", "wait"} => script[s].pid # None
    /\ \A c \in Clients :
          /\ client[c].pc \in {"idle", "sent", "collected", "broken", "answered", "done"}
          /\ client[c].result \in {"", "rows", "query", "encode", "decode", "transport"}
    /\ overlap \in BOOLEAN /\ stale \in BOOLEAN

Init ==
    /\ proc = [p \in Pids |-> "free"] /\ ctx = [p \in Pids |-> EmptyContext]
    /\ pidfile = None /\ script = [s \in Scripts |-> Resting]
    /\ client = [c \in Clients |-> NoCall] /\ seen = [c \in Clients |-> {}]
    /\ overlap = FALSE /\ stale = FALSE

-------------------------------------------------------------------------------
\* encode_batches and decode_batches: a stream with a schema, even without
\* batches; no bytes at all decode to no batches.
Encode(rows) == [stream |-> TRUE, rows |-> rows]
Decode(ipc)  == IF ipc.stream THEN ipc.rows ELSE <<>>

\* The call ends: what is seen matters to an answer only.
Over(c, result, rows) ==
    /\ client' = [client EXCEPT ![c] = [NoCall EXCEPT !.pc = "done", !.result = result, !.rows = rows]]
    /\ seen' = [seen EXCEPT ![c] = IF result \in {"rows", "query"} THEN @ ELSE {}]

\* query_remote: connect to the server that listens, and send.
Connect(c, q) ==
    /\ client[c].pc = "idle" /\ Room
    /\ \E p \in Pids :
          /\ proc[p] = "serving"
          /\ client' = [client EXCEPT ![c] = [NoCall EXCEPT !.pc = "sent", !.stmt = q, !.server = p]]
          /\ seen' = [seen EXCEPT ![c] = {Sql(ctx[p], q)}]
    /\ UNCHANGED <<proc, ctx, pidfile, script, history>>

\* Nobody listens, or the connection fails although somebody does.
ConnectFails(c) ==
    /\ client[c].pc = "idle" /\ Room
    /\ Over(c, "transport", <<>>)
    /\ UNCHANGED <<proc, ctx, pidfile, script, history>>

\* Fault: a failed query is answered with no bytes and no error.
RepliesFault(r) == IF r.ok THEN {[error |-> "", ipc |-> Encode(r.rows)]} ELSE {NoReply}

\* execute: the answer, or in its place the error of the encoder or the query.
Replies(r) ==
    IF r.ok THEN {[error |-> "", ipc |-> Encode(r.rows)], [NoReply EXCEPT !.error = "encode"]}
    ELSE {[NoReply EXCEPT !.error = "query"]}

\* The server has an answer r for c.
Answers(c, r) ==
    \E reply \in Replies(r) :
       client' = [client EXCEPT ![c] = [NoCall EXCEPT !.pc = "answered", !.reply = reply]]

AtServer(c, p) == client[c].pc \in {"sent", "collected"} /\ client[c].server = p

\* The other calls on server p see its context change.
Observed(c, p) ==
    seen' = [o \in Clients |-> IF o # c /\ AtServer(o, p) THEN seen[o] \cup {Sql(ctx'[p], client[o].stmt)}
                               ELSE seen[o]]

\* execute, for every statement but a CREATE TABLE AS that goes well.  Planning and
\* running it are one step: what other calls do in between leaves its answer one
\* that the context gives at some moment of the call.
Execute(c) ==
    LET p == client[c].server
        q == client[c].stmt
    IN  /\ client[c].pc = "sent" /\ (q.kind = "create" => ~CanCreate(ctx[p], q))
        /\ Answers(c, Sql(ctx[p], q))
        /\ ctx' = [ctx EXCEPT ![p] = SqlEffect(@, q)]
        /\ Observed(c, p)
        /\ UNCHANGED <<proc, pidfile, script, history>>

\* CREATE TABLE AS finds the name free and reads its source ...
Collect(c) ==
    LET p == client[c].server
        q == client[c].stmt
    IN  /\ client[c].pc = "sent" /\ q.kind = "create" /\ CanCreate(ctx[p], q)
        /\ client' = [client EXCEPT ![c].pc = "collected", ![c].copy = ctx[p].tables[q.source]]
        /\ UNCHANGED <<proc, ctx, pidfile, script, seen, history>>

\* ... and registers what it has read, unless the name has been taken since.
RegisterTable(c) ==
    LET p    == client[c].server
        name == client[c].stmt.name
        free == name \notin DOMAIN ctx[p].tables
    IN  /\ client[c].pc = "collected"
        /\ Answers(c, IF free THEN Ok(<<>>) ELSE Err)
        /\ ctx' = [ctx EXCEPT ![p] = IF free THEN RegisterBatches(@, name, client[c].copy) ELSE @]
        /\ Observed(c, p)
        /\ UNCHANGED <<proc, pidfile, script, history>>

\* query_remote: an error in the body is an error, anything else is decoded, which
\* may fail.
Receive(c) ==
    LET reply == client[c].reply
    IN  /\ client[c].pc = "answered"
        /\ IF reply.error # "" THEN Over(c, reply.error, <<>>)
           ELSE Over(c, "rows", Decode(reply.ipc)) \/ Over(c, "decode", <<>>)
        /\ UNCHANGED <<proc, ctx, pidfile, script, history>>

\* The caller takes the result.
Return(c) ==
    /\ client[c].pc = "done"
    /\ client' = [client EXCEPT ![c] = NoCall] /\ seen' = [seen EXCEPT ![c] = {}]
    /\ UNCHANGED <<proc, ctx, pidfile, script, history>>

\* The call fails in transit: the server is gone, or the network.  A statement the
\* server has or will have executed all the same is one of another client's.
Lost(c) ==
    /\ client[c].pc \in {"sent", "collected", "answered", "broken"}
    /\ Over(c, "transport", <<>>)
    /\ UNCHANGED <<proc, ctx, pidfile, script, history>>

-------------------------------------------------------------------------------
\* serve: the context is built, then the port is bound.
Bind(p) ==
    /\ proc[p] = "booting" /\ \A o \in Pids : proc[o] # "serving"
    /\ proc' = [proc EXCEPT ![p] = "serving"]
    /\ ctx' = [ctx EXCEPT ![p] = ServerContext]
    /\ UNCHANGED <<pidfile, script, client, seen, history>>

\* A process ends: its pid is free, its context lost, its connections break.
Ends(p) ==
    /\ proc' = [proc EXCEPT ![p] = "free"]
    /\ ctx' = [ctx EXCEPT ![p] = EmptyContext]
    /\ client' = [c \in Clients |-> IF AtServer(c, p) THEN [NoCall EXCEPT !.pc = "broken"] ELSE client[c]]

\* serve fails, because the port is taken, or the process crashes.
Exit(p) ==
    /\ Server(p) /\ Ends(p)
    /\ stale' = (stale \/ pidfile = p)
    /\ UNCHANGED <<pidfile, script, seen, overlap>>

\* A signal takes effect.
Die(p) == proc[p] = "dying" /\ Ends(p) /\ UNCHANGED <<pidfile, script, seen, history>>

\* Another program gets a free pid, and ends.
Reuse(p) ==
    /\ \/ proc[p] = "free" /\ proc' = [proc EXCEPT ![p] = "other"]
       \/ proc[p] = "other" /\ proc' = [proc EXCEPT ![p] = "free"]
    /\ UNCHANGED <<pidfile, script, calls, history>>

-------------------------------------------------------------------------------
Step(s, pc)   == script' = [script EXCEPT ![s].pc = pc]
ScriptEnds(s) == script' = [script EXCEPT ![s] = Resting]

Invoke(s, pc) ==
    /\ ~Running(s) /\ Room
    /\ script' = [script EXCEPT ![s] = [Resting EXCEPT !.pc = pc]]
    /\ overlap' = (overlap \/ \E o \in Scripts : Running(o))
    /\ UNCHANGED <<proc, pidfile, calls, stale>>

\* start.sh: -f, cat and kill -0; without a file cat prints nothing and kill fails.
StartCheck(s) ==
    /\ script[s].pc = "check"
    /\ Step(s, IF pidfile = None THEN "remove" ELSE "peek")
    /\ UNCHANGED <<proc, pidfile, calls, history>>

StartPeek(s) ==
    /\ script[s].pc = "peek"
    /\ IF pidfile = None THEN Step(s, "remove")
       ELSE script' = [script EXCEPT ![s].pc = "ping", ![s].pid = pidfile]
    /\ UNCHANGED <<proc, pidfile, calls, history>>

\* Refuse, with exit code 1, if the recorded pid is alive.
StartPing(s) ==
    /\ script[s].pc = "ping"
    /\ IF Alive(script[s].pid) THEN ScriptEnds(s)
       ELSE script' = [script EXCEPT ![s].pc = "remove", ![s].pid = None]
    /\ UNCHANGED <<proc, pidfile, calls, history>>

StartRemove(s) ==
    /\ script[s].pc = "remove"
    /\ pidfile' = None /\ stale' = FALSE /\ Step(s, "spawn")
    /\ UNCHANGED <<proc, calls, overlap>>

\* The build fails (set -e, exit 1), or the server is started in the background.
StartSpawn(s) ==
    /\ script[s].pc = "spawn"
    /\ \/ ScriptEnds(s) /\ UNCHANGED proc
       \/ \E p \in Pids :
             /\ proc[p] = "free" /\ proc' = [proc EXCEPT ![p] = "booting"]
             /\ script' = [script EXCEPT ![s].pc = "record", ![s].pid = p]
    /\ UNCHANGED <<pidfile, calls, history>>

StartRecord(s) ==
    /\ script[s].pc = "record"
    /\ pidfile' = script[s].pid /\ Step(s, "probe")
    /\ stale' = ~Server(script[s].pid)
    /\ UNCHANGED <<proc, calls, overlap>>

\* Fault: the file is removed although the server lives.
DeadFault(p) == TRUE

Dead(p) == ~Alive(p)

\* After the sleep: still there, or the file is removed again (exit 1).
StartProbe(s) ==
    /\ script[s].pc = "probe"
    /\ IF Dead(script[s].pid) THEN pidfile' = None /\ stale' = FALSE /\ ScriptEnds(s)
       ELSE UNCHANGED <<pidfile, stale>> /\ ScriptEnds(s)
    /\ UNCHANGED <<proc, calls, overlap>>

\* stop.sh: nothing to do without a pid file (exit 0).
StopLook(s) ==
    /\ script[s].pc = "look"
    /\ IF pidfile = None THEN ScriptEnds(s) ELSE Step(s, "read")
    /\ UNCHANGED <<proc, pidfile, calls, history>>

ReadPid == pidfile

\* cat fails (set -e, exit 1) if the file has gone in between.
StopRead(s) ==
    /\ script[s].pc = "read"
    /\ IF pidfile = None THEN ScriptEnds(s)
       ELSE script' = [script EXCEPT ![s].pc = "test", ![s].pid = ReadPid]
    /\ UNCHANGED <<proc, pidfile, calls, history>>

StopTest(s) ==
    /\ script[s].pc = "test"
    /\ Step(s, IF Alive(script[s].pid) THEN "kill" ELSE "unlink")
    /\ UNCHANGED <<proc, pidfile, calls, history>>

\* What a signal to pid p does.
Signal(p) == proc' = [proc EXCEPT ![p] = IF Server(p) THEN "dying" ELSE @]

\* kill: it fails (set -e, exit 1) if the process has ended in between.
StopKill(s) ==
    /\ script[s].pc = "kill"
    /\ IF Alive(script[s].pid)
       THEN Signal(script[s].pid) /\ Step(s, "wait")
       ELSE ScriptEnds(s) /\ UNCHANGED proc
    /\ UNCHANGED <<pidfile, calls, history>>

\* Fault: the loop has no bound.
LoopOverFault(p) == ~Alive(p)

\* The loop ends with the process, and after five seconds anyway.
LoopOver(p) == TRUE

\* SIGKILL for a process that is still there.
StopWait(s) ==
    /\ script[s].pc = "wait" /\ LoopOver(script[s].pid)
    /\ IF Alive(script[s].pid) THEN Signal(script[s].pid) ELSE UNCHANGED proc
    /\ Step(s, "unlink")
    /\ UNCHANGED <<pidfile, calls, history>>

\* Fault: the pid file is left behind.
UnlinkedFault == pidfile

Unlinked == None

\* Exit 0.
StopUnlink(s) ==
    /\ script[s].pc = "unlink"
    /\ pidfile' = Unlinked /\ stale' = FALSE /\ ScriptEnds(s)
    /\ UNCHANGED <<proc, calls, overlap>>

ScriptStep(s) ==
    \/ StartCheck(s) \/ StartPeek(s) \/ StartPing(s) \/ StartRemove(s)
    \/ StartSpawn(s) \/ StartRecord(s) \/ StartProbe(s)
    \/ StopLook(s) \/ StopRead(s) \/ StopTest(s) \/ StopKill(s) \/ StopWait(s) \/ StopUnlink(s)

Next ==
    \/ \E c \in Clients :
          \/ \E q \in Stmts : Connect(c, q)
          \/ ConnectFails(c) \/ Execute(c) \/ Collect(c) \/ RegisterTable(c) \/ Receive(c) \/ Lost(c) \/ Return(c)
    \/ \E p \in Pids : Bind(p) \/ Exit(p) \/ Die(p) \/ Reuse(p)
    \/ \E s \in Scripts : Invoke(s, "check") \/ Invoke(s, "look") \/ ScriptStep(s)

\* A script that runs goes on.  Nothing is assumed of servers, signals or calls.
Fairness == \A s \in Scripts : WF_vars(ScriptStep(s))

Spec == Init /\ [][Next]_vars /\ Fairness

-------------------------------------------------------------------------------
\* A remote query tells the truth, as p5_distributed.rs asserts, while other clients
\* create, change and drop tables of the same context: rows are those the context
\* gave for the statement at some moment of the call, an error of the query was one
\* at some moment, and never is a failed query taken for an empty answer.
HonestAnswer ==
    \A c \in Clients :
        /\ client[c].result = "rows" => \E local \in seen[c] : local.ok /\ client[c].rows = local.rows
        /\ client[c].result = "query" => \E local \in seen[c] : ~local.ok

\* The variables have their types, and scripts run one at a time never lose a
\* server: when none runs, a server that is up is the one in the pid file.
NoOrphan ==
    /\ TypeOK
    /\ ~overlap /\ (\A s \in Scripts : ~Running(s)) => \A p \in Pids : Server(p) => pidfile = p

\* When a stop.sh that ran alone exits with 0 no server is up and the pid file is
\* gone, whether the server was running, had crashed or had never been started.
StopStops ==
    [][\A s \in Scripts :
          script[s].pc \in {"look", "unlink"} /\ script'[s].pc = "done" /\ ~overlap =>
             pidfile' = None /\ \A p \in Pids : ~Server(p)']_vars

\* stop.sh sends SIGTERM to another program only in the place of a server that
\* ended unasked while the pid file named it, if scripts run one at a time.
OthersAreSafe ==
    [][\A s \in Scripts :
          script[s].pc = "kill" /\ script'[s].pc = "wait" /\ proc[script[s].pid] = "other"
             /\ ~overlap => stale]_vars

\* start.sh and stop.sh end, whatever other scripts and the processes do, a server
\* that ignores the signal included.
ScriptsEnd == \A s \in Scripts : Running(s) ~> ~Running(s)
================================================================================
