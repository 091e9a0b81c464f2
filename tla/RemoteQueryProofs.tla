--------------------------- MODULE RemoteQueryProofs ---------------------------
(***************************************************************************)
(* RemoteQuery, proved for any number of clients, scripts and pids and for *)
(* any statements: remote answers are honest, and scripts that run one at  *)
(* a time neither lose a server nor leave one up nor signal a stranger.    *)
(***************************************************************************)
EXTENDS RemoteQuery, TLAPS

ProcStates == {"free", "booting", "serving", "dying", "other"}

\* The record of a script.
ScriptRecord ==
    [pc : {"done", "check", "peek", "ping", "remove", "spawn", "record", "probe",
           "look", "read", "test", "kill", "wait", "unlink"},
     pid : Pids \cup {None}]

Shape ==
    /\ proc \in [Pids -> ProcStates]
    /\ pidfile \in Pids \cup {None}
    /\ script \in [Scripts -> ScriptRecord]
    /\ overlap \in BOOLEAN /\ stale \in BOOLEAN
    /\ DOMAIN client = Clients /\ DOMAIN seen = Clients /\ DOMAIN ctx = Pids

\* A script that works with a pid has one.
HasPid ==
    \A s \in Scripts :
        script[s].pc \in {"ping", "record", "probe", "test", "kill", "wait"} => script[s].pid # None

\* A call of query_remote: while the server has it, the server is a process with a
\* context, and what that context would answer now has been seen; what a CREATE
\* TABLE AS that has read its source may answer has been seen too, and so has what
\* is on its way back, and what is returned.
CallOK(c) ==
    LET r == client[c]
    IN  /\ DOMAIN r = DOMAIN NoCall
        /\ r.pc \in {"idle", "sent", "collected", "broken", "answered", "done"}
        /\ r.result \in {"", "rows", "query", "encode", "decode", "transport"}
        /\ r.pc # "done" => r.result = ""
        /\ r.pc \in {"sent", "collected"} =>
              /\ r.server \in Pids /\ proc[r.server] \in {"serving", "dying"}
              /\ Sql(ctx[r.server], r.stmt) \in seen[c]
        /\ r.pc = "collected" => r.stmt.kind = "create" /\ Ok(<<>>) \in seen[c]
        /\ r.pc = "answered" => \E a \in seen[c] : r.reply \in Replies(a)
        /\ r.result = "rows" => \E a \in seen[c] : a.ok /\ r.rows = a.rows
        /\ r.result = "query" => \E a \in seen[c] : ~a.ok

CallsOK == \A c \in Clients : CallOK(c)

\* Where a server may be, by what the one running script is about to do: in the
\* pid file, or just started and not yet recorded, and nowhere once a script has
\* found or made sure that none is left.
Placement ==
    /\ \A s, o \in Scripts : Running(s) /\ Running(o) => s = o
    /\ \A p \in Pids : Server(p) =>
          pidfile = p \/ \E s \in Scripts : script[s].pc = "record" /\ script[s].pid = p
    /\ \A s \in Scripts :
          /\ script[s].pc \in {"remove", "spawn", "wait", "unlink"} => \A p \in Pids : ~Server(p)
          /\ script[s].pc \in {"spawn", "record"} => pidfile = None
          /\ script[s].pc \in {"ping", "probe", "test", "kill", "wait"} => pidfile = script[s].pid

\* A recorded pid that is not known to be stale is the server's, until a stop.sh
\* has signalled it.
FreshPid ==
    pidfile # None /\ ~stale =>
        \/ Server(pidfile)
        \/ \E s \in Scripts : script[s].pc \in {"wait", "unlink"}

Alone == ~overlap => Placement /\ FreshPid

Inv == Shape /\ HasPid /\ CallsOK /\ Alone

--------------------------------------------------------------------------------
\* A call nothing has happened to stays as it was.
LEMMA CallKept ==
    ASSUME NEW c \in Clients, CallOK(c), client'[c] = client[c], seen'[c] = seen[c],
           AtServer(c, client[c].server) /\ client[c].server \in Pids =>
              /\ proc'[client[c].server] \in {"serving", "dying"}
              /\ ctx'[client[c].server] = ctx[client[c].server]
    PROVE  CallOK(c)'
BY DEF CallOK, AtServer

\* A call that waits for nothing.
LEMMA CallAtRest ==
    ASSUME NEW c \in Clients, NEW result, NEW rows, NEW pc \in {"idle", "broken", "done"},
           result \in {"", "rows", "query", "encode", "decode", "transport"},
           pc # "done" => result = "",
           result = "rows" => \E a \in seen'[c] : a.ok /\ rows = a.rows,
           result = "query" => \E a \in seen'[c] : ~a.ok,
           client'[c] = [NoCall EXCEPT !.pc = pc, !.result = result, !.rows = rows]
    PROVE  CallOK(c)'
<1> DEFINE r == [NoCall EXCEPT !.pc = pc, !.result = result, !.rows = rows]
<1>1. /\ DOMAIN r = DOMAIN NoCall /\ r.pc = pc /\ r.result = result /\ r.rows = rows
  BY DEF NoCall
<1> HIDE DEF r
<1>2. client'[c] = r
  BY DEF r
<1> QED BY <1>1, <1>2 DEF CallOK

\* A call that ends, honestly, leaves the others alone.
LEMMA OverOK ==
    ASSUME Shape, CallsOK, NEW c \in Clients, NEW result, NEW rows, Over(c, result, rows),
           UNCHANGED <<proc, ctx>>,
           result \in {"rows", "query", "encode", "decode", "transport"},
           result = "rows" => \E a \in seen[c] : a.ok /\ rows = a.rows,
           result = "query" => \E a \in seen[c] : ~a.ok
    PROVE  CallsOK' /\ DOMAIN client' = Clients /\ DOMAIN seen' = Clients
<1> DEFINE r == [NoCall EXCEPT !.pc = "done", !.result = result, !.rows = rows]
<1>1. client' = [client EXCEPT ![c] = r]
  BY DEF Over
<1>2. seen' = [seen EXCEPT ![c] = IF result \in {"rows", "query"} THEN seen[c] ELSE {}]
  BY DEF Over
<1> HIDE DEF r
<1>3. DOMAIN client = Clients /\ DOMAIN seen = Clients
  BY DEF Shape
<1>4. /\ DOMAIN client' = Clients /\ DOMAIN seen' = Clients
      /\ client'[c] = r /\ (result \in {"rows", "query"} => seen'[c] = seen[c])
      /\ \A d \in Clients : d # c => client'[d] = client[d] /\ seen'[d] = seen[d]
  BY <1>1, <1>2, <1>3
<1>5. CallOK(c)'
  <2>1. client'[c] = [NoCall EXCEPT !.pc = "done", !.result = result, !.rows = rows]
    BY <1>4 DEF r
  <2>2. /\ result = "rows" => \E a \in seen'[c] : a.ok /\ rows = a.rows
        /\ result = "query" => \E a \in seen'[c] : ~a.ok
    BY <1>4
  <2> QED BY <2>1, <2>2, CallAtRest, Zenon
<1>6. ASSUME NEW d \in Clients, d # c PROVE CallOK(d)'
  <2>1. CallOK(d) /\ client'[d] = client[d] /\ seen'[d] = seen[d] /\ proc' = proc /\ ctx' = ctx
    BY <1>4, <1>6 DEF CallsOK
  <2>2. AtServer(d, client[d].server) => proc[client[d].server] \in {"serving", "dying"}
    BY <2>1 DEF CallOK, AtServer
  <2> QED BY <2>1, <2>2, CallKept
<1> QED BY <1>4, <1>5, <1>6 DEF CallsOK

\* What execute answers, seen from the client.
LEMMA RepliesHonest ==
    ASSUME NEW a, NEW reply \in Replies(a)
    PROVE  /\ reply.error = "" => a.ok /\ Decode(reply.ipc) = a.rows
           /\ reply.error # "" => reply.error \in {"query", "encode"}
           /\ reply.error = "query" => ~a.ok
<1>1. CASE a.ok
  <2>1. CASE reply = [error |-> "", ipc |-> Encode(a.rows)]
    BY <1>1, <2>1 DEF Encode, Decode
  <2>2. CASE reply = [NoReply EXCEPT !.error = "encode"]
    BY <2>2 DEF NoReply
  <2> QED BY <1>1, <2>1, <2>2 DEF Replies
<1>2. CASE ~a.ok
  <2>1. reply = [NoReply EXCEPT !.error = "query"]
    BY <1>2 DEF Replies
  <2> QED BY <1>2, <2>1 DEF NoReply
<1> QED BY <1>1, <1>2

\* The server's answer to c is one that c has seen, and whatever it made of the
\* context the other calls on that server have seen.
LEMMA ServerAnswers ==
    ASSUME Shape, CallsOK, NEW c \in Clients, NEW p \in Pids, AtServer(c, p), UNCHANGED proc,
           NEW a \in seen[c], Answers(c, a),
           NEW new, ctx' = [ctx EXCEPT ![p] = new], Observed(c, p)
    PROVE  CallsOK' /\ DOMAIN client' = Clients /\ DOMAIN seen' = Clients /\ DOMAIN ctx' = Pids
<1>1. PICK reply \in Replies(a) :
         client' = [client EXCEPT ![c] = [NoCall EXCEPT !.pc = "answered", !.reply = reply]]
  BY DEF Answers
<1> DEFINE r == [NoCall EXCEPT !.pc = "answered", !.reply = reply]
<1>2. DOMAIN r = DOMAIN NoCall /\ r.pc = "answered" /\ r.result = "" /\ r.reply = reply
  BY DEF NoCall
<1>3. client' = [client EXCEPT ![c] = r]
  BY <1>1
<1> HIDE DEF r
<1>4. DOMAIN client = Clients /\ DOMAIN seen = Clients /\ DOMAIN ctx = Pids
  BY DEF Shape
<1>5. /\ DOMAIN client' = Clients /\ DOMAIN seen' = Clients /\ DOMAIN ctx' = Pids
      /\ client'[c] = r /\ seen'[c] = seen[c]
      /\ \A o \in Pids : o # p => ctx'[o] = ctx[o]
      /\ \A d \in Clients : d # c => client'[d] = client[d]
  BY <1>3, <1>4 DEF Observed
<1>6. CallOK(c)'
  BY <1>2, <1>5 DEF CallOK
<1>7. ASSUME NEW d \in Clients, d # c PROVE CallOK(d)'
  <2>1. CallOK(d) /\ client'[d] = client[d]
    BY <1>5, <1>7 DEF CallsOK
  <2>2. CASE AtServer(d, p)
    <3>1. seen'[d] = seen[d] \cup {Sql(ctx'[p], client[d].stmt)}
      BY <1>4, <1>7, <2>2 DEF Observed
    <3> QED BY <2>1, <2>2, <3>1 DEF CallOK, AtServer
  <2>3. CASE ~AtServer(d, p)
    <3>1. seen'[d] = seen[d]
      BY <1>4, <2>3 DEF Observed
    <3>2. AtServer(d, client[d].server) =>
             /\ client[d].server # p
             /\ client[d].server \in Pids => proc[client[d].server] \in {"serving", "dying"}
      BY <2>1, <2>3 DEF CallOK, AtServer
    <3> QED BY <1>5, <2>1, <3>1, <3>2, CallKept
  <2> QED BY <2>2, <2>3
<1> QED BY <1>5, <1>6, <1>7 DEF CallsOK

\* The steps of a call.
ClientStep(c) ==
    \/ \E q \in Stmts : Connect(c, q)
    \/ ConnectFails(c) \/ Execute(c) \/ Collect(c) \/ RegisterTable(c) \/ Receive(c) \/ Lost(c) \/ Return(c)

\* The calls touch no process, script or file, and stay honest.
LEMMA ClientsHonest ==
    ASSUME Inv, NEW c \in Clients, ClientStep(c)
    PROVE  /\ UNCHANGED <<proc, pidfile, script, overlap, stale>>
           /\ DOMAIN client' = Clients /\ DOMAIN seen' = Clients /\ DOMAIN ctx' = Pids
           /\ CallsOK'
<1>0. /\ Shape /\ CallsOK /\ CallOK(c)
      /\ DOMAIN client = Clients /\ DOMAIN seen = Clients /\ DOMAIN ctx = Pids
  BY DEF Inv, Shape, CallsOK
<1>1. UNCHANGED <<proc, pidfile, script, overlap, stale>>
  BY DEF ClientStep, Connect, ConnectFails, Execute, Collect, RegisterTable, Receive, Lost, Return, history
<1>u. ASSUME NEW d \in Clients, d # c, client'[d] = client[d], seen'[d] = seen[d], ctx' = ctx
      PROVE  CallOK(d)'
  <2>1. CallOK(d) /\ proc' = proc
    BY <1>0, <1>1 DEF CallsOK
  <2>2. AtServer(d, client[d].server) => proc[client[d].server] \in {"serving", "dying"}
    BY <2>1 DEF CallOK, AtServer
  <2> QED BY <1>u, <2>1, <2>2, CallKept
<1>2. ASSUME NEW q \in Stmts, Connect(c, q)
      PROVE  DOMAIN client' = Clients /\ DOMAIN seen' = Clients /\ DOMAIN ctx' = Pids /\ CallsOK'
  <2>1. PICK p \in Pids :
           /\ proc[p] = "serving"
           /\ client' = [client EXCEPT ![c] = [NoCall EXCEPT !.pc = "sent", !.stmt = q, !.server = p]]
           /\ seen' = [seen EXCEPT ![c] = {Sql(ctx[p], q)}]
    BY <1>2 DEF Connect
  <2> DEFINE r == [NoCall EXCEPT !.pc = "sent", !.stmt = q, !.server = p]
  <2>2. DOMAIN r = DOMAIN NoCall /\ r.pc = "sent" /\ r.result = "" /\ r.stmt = q /\ r.server = p
    BY DEF NoCall
  <2>3. client' = [client EXCEPT ![c] = r] /\ ctx' = ctx
    BY <1>2, <2>1 DEF Connect
  <2> HIDE DEF r
  <2>4. /\ client'[c] = r /\ seen'[c] = {Sql(ctx[p], q)}
        /\ \A d \in Clients : d # c => client'[d] = client[d] /\ seen'[d] = seen[d]
    BY <1>0, <2>1, <2>3
  <2>5. CallOK(c)'
    BY <1>1, <2>1, <2>2, <2>3, <2>4 DEF CallOK
  <2> QED BY <1>0, <1>u, <2>1, <2>3, <2>4, <2>5 DEF CallsOK
<1>3. CASE ConnectFails(c)
  BY <1>0, <1>1, <1>3, OverOK DEF ConnectFails
<1>4. CASE Execute(c)
  <2> DEFINE p == client[c].server
             q == client[c].stmt
  <2>1. /\ client[c].pc = "sent" /\ Answers(c, Sql(ctx[p], q))
        /\ ctx' = [ctx EXCEPT ![p] = SqlEffect(ctx[p], q)] /\ Observed(c, p)
    BY <1>4 DEF Execute
  <2>2. p \in Pids /\ Sql(ctx[p], q) \in seen[c] /\ AtServer(c, p)
    BY <1>0, <2>1 DEF CallOK, AtServer
  <2> HIDE DEF p, q
  <2> QED BY <1>0, <1>1, <2>1, <2>2, ServerAnswers
<1>5. CASE Collect(c)
  <2> DEFINE p == client[c].server
             q == client[c].stmt
             x == ctx[p].tables[q.source]
             r == [client[c] EXCEPT !.pc = "collected", !.copy = x]
  <2>1. /\ client[c].pc = "sent" /\ q.kind = "create" /\ CanCreate(ctx[p], q)
        /\ client' = [client EXCEPT ![c].pc = "collected", ![c].copy = x]
        /\ seen' = seen /\ ctx' = ctx
    BY <1>5 DEF Collect
  <2>2. client' = [client EXCEPT ![c] = r]
    BY <1>0, <2>1
  <2>3. /\ DOMAIN r = DOMAIN NoCall /\ r.pc = "collected" /\ r.result = "" /\ r.stmt = q /\ r.server = p
    BY <1>0, <2>1 DEF CallOK, NoCall
  <2>4. Sql(ctx[p], q) = Ok(<<>>)
    BY <2>1 DEF Sql
  <2>5. /\ p \in Pids /\ proc[p] \in {"serving", "dying"} /\ Sql(ctx[p], q) \in seen[c]
    BY <1>0, <2>1 DEF CallOK
  <2> HIDE DEF r, p, q, x
  <2>6. /\ client'[c] = r /\ \A d \in Clients : d # c => client'[d] = client[d]
    BY <1>0, <2>2
  <2>7. CallOK(c)'
    BY <1>1, <2>1, <2>3, <2>4, <2>5, <2>6 DEF CallOK
  <2> QED BY <1>0, <1>1, <1>u, <2>1, <2>2, <2>6, <2>7 DEF CallsOK
<1>6. CASE RegisterTable(c)
  <2> DEFINE p    == client[c].server
             q    == client[c].stmt
             free == q.name \notin DOMAIN ctx[p].tables
             a    == IF free THEN Ok(<<>>) ELSE Err
             new  == IF free THEN RegisterBatches(ctx[p], q.name, client[c].copy) ELSE ctx[p]
  <2>1. /\ client[c].pc = "collected" /\ Answers(c, a)
        /\ ctx' = [ctx EXCEPT ![p] = new] /\ Observed(c, p)
    BY <1>6 DEF RegisterTable
  <2>2. /\ p \in Pids /\ AtServer(c, p) /\ Sql(ctx[p], q) \in seen[c]
        /\ q.kind = "create" /\ Ok(<<>>) \in seen[c]
    BY <1>0, <2>1 DEF CallOK, AtServer
  <2>3. ~free => Sql(ctx[p], q) = Err
    BY <2>2 DEF Sql, CanCreate
  <2>4. a \in seen[c]
    BY <2>2, <2>3
  <2> HIDE DEF p, q, free, a, new
  <2> QED BY <1>0, <1>1, <2>1, <2>2, <2>4, ServerAnswers
<1>7. CASE Receive(c)
  <2> DEFINE reply == client[c].reply
  <2>1. PICK a \in seen[c] : reply \in Replies(a)
    BY <1>0, <1>7 DEF Receive, CallOK
  <2>2. /\ reply.error = "" => a.ok /\ Decode(reply.ipc) = a.rows
        /\ reply.error # "" => reply.error \in {"query", "encode"}
        /\ reply.error = "query" => ~a.ok
    <3> HIDE DEF reply
    <3> QED BY <2>1, RepliesHonest
  <2>3. /\ UNCHANGED <<proc, ctx>>
        /\ \/ reply.error # "" /\ Over(c, reply.error, <<>>)
           \/ reply.error = "" /\ (Over(c, "rows", Decode(reply.ipc)) \/ Over(c, "decode", <<>>))
    BY <1>7 DEF Receive
  <2> HIDE DEF reply
  <2>4. CASE reply.error # "" /\ Over(c, reply.error, <<>>)
    BY <1>0, <1>1, <2>2, <2>3, <2>4, OverOK
  <2>5. CASE reply.error = "" /\ Over(c, "rows", Decode(reply.ipc))
    BY <1>0, <1>1, <2>2, <2>3, <2>5, OverOK
  <2>6. CASE Over(c, "decode", <<>>)
    BY <1>0, <1>1, <2>3, <2>6, OverOK
  <2> QED BY <2>3, <2>4, <2>5, <2>6
<1>8. CASE Lost(c)
  BY <1>0, <1>1, <1>8, OverOK DEF Lost
<1>9. CASE Return(c)
  <2>1. /\ client' = [client EXCEPT ![c] = NoCall] /\ seen' = [seen EXCEPT ![c] = {}] /\ ctx' = ctx
    BY <1>9 DEF Return
  <2>2. /\ client'[c] = NoCall /\ \A d \in Clients : d # c => client'[d] = client[d] /\ seen'[d] = seen[d]
    BY <1>0, <2>1
  <2>3. NoCall.pc = "idle" /\ NoCall.result = ""
    BY DEF NoCall
  <2>4. CallOK(c)'
    BY <2>2, <2>3 DEF CallOK
  <2> QED BY <1>0, <1>1, <1>u, <2>1, <2>2, <2>4 DEF CallsOK
<1> QED BY <1>1, <1>2, <1>3, <1>4, <1>5, <1>6, <1>7, <1>8, <1>9 DEF ClientStep

--------------------------------------------------------------------------------
\* Nothing runs and no server is up at first.
LEMMA InitInv == Init => Inv
<1> SUFFICES ASSUME Init PROVE Inv
  OBVIOUS
<1>1. Resting \in ScriptRecord /\ Resting.pc = "done"
  BY DEF Resting, ScriptRecord
<1>2. NoCall.pc = "idle" /\ NoCall.result = ""
  BY DEF NoCall
<1>3. Shape
  BY <1>1 DEF Init, Shape, ProcStates
<1>4. HasPid /\ Alone
  BY <1>1 DEF Init, HasPid, Alone, Placement, FreshPid, Running, Server
<1>5. CallsOK
  <2> SUFFICES ASSUME NEW c \in Clients PROVE CallOK(c)
    BY DEF CallsOK
  <2>1. client[c] = NoCall
    BY DEF Init
  <2> QED BY <1>2, <2>1 DEF CallOK
<1> QED BY <1>3, <1>4, <1>5 DEF Inv

\* Processes change under the scripts: a server binds its port, ends by itself
\* or by a signal, and pids pass to other programs.  No server comes up here, and
\* a context is built or lost only where no call is.
LEMMA ProcessesPlaced ==
    ASSUME Inv, NEW p \in Pids, Bind(p) \/ Exit(p) \/ Die(p) \/ Reuse(p)
    PROVE  Inv'
<1>0. Shape /\ HasPid /\ CallsOK /\ Alone
  BY DEF Inv
<1>1. pidfile' = pidfile /\ script' = script /\ overlap' = overlap /\ seen' = seen
  BY DEF Bind, Exit, Die, Reuse, history, calls
<1>2. proc' \in [Pids -> ProcStates] /\ stale' \in BOOLEAN
  BY <1>0 DEF Bind, Exit, Die, Reuse, Ends, Shape, history, ProcStates
<1>3. /\ \A o \in Pids : Server(o)' => Server(o)
      /\ stale => stale'
  BY <1>0 DEF Bind, Exit, Die, Reuse, Ends, Shape, history, Server
<1>4. pidfile # None /\ ~stale' /\ Server(pidfile) => Server(pidfile)'
  BY <1>0 DEF Bind, Exit, Die, Reuse, Ends, Shape, history, Server
<1>5. HasPid' /\ Alone'
  BY <1>0, <1>1, <1>3, <1>4 DEF HasPid, Alone, Placement, FreshPid, Running
<1>6. DOMAIN client' = Clients /\ DOMAIN seen' = Clients /\ DOMAIN ctx' = Pids
  BY <1>0, <1>1 DEF Bind, Exit, Die, Reuse, Ends, Shape, calls
<1>7. ASSUME NEW c \in Clients PROVE CallOK(c)'
  <2>0. CallOK(c)
    BY <1>0 DEF CallsOK
  <2>1. CASE Exit(p) \/ Die(p)
    <3>1. /\ proc' = [proc EXCEPT ![p] = "free"] /\ ctx' = [ctx EXCEPT ![p] = EmptyContext]
          /\ client'[c] = IF AtServer(c, p) THEN [NoCall EXCEPT !.pc = "broken"] ELSE client[c]
      BY <2>1 DEF Exit, Die, Ends
    <3>2. CASE AtServer(c, p)
      <4>1. client'[c] = [NoCall EXCEPT !.pc = "broken", !.result = "", !.rows = <<>>]
        BY <3>1, <3>2 DEF NoCall
      <4>2. "" # "rows" /\ "" # "query"
        OBVIOUS
      <4> QED BY <4>1, <4>2, CallAtRest, Zenon
    <3>3. CASE ~AtServer(c, p)
      <4>1. AtServer(c, client[c].server) =>
               client[c].server # p /\ proc[client[c].server] \in {"serving", "dying"}
        BY <2>0, <3>3 DEF CallOK, AtServer
      <4> QED BY <1>0, <1>1, <2>0, <3>1, <3>3, <4>1, CallKept DEF Shape
    <3> QED BY <3>2, <3>3
  <2>2. CASE Bind(p) \/ Reuse(p)
    <3>1. /\ client' = client /\ proc[p] \notin {"serving", "dying"}
          /\ \A o \in Pids : o # p => proc'[o] = proc[o] /\ ctx'[o] = ctx[o]
      BY <1>0, <2>2 DEF Bind, Reuse, Shape, calls
    <3>2. AtServer(c, client[c].server) =>
             client[c].server # p /\ proc[client[c].server] \in {"serving", "dying"}
      BY <2>0, <3>1 DEF CallOK, AtServer
    <3> QED BY <1>1, <2>0, <3>1, <3>2, CallKept
  <2> QED BY <2>1, <2>2
<1> QED BY <1>0, <1>1, <1>2, <1>5, <1>6, <1>7 DEF Inv, Shape, CallsOK

\* What Step does to the script it names, and to no other.
LEMMA StepEffect ==
    ASSUME script \in [Scripts -> ScriptRecord], NEW s \in Scripts,
           NEW pc \in {"done", "check", "peek", "ping", "remove", "spawn", "record", "probe",
                       "look", "read", "test", "kill", "wait", "unlink"}, Step(s, pc)
    PROVE  /\ script' \in [Scripts -> ScriptRecord]
           /\ script'[s].pc = pc /\ script'[s].pid = script[s].pid
           /\ \A o \in Scripts \ {s} : script'[o] = script[o]
BY DEF Step, ScriptRecord

\* The same for the step that ends the script.
LEMMA EndEffect ==
    ASSUME script \in [Scripts -> ScriptRecord], NEW s \in Scripts, ScriptEnds(s)
    PROVE  /\ script' \in [Scripts -> ScriptRecord]
           /\ script'[s].pc = "done"
           /\ \A o \in Scripts \ {s} : script'[o] = script[o]
<1>1. Resting \in ScriptRecord /\ Resting.pc = "done"
  BY DEF Resting, ScriptRecord
<1> QED BY <1>1 DEF ScriptEnds

\* A pid given to a script.
LEMMA PidEffect ==
    ASSUME script \in [Scripts -> ScriptRecord], NEW s \in Scripts, NEW p \in Pids \cup {None},
           NEW pc \in {"record", "test", "ping", "remove"}, script' = [script EXCEPT ![s].pc = pc, ![s].pid = p]
    PROVE  /\ script' \in [Scripts -> ScriptRecord]
           /\ script'[s].pc = pc /\ script'[s].pid = p
           /\ \A o \in Scripts \ {s} : script'[o] = script[o]
BY DEF ScriptRecord

\* A script that starts is placed: the servers there are, are in the pid file.
LEMMA InvokePlaced ==
    ASSUME Inv, NEW s \in Scripts, NEW pc \in {"check", "look"}, Invoke(s, pc)
    PROVE  Inv'
<1>0. Shape /\ HasPid /\ CallsOK /\ Alone
  BY DEF Inv
<1>1. /\ script' \in [Scripts -> ScriptRecord] /\ script'[s].pc = pc /\ script[s].pc = "done"
      /\ \A o \in Scripts \ {s} : script'[o] = script[o]
  BY <1>0 DEF Invoke, Running, Resting, ScriptRecord, Shape
<1>2. /\ UNCHANGED <<proc, pidfile, client, seen, ctx, stale>>
      /\ overlap' \in BOOLEAN /\ (~overlap' => ~overlap /\ \A o \in Scripts : ~Running(o))
  BY <1>0 DEF Invoke, Shape, calls
<1>3. HasPid'
  BY <1>0, <1>1 DEF HasPid
<1>4. Alone'
  BY <1>0, <1>1, <1>2 DEF Alone, Placement, FreshPid, Running, Server
<1>5. CallsOK'
  BY <1>0, <1>2 DEF CallsOK, CallOK
<1> QED BY <1>0, <1>1, <1>2, <1>3, <1>4, <1>5 DEF Inv, Shape

\* No script takes a context from a call: a signal only begins the end of a server.
LEMMA ScriptsLeaveCalls ==
    ASSUME Inv, NEW s \in Scripts, ScriptStep(s)
    PROVE  /\ UNCHANGED <<client, seen, ctx, overlap>>
           /\ CallsOK'
<1>0. Shape /\ HasPid /\ CallsOK
  BY DEF Inv
<1>1. UNCHANGED <<client, seen, ctx, overlap>>
  BY DEF ScriptStep, StartCheck, StartPeek, StartPing, StartRemove, StartSpawn, StartRecord, StartProbe,
         StopLook, StopRead, StopTest, StopKill, StopWait, StopUnlink, history, calls
<1>2. ASSUME NEW p \in Pids, proc[p] \in {"serving", "dying"} PROVE proc'[p] \in {"serving", "dying"}
  <2>0. proc \in [Pids -> ProcStates] /\ proc[p] # "free"
    BY <1>0, <1>2 DEF Shape
  <2>1. CASE StartSpawn(s)
    BY <1>2, <2>0, <2>1 DEF StartSpawn
  <2>2. CASE StopKill(s)
    BY <1>2, <2>0, <2>2 DEF StopKill, Signal
  <2>3. CASE StopWait(s)
    BY <1>2, <2>0, <2>3 DEF StopWait, Signal
  <2>4. CASE StartCheck(s) \/ StartPeek(s) \/ StartPing(s) \/ StartRemove(s) \/ StartRecord(s) \/ StartProbe(s)
                \/ StopLook(s) \/ StopRead(s) \/ StopTest(s) \/ StopUnlink(s)
    <3>1. proc' = proc
      BY <2>4 DEF StartCheck, StartPeek, StartPing, StartRemove, StartRecord, StartProbe,
                  StopLook, StopRead, StopTest, StopUnlink
    <3> QED BY <1>2, <3>1
  <2> QED BY <2>1, <2>2, <2>3, <2>4 DEF ScriptStep
<1>3. ASSUME NEW c \in Clients PROVE CallOK(c)'
  <2>1. CallOK(c) /\ client'[c] = client[c] /\ seen'[c] = seen[c] /\ ctx' = ctx
    BY <1>0, <1>1 DEF CallsOK
  <2>2. AtServer(c, client[c].server) => proc[client[c].server] \in {"serving", "dying"}
    BY <2>1 DEF CallOK, AtServer
  <2>3. AtServer(c, client[c].server) /\ client[c].server \in Pids => proc'[client[c].server] \in {"serving", "dying"}
    BY <1>2, <2>2
  <2> QED BY <2>1, <2>3, CallKept
<1> QED BY <1>1, <1>3 DEF CallsOK

\* start.sh and stop.sh, step by step.
LEMMA ScriptsPlaced ==
    ASSUME Inv, NEW s \in Scripts, ScriptStep(s)
    PROVE  Inv'
<1>0. Shape /\ HasPid /\ Alone
  BY DEF Inv
<1>s. /\ script \in [Scripts -> ScriptRecord] /\ script[s] \in ScriptRecord
      /\ script[s].pid \in Pids \cup {None}
      /\ proc \in [Pids -> ProcStates]
      /\ pidfile \in Pids \cup {None} /\ overlap \in BOOLEAN /\ stale \in BOOLEAN
  BY <1>0 DEF Shape, ScriptRecord
<1>c. client' = client /\ seen' = seen /\ ctx' = ctx /\ overlap' = overlap /\ CallsOK'
  BY ScriptsLeaveCalls
<1> SUFFICES /\ script' \in [Scripts -> ScriptRecord] /\ HasPid' /\ Alone'
             /\ proc' \in [Pids -> ProcStates]
             /\ pidfile' \in Pids \cup {None} /\ stale' \in BOOLEAN
  BY <1>0, <1>c DEF Inv, Shape
<1>1. CASE StartCheck(s)
  <2>1. proc' = proc /\ pidfile' = pidfile /\ stale' = stale /\ script[s].pc = "check"
    BY <1>1 DEF StartCheck, history
  <2>2. /\ script' \in [Scripts -> ScriptRecord]
        /\ script'[s].pc = IF pidfile = None THEN "remove" ELSE "peek"
        /\ \A o \in Scripts \ {s} : script'[o] = script[o]
    BY <1>s, <1>1, StepEffect DEF StartCheck
  <2>3. HasPid'
    BY <1>0, <2>2 DEF HasPid
  <2>4. ~overlap /\ pidfile = None => \A p \in Pids : ~Server(p)
    BY <1>0, <2>1, NoneAssumption DEF Alone, Placement, Running
  <2>5. Alone'
    BY <1>0, <1>c, <2>1, <2>2, <2>4 DEF Alone, Placement, FreshPid, Running, Server
  <2> QED BY <1>s, <2>1, <2>2, <2>3, <2>5
<1>12. CASE StartPeek(s)
  <2>1. proc' = proc /\ pidfile' = pidfile /\ stale' = stale /\ script[s].pc = "peek"
    BY <1>12 DEF StartPeek, history
  <2>2. CASE pidfile = None
    <3>1. /\ script' \in [Scripts -> ScriptRecord] /\ script'[s].pc = "remove"
          /\ \A o \in Scripts \ {s} : script'[o] = script[o]
      BY <1>s, <1>12, <2>2, StepEffect DEF StartPeek
    <3>2. HasPid'
      BY <1>0, <3>1 DEF HasPid
    <3>3. ~overlap => \A p \in Pids : ~Server(p)
      BY <1>0, <2>1, <2>2, NoneAssumption DEF Alone, Placement, Running
    <3>4. Alone'
      BY <1>0, <1>c, <2>1, <3>1, <3>3 DEF Alone, Placement, FreshPid, Running, Server
    <3> QED BY <1>s, <2>1, <3>1, <3>2, <3>4
  <2>3. CASE pidfile # None
    <3>1. /\ script' \in [Scripts -> ScriptRecord] /\ script'[s].pc = "ping" /\ script'[s].pid = pidfile
          /\ \A o \in Scripts \ {s} : script'[o] = script[o]
      BY <1>s, <1>12, <2>3, PidEffect DEF StartPeek
    <3>2. HasPid'
      BY <1>0, <2>3, <3>1 DEF HasPid
    <3>3. Alone'
      BY <1>0, <1>c, <2>1, <3>1 DEF Alone, Placement, FreshPid, Running, Server
    <3> QED BY <1>s, <2>1, <3>1, <3>2, <3>3
  <2> QED BY <2>2, <2>3
<1>13. CASE StartPing(s)
  <2>1. proc' = proc /\ pidfile' = pidfile /\ stale' = stale /\ script[s].pc = "ping"
    BY <1>13 DEF StartPing, history
  <2>2. CASE Alive(script[s].pid)
    <3>1. /\ script' \in [Scripts -> ScriptRecord] /\ script'[s].pc = "done"
          /\ \A o \in Scripts \ {s} : script'[o] = script[o]
      BY <1>s, <1>13, <2>2, EndEffect DEF StartPing
    <3>2. HasPid'
      BY <1>0, <3>1 DEF HasPid
    <3>3. Alone'
      BY <1>0, <1>c, <2>1, <3>1 DEF Alone, Placement, FreshPid, Running, Server
    <3> QED BY <1>s, <2>1, <3>1, <3>2, <3>3
  <2>3. CASE ~Alive(script[s].pid)
    <3>1. /\ script' \in [Scripts -> ScriptRecord] /\ script'[s].pc = "remove"
          /\ \A o \in Scripts \ {s} : script'[o] = script[o]
      BY <1>s, <1>13, <2>3, PidEffect DEF StartPing
    <3>2. HasPid'
      BY <1>0, <3>1 DEF HasPid
    <3>3. ~overlap => \A p \in Pids : ~Server(p)
      BY <1>0, <2>1, <2>3 DEF Alone, Placement, Running, Server, Alive
    <3>4. Alone'
      BY <1>0, <1>c, <2>1, <3>1, <3>3 DEF Alone, Placement, FreshPid, Running, Server
    <3> QED BY <1>s, <2>1, <3>1, <3>2, <3>4
  <2> QED BY <2>2, <2>3
<1>2. CASE StartRemove(s)
  <2>1. /\ script' \in [Scripts -> ScriptRecord] /\ script'[s].pc = "spawn"
        /\ \A o \in Scripts \ {s} : script'[o] = script[o]
    BY <1>s, <1>2, StepEffect DEF StartRemove
  <2>2. /\ proc' = proc /\ pidfile' = None /\ stale' = FALSE
        /\ script[s].pc = "remove"
    BY <1>2 DEF StartRemove
  <2>3. HasPid'
    BY <1>0, <2>1 DEF HasPid
  <2>4. Alone'
    BY <1>0, <1>c, <2>1, <2>2 DEF Alone, Placement, FreshPid, Running, Server
  <2> QED BY <1>s, <2>1, <2>2, <2>3, <2>4
<1>3. CASE StartSpawn(s)
  <2>1. pidfile' = pidfile /\ stale' = stale /\ script[s].pc = "spawn"
    BY <1>3 DEF StartSpawn, history
  <2>2. CASE ScriptEnds(s) /\ UNCHANGED proc
    <3>1. /\ script' \in [Scripts -> ScriptRecord] /\ script'[s].pc = "done"
          /\ \A o \in Scripts \ {s} : script'[o] = script[o]
      BY <1>s, <2>2, EndEffect
    <3>2. HasPid'
      BY <1>0, <3>1 DEF HasPid
    <3>3. Alone'
      BY <1>0, <1>c, <2>1, <2>2, <3>1 DEF Alone, Placement, FreshPid, Running, Server
    <3> QED BY <1>s, <2>1, <2>2, <3>1, <3>2, <3>3
  <2>3. CASE \E p \in Pids :
               /\ proc[p] = "free" /\ proc' = [proc EXCEPT ![p] = "booting"]
               /\ script' = [script EXCEPT ![s].pc = "record", ![s].pid = p]
    <3>0. PICK p \in Pids :
               /\ proc[p] = "free" /\ proc' = [proc EXCEPT ![p] = "booting"]
               /\ script' = [script EXCEPT ![s].pc = "record", ![s].pid = p]
      BY <2>3
    <3>1. /\ script' \in [Scripts -> ScriptRecord] /\ script'[s].pc = "record" /\ script'[s].pid = p
          /\ \A o \in Scripts \ {s} : script'[o] = script[o]
      BY <1>s, <3>0, PidEffect
    <3>2. HasPid'
      BY <1>0, <3>1, NoneAssumption DEF HasPid
    <3>3. /\ proc' \in [Pids -> ProcStates]
          /\ \A o \in Pids : Server(o)' => Server(o) \/ o = p
      BY <1>s, <3>0 DEF Server, ProcStates
    <3>4. Alone'
      BY <1>0, <1>c, <2>1, <3>1, <3>3 DEF Alone, Placement, FreshPid, Running
    <3> QED BY <1>s, <2>1, <3>1, <3>2, <3>3, <3>4
  <2> QED BY <1>3, <2>2, <2>3 DEF StartSpawn
<1>4. CASE StartRecord(s)
  <2>1. /\ script' \in [Scripts -> ScriptRecord] /\ script'[s].pc = "probe"
        /\ script'[s].pid = script[s].pid
        /\ \A o \in Scripts \ {s} : script'[o] = script[o]
    BY <1>s, <1>4, StepEffect DEF StartRecord
  <2>2. /\ proc' = proc /\ pidfile' = script[s].pid /\ stale' = ~Server(script[s].pid)
        /\ script[s].pc = "record" /\ script[s].pid \in Pids
    BY <1>0, <1>s, <1>4 DEF StartRecord, HasPid
  <2>3. HasPid'
    BY <1>0, <2>1, <2>2, NoneAssumption DEF HasPid
  <2>4. Alone'
    <3>1. ~overlap => \A p \in Pids : Server(p) => p = script[s].pid
      BY <1>0, <2>2, NoneAssumption DEF Alone, Placement, Running
    <3>2. \A p \in Pids : Server(p)' <=> Server(p)
      BY <2>2 DEF Server
    <3>3. FreshPid'
      BY <2>2, <3>2 DEF FreshPid
    <3>4. ~overlap => Placement'
      BY <1>0, <2>1, <2>2, <3>1, <3>2 DEF Alone, Placement, Running
    <3> QED BY <1>c, <3>3, <3>4 DEF Alone
  <2> QED BY <1>s, <2>1, <2>2, <2>3, <2>4
<1>5. CASE StartProbe(s)
  <2>1. ScriptEnds(s)
    BY <1>5 DEF StartProbe
  <2>2. /\ script' \in [Scripts -> ScriptRecord] /\ script'[s].pc = "done"
        /\ \A o \in Scripts \ {s} : script'[o] = script[o]
    BY <1>s, <2>1, EndEffect
  <2>3. /\ proc' = proc /\ script[s].pc = "probe"
        /\ \/ pidfile' = None /\ stale' = FALSE /\ ~Alive(script[s].pid)
           \/ pidfile' = pidfile /\ stale' = stale
    BY <1>5 DEF StartProbe, Dead
  <2>4. HasPid'
    BY <1>0, <2>2 DEF HasPid
  <2>5. Alone'
    BY <1>0, <1>c, <2>2, <2>3 DEF Alone, Placement, FreshPid, Running, Server, Alive
  <2> QED BY <1>s, <2>2, <2>3, <2>4, <2>5
<1>6. CASE StopLook(s)
  <2>1. proc' = proc /\ pidfile' = pidfile /\ stale' = stale /\ script[s].pc = "look"
    BY <1>6 DEF StopLook, history
  <2>2. \/ ScriptEnds(s)
        \/ Step(s, "read")
    BY <1>6 DEF StopLook
  <2>3. /\ script' \in [Scripts -> ScriptRecord] /\ script'[s].pc \in {"done", "read"}
        /\ \A o \in Scripts \ {s} : script'[o] = script[o]
    BY <1>s, <2>2, EndEffect, StepEffect
  <2>4. HasPid'
    BY <1>0, <2>3 DEF HasPid
  <2>5. Alone'
    BY <1>0, <1>c, <2>1, <2>3 DEF Alone, Placement, FreshPid, Running, Server
  <2> QED BY <1>s, <2>1, <2>3, <2>4, <2>5
<1>7. CASE StopRead(s)
  <2>1. proc' = proc /\ pidfile' = pidfile /\ stale' = stale /\ script[s].pc = "read"
    BY <1>7 DEF StopRead, history
  <2>2. CASE pidfile = None
    <3>1. /\ script' \in [Scripts -> ScriptRecord] /\ script'[s].pc = "done"
          /\ \A o \in Scripts \ {s} : script'[o] = script[o]
      BY <1>s, <1>7, <2>2, EndEffect DEF StopRead
    <3>2. HasPid'
      BY <1>0, <3>1 DEF HasPid
    <3>3. Alone'
      BY <1>0, <1>c, <2>1, <3>1 DEF Alone, Placement, FreshPid, Running, Server
    <3> QED BY <1>s, <2>1, <3>1, <3>2, <3>3
  <2>3. CASE pidfile # None
    <3>1. /\ script' \in [Scripts -> ScriptRecord] /\ script'[s].pc = "test" /\ script'[s].pid = pidfile
          /\ \A o \in Scripts \ {s} : script'[o] = script[o]
      BY <1>s, <1>7, <2>3, PidEffect DEF StopRead, ReadPid
    <3>2. HasPid'
      BY <1>0, <2>3, <3>1 DEF HasPid
    <3>3. Alone'
      BY <1>0, <1>c, <2>1, <3>1 DEF Alone, Placement, FreshPid, Running, Server
    <3> QED BY <1>s, <2>1, <3>1, <3>2, <3>3
  <2> QED BY <2>2, <2>3
<1>8. CASE StopTest(s)
  <2>1. proc' = proc /\ pidfile' = pidfile /\ stale' = stale /\ script[s].pc = "test"
    BY <1>8 DEF StopTest, history
  <2>2. /\ script' \in [Scripts -> ScriptRecord]
        /\ script'[s].pc = IF Alive(script[s].pid) THEN "kill" ELSE "unlink"
        /\ script'[s].pid = script[s].pid
        /\ \A o \in Scripts \ {s} : script'[o] = script[o]
    BY <1>s, <1>8, StepEffect DEF StopTest
  <2>3. HasPid'
    BY <1>0, <2>1, <2>2 DEF HasPid
  <2>4. Alone'
    BY <1>0, <1>c, <2>1, <2>2 DEF Alone, Placement, FreshPid, Running, Server, Alive
  <2> QED BY <1>s, <2>1, <2>2, <2>3, <2>4
<1>9. CASE StopKill(s)
  <2>1. pidfile' = pidfile /\ stale' = stale /\ script[s].pc = "kill" /\ script[s].pid \in Pids
    BY <1>0, <1>s, <1>9 DEF StopKill, history, HasPid
  <2>2. CASE Alive(script[s].pid)
    <3>1. /\ script' \in [Scripts -> ScriptRecord] /\ script'[s].pc = "wait"
          /\ script'[s].pid = script[s].pid
          /\ \A o \in Scripts \ {s} : script'[o] = script[o]
      BY <1>s, <1>9, <2>2, StepEffect DEF StopKill
    <3>2. HasPid'
      BY <1>0, <2>1, <3>1 DEF HasPid
    <3>3. /\ proc' \in [Pids -> ProcStates]
          /\ \A p \in Pids : Server(p)' => Server(p) /\ p # script[s].pid
      BY <1>s, <1>9, <2>1, <2>2 DEF StopKill, Signal, Server, ProcStates
    <3>4. Alone'
      BY <1>0, <1>c, <2>1, <3>1, <3>3 DEF Alone, Placement, FreshPid, Running
    <3> QED BY <1>s, <2>1, <3>1, <3>2, <3>3, <3>4
  <2>3. CASE ~Alive(script[s].pid)
    <3>1. /\ script' \in [Scripts -> ScriptRecord] /\ script'[s].pc = "done" /\ proc' = proc
          /\ \A o \in Scripts \ {s} : script'[o] = script[o]
      BY <1>s, <1>9, <2>3, EndEffect DEF StopKill
    <3>2. HasPid'
      BY <1>0, <3>1 DEF HasPid
    <3>3. Alone'
      BY <1>0, <1>c, <2>1, <3>1 DEF Alone, Placement, FreshPid, Running, Server
    <3> QED BY <1>s, <2>1, <3>1, <3>2, <3>3
  <2> QED BY <2>2, <2>3
<1>10. CASE StopWait(s)
  <2>1. pidfile' = pidfile /\ stale' = stale /\ script[s].pc = "wait" /\ script[s].pid \in Pids
    BY <1>0, <1>s, <1>10 DEF StopWait, history, HasPid
  <2>2. /\ script' \in [Scripts -> ScriptRecord] /\ script'[s].pc = "unlink"
        /\ \A o \in Scripts \ {s} : script'[o] = script[o]
    BY <1>s, <1>10, StepEffect DEF StopWait
  <2>3. HasPid'
    BY <1>0, <2>2 DEF HasPid
  <2>4. /\ proc' \in [Pids -> ProcStates]
        /\ \A p \in Pids : Server(p)' => Server(p)
    BY <1>s, <1>10, <2>1 DEF StopWait, Signal, Server, ProcStates
  <2>5. Alone'
    BY <1>0, <1>c, <2>1, <2>2, <2>4 DEF Alone, Placement, FreshPid, Running
  <2> QED BY <1>s, <2>1, <2>2, <2>3, <2>4, <2>5
<1>11. CASE StopUnlink(s)
  <2>1. /\ script' \in [Scripts -> ScriptRecord] /\ script'[s].pc = "done"
        /\ \A o \in Scripts \ {s} : script'[o] = script[o]
    BY <1>s, <1>11, EndEffect DEF StopUnlink
  <2>2. proc' = proc /\ pidfile' = None /\ stale' = FALSE /\ script[s].pc = "unlink"
    BY <1>11 DEF StopUnlink, Unlinked
  <2>3. HasPid'
    BY <1>0, <2>1 DEF HasPid
  <2>4. Alone'
    BY <1>0, <1>c, <2>1, <2>2 DEF Alone, Placement, FreshPid, Running, Server
  <2> QED BY <1>s, <2>1, <2>2, <2>3, <2>4
<1> QED
  BY <1>1, <1>2, <1>3, <1>4, <1>5, <1>6, <1>7, <1>8, <1>9, <1>10, <1>11, <1>12, <1>13 DEF ScriptStep

--------------------------------------------------------------------------------
\* Every step keeps the invariant.
LEMMA NextInv == Inv /\ [Next]_vars => Inv'
<1> SUFFICES ASSUME Inv, [Next]_vars PROVE Inv'
  OBVIOUS
<1>1. ASSUME NEW c \in Clients, ClientStep(c) PROVE Inv'
  BY <1>1, ClientsHonest DEF Inv, Shape, HasPid, Alone, Placement, FreshPid, Running, Server
<1>2. ASSUME NEW p \in Pids, Bind(p) \/ Exit(p) \/ Die(p) \/ Reuse(p) PROVE Inv'
  BY <1>2, ProcessesPlaced
<1>3. ASSUME NEW s \in Scripts, Invoke(s, "check") \/ Invoke(s, "look") \/ ScriptStep(s) PROVE Inv'
  BY <1>3, InvokePlaced, ScriptsPlaced
<1>4. CASE UNCHANGED vars
  <2>1. Shape' /\ HasPid' /\ Alone'
    BY <1>4 DEF vars, history, Inv, Shape, HasPid, Alone, Placement, FreshPid, Running, Server
  <2>2. CallsOK'
    BY <1>4 DEF vars, Inv, CallsOK, CallOK
  <2> QED BY <2>1, <2>2 DEF Inv
<1> QED BY <1>1, <1>2, <1>3, <1>4 DEF Next, ClientStep

\* Hence it always holds.
LEMMA SpecInv == Spec => []Inv
BY InitInv, NextInv, PTL DEF Spec

\* A remote query tells the truth: whatever other clients do to the context, and
\* whatever crashes or is lost between execute and query_remote, rows are what the
\* context gave for the statement at some moment of the call, and a failed query is
\* never rows.
THEOREM Honesty == Spec => []HonestAnswer
<1>1. Inv => HonestAnswer
  BY DEF Inv, CallsOK, CallOK, HonestAnswer
<1> QED BY <1>1, SpecInv, PTL

\* start.sh and stop.sh, run one at a time, never lose a server.
THEOREM NothingOrphaned == Spec => []NoOrphan
<1>1. Inv => NoOrphan
  <2> SUFFICES ASSUME Inv PROVE NoOrphan
    OBVIOUS
  <2>1. TypeOK
    BY DEF Inv, Shape, HasPid, TypeOK, ScriptRecord, ProcStates, CallsOK, CallOK
  <2>2. ~overlap /\ (\A s \in Scripts : ~Running(s)) => \A p \in Pids : Server(p) => pidfile = p
    BY DEF Inv, Alone, Placement, Running
  <2> QED BY <2>1, <2>2 DEF NoOrphan
<1> QED BY <1>1, SpecInv, PTL

\* A script's record changes only by its own step.
LEMMA OwnStep ==
    ASSUME Inv, [Next]_vars, NEW s \in Scripts, script'[s].pc # script[s].pc
    PROVE  ScriptStep(s) \/ Invoke(s, "check") \/ Invoke(s, "look")
<1>0. script \in [Scripts -> ScriptRecord] /\ pidfile \in Pids \cup {None}
  BY DEF Inv, Shape
<1>1. ASSUME NEW o \in Scripts, o # s, ScriptStep(o) \/ Invoke(o, "check") \/ Invoke(o, "look")
      PROVE  script'[s] = script[s]
  <2>1. \/ script' = [script EXCEPT ![o] = [Resting EXCEPT !.pc = "check"]]
        \/ script' = [script EXCEPT ![o] = [Resting EXCEPT !.pc = "look"]]
        \/ \E pc \in {"peek", "remove", "spawn", "probe", "read", "kill", "wait", "unlink"} : Step(o, pc)
        \/ ScriptEnds(o)
        \/ \E pc \in {"ping", "remove", "record", "test"}, p \in Pids \cup {None} :
              script' = [script EXCEPT ![o].pc = pc, ![o].pid = p]
    <3>1. CASE Invoke(o, "check") \/ Invoke(o, "look")
      BY <3>1 DEF Invoke
    <3>2. CASE StartCheck(o) \/ StartRemove(o) \/ StartRecord(o) \/ StartProbe(o)
      BY <3>2 DEF StartCheck, StartRemove, StartRecord, StartProbe
    <3>3. CASE StartSpawn(o)
      BY <3>3 DEF StartSpawn
    <3>4. CASE StopLook(o) \/ StopTest(o) \/ StopKill(o) \/ StopWait(o) \/ StopUnlink(o)
      BY <3>4 DEF StopLook, StopTest, StopKill, StopWait, StopUnlink
    <3>5. CASE StopRead(o)
      BY <1>0, <3>5 DEF StopRead, ReadPid
    <3>6. CASE StartPeek(o)
      BY <1>0, <3>6 DEF StartPeek
    <3>7. CASE StartPing(o)
      BY <3>7 DEF StartPing
    <3> QED BY <1>1, <3>1, <3>2, <3>3, <3>4, <3>5, <3>6, <3>7 DEF ScriptStep
  <2> QED BY <1>0, <1>1, <2>1 DEF Step, ScriptEnds
<1>2. CASE \E c \in Clients : ClientStep(c)
  BY <1>2, ClientsHonest
<1>3. CASE \E p \in Pids : Bind(p) \/ Exit(p) \/ Die(p) \/ Reuse(p)
  BY <1>3 DEF Bind, Exit, Die, Reuse
<1>4. CASE UNCHANGED vars
  BY <1>4 DEF vars
<1> QED BY <1>1, <1>2, <1>3, <1>4 DEF Next, ClientStep

\* A stop.sh that ran alone and exits with 0 leaves no server and no pid file.
THEOREM StoppingStops == Spec => StopStops
<1>1. ASSUME Inv, [Next]_vars, NEW s \in Scripts, ~overlap,
             script[s].pc \in {"look", "unlink"}, script'[s].pc = "done"
      PROVE  pidfile' = None /\ \A p \in Pids : ~Server(p)'
  <2>0. Shape /\ Placement /\ script \in [Scripts -> ScriptRecord]
    BY <1>1 DEF Inv, Alone, Shape
  <2>1. StopLook(s) \/ StopUnlink(s)
    BY <1>1, OwnStep DEF ScriptStep, Invoke, Running, StartCheck, StartPeek, StartPing, StartRemove,
       StartSpawn, StartRecord, StartProbe, StopRead, StopTest, StopKill, StopWait
  <2>2. CASE StopLook(s)
    <3>1. pidfile = None
      <4>1. SUFFICES ASSUME pidfile # None PROVE FALSE
        OBVIOUS
      <4>2. Step(s, "read")
        BY <2>2, <4>1 DEF StopLook
      <4> QED BY <1>1, <2>0, <4>2, StepEffect
    <3>2. \A p \in Pids : ~Server(p)
      BY <1>1, <2>0, <2>2, <3>1, NoneAssumption DEF Placement, Running, StopLook
    <3> QED BY <2>2, <3>1, <3>2 DEF StopLook, Server
  <2>3. CASE StopUnlink(s)
    BY <2>0, <2>3 DEF StopUnlink, Unlinked, Placement, Server
  <2> QED BY <2>1, <2>2, <2>3
<1>2. Inv /\ [Next]_vars =>
         [\A s \in Scripts :
            script[s].pc \in {"look", "unlink"} /\ script'[s].pc = "done" /\ ~overlap =>
               pidfile' = None /\ \A p \in Pids : ~Server(p)']_vars
  BY <1>1
<1> QED BY <1>2, SpecInv, PTL DEF Spec, StopStops

\* stop.sh, alone, signals another program only in the place of a server that
\* ended unasked.
THEOREM OthersSafe == Spec => OthersAreSafe
<1>1. ASSUME Inv, NEW s \in Scripts, ~overlap, script[s].pc = "kill", proc[script[s].pid] = "other"
      PROVE  stale
  <2>1. pidfile = script[s].pid /\ pidfile # None /\ ~Server(pidfile)
    BY <1>1 DEF Inv, Alone, Placement, HasPid, Server
  <2>2. \A o \in Scripts : script[o].pc \notin {"wait", "unlink"}
    BY <1>1 DEF Inv, Alone, Placement, Running
  <2> QED BY <1>1, <2>1, <2>2 DEF Inv, Alone, FreshPid
<1>2. Inv /\ [Next]_vars =>
         [\A s \in Scripts :
            script[s].pc = "kill" /\ script'[s].pc = "wait" /\ proc[script[s].pid] = "other"
               /\ ~overlap => stale]_vars
  BY <1>1
<1> QED BY <1>2, SpecInv, PTL DEF Spec, OthersAreSafe
================================================================================
