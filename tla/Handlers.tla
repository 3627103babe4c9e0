-------------------------------- MODULE Handlers --------------------------------
(***************************************************************************)
(* Request handlers on the shared connection.  Drogon runs each handler    *)
(* synchronously on one event loop (a worker); guarded() turns what it     *)
(* throws into a response.  A handler is a path through pc[t], one SQL     *)
(* statement to a step; what it has read so far is arg[t].  A path that    *)
(* only reads, or is refused before its first write, changes nothing and   *)
(* is left out, unless another thread could tell.                          *)
(***************************************************************************)
EXTENDS SharedConnection

CONSTANTS
    Workers,    \* event loops that run request handlers
    NoArg       \* what an idle worker holds

ASSUME WorkersApart == NoOwner \notin Workers

VARIABLES pc, arg

server == <<conn, pc, arg>>

At(t, l)       == pc[t] = l
Idle(t)        == At(t, "idle")
Goto(t, l)     == pc' = [pc EXCEPT ![t] = l] /\ UNCHANGED arg
Enter(t, l, a) == pc' = [pc EXCEPT ![t] = l] /\ arg' = [arg EXCEPT ![t] = a]
\* The response is sent, or an exception became a 4xx or a 500.
Return(t)      == Enter(t, "idle", NoArg)

\* A request arrives; the SELECTs it starts with leave it holding a.
Load(t, l, a) == Idle(t) /\ Query /\ Enter(t, l, a)

\* A request that is one write statement.
Request(t, d, touched) == Idle(t) /\ Execute(d, touched) /\ UNCHANGED <<pc, arg>>

\* The step from l to m that is one write statement, and the handler's last.
Statement(t, l, m, d, touched) == At(t, l) /\ Execute(d, touched) /\ Goto(t, m)
Finish(t, l, d, touched)       == At(t, l) /\ Execute(d, touched) /\ Return(t)

\* Transaction tx{db}, tx.commit(), and ~Transaction after an exception.
BeginAt(t, l, m)  == At(t, l) /\ Begin(t) /\ Goto(t, m)
BeginRefused(t)   == BeginFails /\ Return(t)
CommitAt(t, l)    == At(t, l) /\ Commit(t) /\ Return(t)
Throw(t, l)       == At(t, l) /\ Rollback(t) /\ Return(t)

HandlersInit(tables) ==
    /\ db = tables /\ durable = tables /\ owner = NoOwner /\ chg = FALSE
    /\ pc = [t \in Workers |-> "idle"]
    /\ arg = [t \in Workers |-> NoArg]

\* The process dies at any point and is restarted.
Restart ==
    /\ Reopen
    /\ pc' = [t \in Workers |-> "idle"]
    /\ arg' = [t \in Workers |-> NoArg]

\* t's requests and steps overlap with nobody's.
Alone(t) == \A v \in Workers \ {t} : Idle(v)

\* No transaction is open: what a reader of the tables may rely on.
Settled == owner = NoOwner

=============================================================================
