---------------------------- MODULE SharedConnection ----------------------------
(***************************************************************************)
(* The one SQLite connection every thread of the server shares (db.cc,     *)
(* db.h).  Drogon runs one event loop per core and every handler runs      *)
(* synchronously on one of them, so several handlers execute at once, and  *)
(* all of them prepare their statements on the same handle.  The handle is *)
(* opened SQLITE_OPEN_FULLMUTEX: one statement is atomic.  Nothing wider   *)
(* is.  A transaction belongs to the connection, not to the thread that    *)
(* opened it, hence                                                        *)
(*   - a statement another thread runs meanwhile is part of the open       *)
(*     transaction and goes with its ROLLBACK;                             *)
(*   - BEGIN IMMEDIATE while a transaction is open fails, whoever opened   *)
(*     it, and Transaction's constructor throws;                           *)
(*   - changes() tells of the last write on the connection, anybody's.     *)
(* db is what a statement reads and writes, durable what a restart finds.  *)
(***************************************************************************)
CONSTANT NoOwner      \* no transaction is open

VARIABLES
    db,        \* the tables as the connection sees them
    durable,   \* the tables as last committed
    owner,     \* the thread whose Transaction object is alive, or NoOwner
    chg        \* changes() > 0: the last write on the connection hit a row

conn == <<db, durable, owner, chg>>

\* A SELECT, or no statement at all.
Query == UNCHANGED conn

\* An INSERT, UPDATE or DELETE that makes the tables d; touched says whether
\* it hit a row.  Outside a transaction it commits by itself.
Execute(d, touched) ==
    /\ db' = d
    /\ chg' = touched
    /\ durable' = IF owner = NoOwner THEN d ELSE durable
    /\ UNCHANGED owner

\* Transaction tx{db}: BEGIN IMMEDIATE.
Begin(t) ==
    /\ owner = NoOwner
    /\ owner' = t
    /\ UNCHANGED <<db, durable, chg>>

\* BEGIN inside somebody's transaction is an error; the constructor throws.
BeginFails ==
    /\ owner # NoOwner
    /\ Query

\* tx.commit()
Commit(t) ==
    /\ owner = t
    /\ owner' = NoOwner
    /\ durable' = db
    /\ UNCHANGED <<db, chg>>

\* ~Transaction without commit(): everything since BEGIN is undone, the
\* statements of other threads included.
Rollback(t) ==
    /\ owner = t
    /\ owner' = NoOwner
    /\ db' = durable
    /\ UNCHANGED <<durable, chg>>

\* The process dies and starts again: SQLite recovers what was committed.
Reopen ==
    /\ owner' = NoOwner
    /\ db' = durable
    /\ chg' = FALSE
    /\ UNCHANGED durable

=============================================================================
