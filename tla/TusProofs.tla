------------------------------- MODULE TusProofs -------------------------------
(***************************************************************************)
(* What holds of Tus for any number of event loops and any upload length,  *)
(* through crashes and power cuts.                                         *)
(***************************************************************************)
EXTENDS Tus, TLAPS

\* What a request that is past its checks has ensured so far: every chunk
\* below its own starting offset is synced, and once it has synced its own,
\* every chunk below its end is.
Received(t) ==
    /\ pc[t] \in {"write", "sync", "offset"} =>
           from[t] + len[t] <= Total /\ Prefix(from[t]) \subseteq synced
    /\ pc[t] = "sync" => Prefix(from[t] + len[t]) \subseteq written
    /\ pc[t] = "offset" => Prefix(from[t] + len[t]) \subseteq synced
    /\ pc[t] \in {"hash", "move"} => synced = Chunks

Inv ==
    /\ TypeOK
    /\ synced \subseteq written
    /\ OffsetDurable
    /\ BlobWhole
    /\ \A t \in Threads : Received(t)

LEMMA Chunked ==
    /\ \A n \in 0 .. Total : Prefix(n) \subseteq Chunks
    /\ Prefix(0) = {} /\ Prefix(Total) = Chunks
BY LengthPositive DEF Prefix, Chunks

LEMMA InitInv == Init => Inv
<1> SUFFICES ASSUME Init PROVE Inv
  OBVIOUS
<1>1. 0 \in 0 .. Total
  BY LengthPositive
<1>2. TypeOK
  <2>1. [state |-> "none", offset |-> 0] \in Rows
    BY <1>1 DEF Rows
  <2> QED
    BY <1>1, <2>1 DEF Init, TypeOK, Labels, Places
<1>3. OffsetDurable
  BY Chunked DEF Init, OffsetDurable
<1> QED
  BY <1>2, <1>3 DEF Init, Inv, BlobWhole, Received

-----------------------------------------------------------------------------
(* The connection *)

\* Every row the database holds, or may come back with, is backed by the disk.
Rowful == db \in Rows /\ durable \in Rows /\ wal \subseteq Rows
          /\ owner \in Threads \union {NoOwner} /\ chg \in BOOLEAN

LEMMA ConnStep ==
    ASSUME Inv, NEW d \in Rows, Prefix(d.offset) \subseteq synced', synced \subseteq synced',
           db' \in {db, durable, d}, durable' \in {db, durable, d},
           owner' \in Threads \union {NoOwner}, chg' \in BOOLEAN, Logged
    PROVE  Rowful' /\ OffsetDurable'
BY DEF Inv, TypeOK, Rowful, OffsetDurable, Logged

LEMMA QuietConn ==
    ASSUME Inv, synced \subseteq synced', Query, Logged PROVE Rowful' /\ OffsetDurable'
BY DEF Inv, TypeOK, Rowful, OffsetDurable, Logged, Query, conn

-----------------------------------------------------------------------------
(* The threads *)

\* t moves to l with the chunk (o, n); the disk only gains.
LEMMA ReceiveStep ==
    ASSUME Inv, NEW t \in Threads, NEW l \in Labels, NEW o \in 0 .. Total, NEW n \in 0 .. Total,
           Receive(t, l, o, n), synced \subseteq synced', written \subseteq written',
           synced' \subseteq Chunks,
           l \in {"write", "sync", "offset"} => o + n <= Total /\ Prefix(o) \subseteq synced',
           l = "sync" => Prefix(o + n) \subseteq written',
           l = "offset" => Prefix(o + n) \subseteq synced',
           l \in {"hash", "move"} => synced' = Chunks
    PROVE  /\ pc' \in [Threads -> Labels]
           /\ from' \in [Threads -> 0 .. Total] /\ len' \in [Threads -> 0 .. Total]
           /\ \A v \in Threads : Received(v)'
<1>1. /\ pc' \in [Threads -> Labels]
      /\ from' \in [Threads -> 0 .. Total] /\ len' \in [Threads -> 0 .. Total]
  BY DEF Inv, TypeOK, Receive
<1>2. pc'[t] = l /\ from'[t] = o /\ len'[t] = n
  BY DEF Inv, TypeOK, Receive
<1>3. ASSUME NEW v \in Threads, v # t
      PROVE  pc'[v] = pc[v] /\ from'[v] = from[v] /\ len'[v] = len[v] /\ Received(v)
  BY <1>3 DEF Inv, TypeOK, Receive
<1>4. ASSUME NEW v \in Threads PROVE Received(v)'
  <2>1. CASE v = t
    BY <1>2, <2>1 DEF Received
  <2>2. CASE v # t
    BY <1>3, <2>2 DEF Received
  <2> QED
    BY <2>1, <2>2
<1> QED
  BY <1>1, <1>4

LEMMA ReturnStep ==
    ASSUME Inv, NEW t \in Threads, Return(t), synced \subseteq synced', written \subseteq written',
           synced' \subseteq Chunks
    PROVE  /\ pc' \in [Threads -> Labels]
           /\ from' \in [Threads -> 0 .. Total] /\ len' \in [Threads -> 0 .. Total]
           /\ \A v \in Threads : Received(v)'
BY ReceiveStep, LengthPositive DEF Return, Labels

\* The parts together: the connection, the threads, and the file.
LEMMA Parts ==
    ASSUME Rowful', OffsetDurable',
           pc' \in [Threads -> Labels],
           from' \in [Threads -> 0 .. Total], len' \in [Threads -> 0 .. Total],
           \A v \in Threads : Received(v)',
           loc' \in Places, written' \subseteq Chunks, synced' \subseteq written', BlobWhole'
    PROVE  Inv'
BY DEF Inv, TypeOK, Rowful

-----------------------------------------------------------------------------
(* The steps *)

LEMMA CreationInv ==
    ASSUME Inv, NEW t \in Threads, CreateFile(t) \/ CreateRow(t), Logged PROVE Inv'
<1> 0 \in 0 .. Total /\ Prefix(0) = {} /\ synced \subseteq Chunks /\ written \subseteq Chunks
  BY LengthPositive, Chunked DEF Inv, TypeOK
<1>1. CASE CreateFile(t)
  <2>1. from[t] \in 0 .. Total /\ len[t] \in 0 .. Total
    BY DEF Inv, TypeOK
  <2>2. Rowful' /\ OffsetDurable'
    BY <1>1, QuietConn DEF CreateFile
  <2>3. /\ pc' \in [Threads -> Labels]
        /\ from' \in [Threads -> 0 .. Total] /\ len' \in [Threads -> 0 .. Total]
        /\ \A v \in Threads : Received(v)'
    BY <1>1, <2>1, ReceiveStep DEF CreateFile, Goto, Labels
  <2> QED
    BY <1>1, <2>2, <2>3, Parts DEF CreateFile, Inv, BlobWhole, Places
<1>2. CASE CreateRow(t)
  <2> DEFINE d == [state |-> "open", offset |-> 0]
  <2>1. d \in Rows /\ Prefix(d.offset) \subseteq synced'
    BY DEF Rows
  <2>2. Rowful' /\ OffsetDurable'
    <3>1. /\ db' = d /\ durable' \in {durable, d} /\ owner' = owner /\ chg' \in BOOLEAN
          /\ synced' = synced
      BY <1>2 DEF CreateRow, Execute, file
    <3> QED
      BY <2>1, <3>1, ConnStep DEF Inv, TypeOK
  <2>3. /\ pc' \in [Threads -> Labels]
        /\ from' \in [Threads -> 0 .. Total] /\ len' \in [Threads -> 0 .. Total]
        /\ \A v \in Threads : Received(v)'
    BY <1>2, ReturnStep DEF CreateRow, file
  <2> QED
    BY <1>2, <2>2, <2>3, Parts DEF CreateRow, file, Inv, TypeOK, BlobWhole
<1> QED
  BY <1>1, <1>2

\* From the offset check to the fsync.
LEMMA WriteInv ==
    ASSUME Inv, NEW t \in Threads,
           \/ \E o, n \in 0 .. Total : PatchLoad(t, o, n)
           \/ PatchWrite(t) \/ WriteFails(t) \/ PatchSync(t) \/ SyncFails(t),
           Logged
    PROVE  Inv'
<1> /\ from[t] \in 0 .. Total /\ len[t] \in 0 .. Total /\ db.offset \in 0 .. Total
    /\ synced \subseteq written /\ written \subseteq Chunks /\ Total \in Nat
    /\ Received(t) /\ loc \in Places /\ Prefix(db.offset) \subseteq synced
  BY LengthPositive DEF Inv, TypeOK, Rows, OffsetDurable
<1>1. ASSUME NEW o \in 0 .. Total, NEW n \in 0 .. Total, PatchLoad(t, o, n) PROVE Inv'
  <2>1. Rowful' /\ OffsetDurable'
    BY <1>1, QuietConn DEF PatchLoad, file
  <2>2. /\ pc' \in [Threads -> Labels]
        /\ from' \in [Threads -> 0 .. Total] /\ len' \in [Threads -> 0 .. Total]
        /\ \A v \in Threads : Received(v)'
    BY <1>1, ReceiveStep DEF PatchLoad, file, Labels
  <2> QED
    BY <1>1, <2>1, <2>2, Parts DEF PatchLoad, file, Inv, BlobWhole
<1>2. CASE PatchWrite(t)
  <2>1. Rowful' /\ OffsetDurable'
    BY <1>2, QuietConn DEF PatchWrite
  <2>2. Prefix(from[t] + len[t]) \subseteq written' /\ written \subseteq written' /\ written' \subseteq Chunks
    <3>1. written' = written \union {i \in Chunks : from[t] <= i /\ i < from[t] + len[t]}
      BY <1>2 DEF PatchWrite, Pwrite
    <3>2. Prefix(from[t]) \subseteq written
      BY <1>2 DEF PatchWrite, At, Received
    <3>3. ASSUME NEW i \in Prefix(from[t] + len[t]) PROVE i \in written'
      <4>1. i \in Chunks /\ i \in Nat /\ i < from[t] + len[t]
        BY DEF Prefix, Chunks
      <4> QED
        BY <3>1, <3>2, <4>1 DEF Prefix
    <3> QED
      BY <3>1, <3>3
  <2>3. /\ pc' \in [Threads -> Labels]
        /\ from' \in [Threads -> 0 .. Total] /\ len' \in [Threads -> 0 .. Total]
        /\ \A v \in Threads : Received(v)'
    BY <1>2, <2>2, ReceiveStep DEF PatchWrite, Received, At, Goto, Labels
  <2> QED
    BY <1>2, <2>1, <2>2, <2>3, Parts DEF PatchWrite, Inv, BlobWhole
<1>3. CASE WriteFails(t)
  <2>1. Rowful' /\ OffsetDurable'
    BY <1>3, QuietConn DEF WriteFails
  <2>2. written \subseteq written' /\ written' \subseteq Chunks
    BY <1>3 DEF WriteFails, Pwrite, Chunks
  <2>3. /\ pc' \in [Threads -> Labels]
        /\ from' \in [Threads -> 0 .. Total] /\ len' \in [Threads -> 0 .. Total]
        /\ \A v \in Threads : Received(v)'
    BY <1>3, <2>2, ReturnStep DEF WriteFails
  <2> QED
    BY <1>3, <2>1, <2>2, <2>3, Parts DEF WriteFails, Inv, BlobWhole
<1>4. CASE PatchSync(t)
  <2>1. Rowful' /\ OffsetDurable'
    BY <1>4, QuietConn DEF PatchSync
  <2>2. /\ pc' \in [Threads -> Labels]
        /\ from' \in [Threads -> 0 .. Total] /\ len' \in [Threads -> 0 .. Total]
        /\ \A v \in Threads : Received(v)'
    BY <1>4, ReceiveStep DEF PatchSync, Received, At, Goto, Labels
  <2> QED
    BY <1>4, <2>1, <2>2, Parts DEF PatchSync, Inv, BlobWhole
<1>5. CASE SyncFails(t)
  <2>1. Rowful' /\ OffsetDurable'
    BY <1>5, QuietConn DEF SyncFails, file
  <2>2. /\ pc' \in [Threads -> Labels]
        /\ from' \in [Threads -> 0 .. Total] /\ len' \in [Threads -> 0 .. Total]
        /\ \A v \in Threads : Received(v)'
    BY <1>5, ReturnStep DEF SyncFails, file
  <2> QED
    BY <1>5, <2>1, <2>2, Parts DEF SyncFails, file, Inv, BlobWhole
<1> QED
  BY <1>1, <1>2, <1>3, <1>4, <1>5

\* Recording the offset, and promoting the file.
LEMMA PromoteInv ==
    ASSUME Inv, NEW t \in Threads,
           PatchOffset(t) \/ PromoteHash(t) \/ PromoteMove(t) \/ PromoteComplete(t), Logged
    PROVE  Inv'
<1> /\ from[t] \in 0 .. Total /\ len[t] \in 0 .. Total /\ db \in Rows /\ durable \in Rows
    /\ synced \subseteq written /\ written \subseteq Chunks /\ Total \in Nat
    /\ Received(t) /\ loc \in Places
  BY LengthPositive DEF Inv, TypeOK
<1>1. CASE PatchOffset(t)
  <2> DEFINE newOffset == from[t] + len[t]
             d == IF db.state = "none" THEN db ELSE [db EXCEPT !.offset = newOffset]
  <2>1. newOffset \in 0 .. Total /\ Prefix(newOffset) \subseteq synced
    BY <1>1 DEF PatchOffset, At, Received
  <2>2. d \in Rows /\ Prefix(d.offset) \subseteq synced
    BY <2>1 DEF Rows, Inv, OffsetDurable
  <2>3. Rowful' /\ OffsetDurable'
    <3>1. /\ db' = d /\ durable' \in {durable, d} /\ owner' = owner /\ chg' \in BOOLEAN
          /\ synced' = synced
      BY <1>1 DEF PatchOffset, OnRow, Execute, file
    <3> QED
      BY <2>2, <3>1, ConnStep DEF Inv, TypeOK
  <2>4. newOffset = Total => synced = Chunks
    BY <2>1, Chunked
  <2>5. /\ pc' \in [Threads -> Labels]
        /\ from' \in [Threads -> 0 .. Total] /\ len' \in [Threads -> 0 .. Total]
        /\ \A v \in Threads : Received(v)'
    <3>1. CASE newOffset = Total
      BY <1>1, <2>4, <3>1, ReceiveStep DEF PatchOffset, Goto, file, Labels
    <3>2. CASE newOffset # Total
      BY <1>1, <3>2, ReturnStep DEF PatchOffset, file
    <3> QED
      BY <3>1, <3>2
  <2> QED
    BY <1>1, <2>3, <2>5, Parts DEF PatchOffset, file, Inv, BlobWhole
<1>2. CASE PromoteHash(t)
  <2>1. Rowful' /\ OffsetDurable'
    BY <1>2, QuietConn DEF PromoteHash, file
  <2>2. /\ pc' \in [Threads -> Labels]
        /\ from' \in [Threads -> 0 .. Total] /\ len' \in [Threads -> 0 .. Total]
        /\ \A v \in Threads : Received(v)'
    <3>1. CASE Return(t)
      BY <1>2, <3>1, ReturnStep DEF PromoteHash, file
    <3>2. CASE Goto(t, "move")
      BY <1>2, <3>2, ReceiveStep DEF PromoteHash, At, Received, Goto, file, Labels
    <3> QED
      BY <1>2, <3>1, <3>2 DEF PromoteHash
  <2> QED
    BY <1>2, <2>1, <2>2, Parts DEF PromoteHash, file, Inv, BlobWhole
<1>3. CASE PromoteMove(t)
  <2>1. Rowful' /\ OffsetDurable'
    BY <1>3, QuietConn DEF PromoteMove
  <2>2. /\ pc' \in [Threads -> Labels]
        /\ from' \in [Threads -> 0 .. Total] /\ len' \in [Threads -> 0 .. Total]
        /\ \A v \in Threads : Received(v)'
    <3>1. CASE Return(t)
      BY <1>3, <3>1, ReturnStep DEF PromoteMove
    <3>2. CASE Goto(t, "complete")
      BY <1>3, <3>2, ReceiveStep DEF PromoteMove, Goto, Labels
    <3> QED
      BY <1>3, <3>1, <3>2 DEF PromoteMove
  <2>3. synced = Chunks /\ loc' \in Places
    BY <1>3 DEF PromoteMove, At, Received, Places
  <2> QED
    BY <1>3, <2>1, <2>2, <2>3, Parts DEF PromoteMove, BlobWhole
<1>4. CASE PromoteComplete(t)
  <2> DEFINE d == IF db.state = "none" THEN db ELSE [db EXCEPT !.state = "done"]
  <2>1. d \in Rows /\ Prefix(d.offset) \subseteq synced
    BY DEF Rows, Inv, OffsetDurable
  <2>2. Rowful' /\ OffsetDurable'
    <3>1. CASE Query
      BY <1>4, <3>1, QuietConn DEF PromoteComplete, file
    <3>2. CASE Execute(d, db.state # "none")
      <4>1. /\ db' = d /\ durable' \in {durable, d} /\ owner' = owner /\ chg' \in BOOLEAN
            /\ synced' = synced
        BY <1>4, <3>2 DEF PromoteComplete, Execute, file
      <4> QED
        BY <2>1, <4>1, ConnStep DEF Inv, TypeOK
    <3> QED
      BY <1>4, <3>1, <3>2 DEF PromoteComplete, OnRow
  <2>3. /\ pc' \in [Threads -> Labels]
        /\ from' \in [Threads -> 0 .. Total] /\ len' \in [Threads -> 0 .. Total]
        /\ \A v \in Threads : Received(v)'
    BY <1>4, ReturnStep DEF PromoteComplete, file
  <2> QED
    BY <1>4, <2>2, <2>3, Parts DEF PromoteComplete, file, Inv, BlobWhole
<1> QED
  BY <1>1, <1>2, <1>3, <1>4

\* DELETE, expiry, the stray sweep, and other handlers' transactions.
LEMMA DeleteInv ==
    ASSUME Inv, NEW t \in Threads,
           \/ DeleteRow(t) \/ DeleteFile(t) \/ StrayRemove(t)
           \/ OtherBegin(t) \/ OtherCommit(t) \/ OtherThrow(t),
           Logged
    PROVE  Inv'
<1> /\ from[t] \in 0 .. Total /\ len[t] \in 0 .. Total /\ db \in Rows /\ durable \in Rows
    /\ synced \subseteq written /\ written \subseteq Chunks /\ loc \in Places
  BY DEF Inv, TypeOK
<1>1. CASE DeleteRow(t)
  <2> DEFINE d == IF db.state = "none" THEN db ELSE [db EXCEPT !.state = "none"]
  <2>1. d \in Rows /\ Prefix(d.offset) \subseteq synced
    BY DEF Rows, Inv, OffsetDurable
  <2>2. Rowful' /\ OffsetDurable'
    <3>1. /\ db' = d /\ durable' \in {durable, d} /\ owner' = owner /\ chg' \in BOOLEAN
          /\ synced' = synced
      BY <1>1 DEF DeleteRow, OnRow, Execute, file
    <3> QED
      BY <2>1, <3>1, ConnStep DEF Inv, TypeOK
  <2>3. /\ pc' \in [Threads -> Labels]
        /\ from' \in [Threads -> 0 .. Total] /\ len' \in [Threads -> 0 .. Total]
        /\ \A v \in Threads : Received(v)'
    BY <1>1, ReceiveStep DEF DeleteRow, Goto, file, Labels
  <2> QED
    BY <1>1, <2>2, <2>3, Parts DEF DeleteRow, file, Inv, BlobWhole
<1>2. CASE DeleteFile(t)
  <2>1. Rowful' /\ OffsetDurable'
    BY <1>2, QuietConn DEF DeleteFile
  <2>2. /\ pc' \in [Threads -> Labels]
        /\ from' \in [Threads -> 0 .. Total] /\ len' \in [Threads -> 0 .. Total]
        /\ \A v \in Threads : Received(v)'
    BY <1>2, ReturnStep DEF DeleteFile
  <2> QED
    BY <1>2, <2>1, <2>2, Parts DEF DeleteFile, Inv, BlobWhole, Places
<1>3. CASE StrayRemove(t)
  <2>1. Rowful' /\ OffsetDurable'
    BY <1>3, QuietConn DEF StrayRemove
  <2> QED
    BY <1>3, <2>1, Parts DEF StrayRemove, Inv, TypeOK, Received, BlobWhole, Places
\* BEGIN, COMMIT and ROLLBACK move the connection between rows it had.
<1>4. ASSUME \/ Begin(t) /\ Goto(t, "other")
             \/ Commit(t) /\ Return(t)
             \/ Rollback(t) /\ Return(t),
             UNCHANGED file
      PROVE  Inv'
  <2>1. Rowful' /\ OffsetDurable'
    BY <1>4 DEF Begin, Commit, Rollback, file, Inv, TypeOK, Rowful, OffsetDurable, Logged
  <2>2. /\ pc' \in [Threads -> Labels]
        /\ from' \in [Threads -> 0 .. Total] /\ len' \in [Threads -> 0 .. Total]
        /\ \A v \in Threads : Received(v)'
    <3>1. CASE Return(t)
      BY <1>4, <3>1, ReturnStep DEF file
    <3>2. CASE Goto(t, "other")
      BY <1>4, <3>2, ReceiveStep DEF Goto, file, Labels
    <3> QED
      BY <1>4, <3>1, <3>2
  <2> QED
    BY <1>4, <2>1, <2>2, Parts DEF file, Inv, BlobWhole
<1> QED
  BY <1>1, <1>2, <1>3, <1>4 DEF OtherBegin, OtherCommit, OtherThrow

LEMMA WorldInv ==
    ASSUME Inv, (Crash /\ Logged) \/ PowerCut \/ Checkpoint PROVE Inv'
<1> synced \subseteq written /\ written \subseteq Chunks /\ loc \in Places
  BY DEF Inv, TypeOK
<1>1. ASSUME Restart
      PROVE  /\ pc' \in [Threads -> Labels]
             /\ from' \in [Threads -> 0 .. Total] /\ len' \in [Threads -> 0 .. Total]
             /\ \A v \in Threads : Received(v)'
  <2>1. 0 \in 0 .. Total
    BY LengthPositive
  <2> QED
    BY <1>1, <2>1 DEF Restart, Labels, Received
<1>2. CASE Crash /\ Logged
  <2>1. Rowful' /\ OffsetDurable'
    BY <1>2 DEF Crash, Reopen, Logged, file, Inv, TypeOK, Rowful, OffsetDurable
  <2> QED
    BY <1>1, <1>2, <2>1, Parts DEF Crash, file, Inv, BlobWhole
<1>3. CASE PowerCut
  <2>1. Rowful' /\ OffsetDurable'
    BY <1>3 DEF PowerCut, Inv, TypeOK, Rowful, OffsetDurable
  <2> QED
    BY <1>1, <1>3, <2>1, Parts DEF PowerCut, Inv, BlobWhole, Places
<1>4. CASE Checkpoint
  <2>1. Rowful' /\ OffsetDurable'
    BY <1>4 DEF Checkpoint, conn, file, Inv, TypeOK, Rowful, OffsetDurable
  <2> QED
    BY <1>4, <2>1, Parts DEF Checkpoint, file, Inv, TypeOK, Received, BlobWhole
<1> QED
  BY <1>2, <1>3, <1>4

LEMMA NextInv == ASSUME Inv, [Next]_vars PROVE Inv'
<1>1. CASE UNCHANGED vars
  BY <1>1 DEF vars, conn, file, Inv, TypeOK, OffsetDurable, BlobWhole, Received
<1> QED
  BY <1>1, CreationInv, WriteInv, PromoteInv, DeleteInv, WorldInv
     DEF Next, Starting, Working, Failing

LEMMA Invariance == Spec => []Inv
BY InitInv, NextInv, PTL DEF Spec

\* Offsets, chunk lengths and rows stay within the declared length.
THEOREM TypeCorrect == Spec => []TypeOK
<1>1. Inv => TypeOK
  BY DEF Inv
<1> QED
  BY <1>1, Invariance, PTL

\* No row that a client may ever resume from, whether the connection shows it,
\* a rollback brings it back or a power cut leaves it, counts a chunk that is
\* not on the disk.
THEOREM OffsetsBacked == Spec => []OffsetDurable
<1>1. Inv => OffsetDurable
  BY DEF Inv
<1> QED
  BY <1>1, Invariance, PTL

\* What enters blobs/ is the whole file, synced, however many requests wrote it.
THEOREM BlobsWhole == Spec => []BlobWhole
<1>1. Inv => BlobWhole
  BY DEF Inv
<1> QED
  BY <1>1, Invariance, PTL

=============================================================================
