---------------------------------- MODULE Tus ----------------------------------
(***************************************************************************)
(* The life of one upload (tus.cc): created, sent in chunks, resumed after *)
(* an interruption, terminated or expired, promoted to a blob.  ShareStore *)
(* takes over where its last chunk arrives.                                *)
(*                                                                         *)
(* What is at stake is that recorded offset and bytes on disk agree after  *)
(* anything, so the disk is modelled with its page cache, and the database *)
(* with what PRAGMA synchronous=NORMAL keeps of it when the power goes.    *)
(*                                                                         *)
(* Every client that sends a chunk sends the bytes of the same file: which *)
(* chunks are in the file is then all there is to tell about its contents. *)
(***************************************************************************)
EXTENDS SharedConnection, Naturals

CONSTANTS
    Threads,    \* event loops; the sweep runs on one too
    Total       \* the length of the upload, in chunks (Upload-Length)

ASSUME OwnerApart == NoOwner \notin Threads
ASSUME LengthPositive == Total \in Nat \ {0}

VARIABLES
    pc,         \* where each thread is
    from, len,  \* the offset and the size of the chunk it received
    loc,        \* where the file is, see Places
    written,    \* chunks written to the file, in the page cache at least
    synced,     \* chunks that are on the disk
    wal         \* what the database may be after a power cut

file == <<loc, written, synced>>
vars == <<conn, pc, from, len, file, wal>>

Chunks    == 0 .. Total - 1
Prefix(n) == {i \in Chunks : i < n}

\* Under incoming/; renamed into blobs/; removed because blobs/ had the same
\* bytes already; removed for good.  "unborn" is before POST /files.
Places == {"unborn", "incoming", "blob", "duplicate", "removed"}

\* Where a handler can be: the step it is about to take.
Labels == {"idle", "create", "write", "sync", "offset", "hash", "move", "complete",
           "remove", "other"}

\* The row of uploads: absent, completed_at NULL, completed_at set.
Rows == [state : {"none", "open", "done"}, offset : 0 .. Total]

Init ==
    /\ db = [state |-> "none", offset |-> 0]
    /\ durable = db /\ owner = NoOwner /\ chg = FALSE /\ wal = {db}
    /\ pc = [t \in Threads |-> "idle"]
    /\ from = [t \in Threads |-> 0] /\ len = [t \in Threads |-> 0]
    /\ loc = "unborn" /\ written = {} /\ synced = {}

-----------------------------------------------------------------------------
At(t, l)   == pc[t] = l
Receive(t, l, o, n) ==
    /\ pc' = [pc EXCEPT ![t] = l]
    /\ from' = [from EXCEPT ![t] = o] /\ len' = [len EXCEPT ![t] = n]
Goto(t, l) == Receive(t, l, from[t], len[t])
Return(t)  == Receive(t, "idle", 0, 0)

\* A statement on the upload's row: no row, nothing touched.
OnRow(d) == Execute(IF db.state = "none" THEN db ELSE d, db.state # "none")

-----------------------------------------------------------------------------
(* POST /files *)

\* open(O_CREAT | O_EXCL) under a fresh random id, before the row.
CreateFile(t) ==
    /\ At(t, "idle") /\ loc = "unborn"
    /\ loc' = "incoming" /\ Goto(t, "create")
    /\ Query /\ UNCHANGED <<written, synced>>

\* INSERT INTO uploads (..., offset_bytes = 0); 201 with the id.
CreateRow(t) ==
    /\ At(t, "create")
    /\ Execute([state |-> "open", offset |-> 0], TRUE)
    /\ Return(t) /\ UNCHANGED file

-----------------------------------------------------------------------------
(* PATCH /files/{id} *)

\* Mutants: Upload-Offset is not compared with the row's; the chunk's end is
\* not compared with Upload-Length; an empty chunk is refused.
PatchLoadAnyOffset(t, o, n) ==
    /\ At(t, "idle") /\ db.state = "open" /\ loc = "incoming"
    /\ o + n <= Total
    /\ Receive(t, "write", o, n)
    /\ Query /\ UNCHANGED file
PatchLoadUnbounded(t, o, n) ==
    /\ At(t, "idle") /\ db.state = "open" /\ loc = "incoming"
    /\ o = db.offset
    /\ Receive(t, "write", o, n)
    /\ Query /\ UNCHANGED file
PatchLoadNonEmpty(t, o, n) ==
    /\ At(t, "idle") /\ db.state = "open" /\ loc = "incoming"
    /\ o = db.offset /\ o + n <= Total /\ n > 0
    /\ Receive(t, "write", o, n)
    /\ Query /\ UNCHANGED file

\* loadUpload; 409 when complete, when Upload-Offset is not the row's, 413 when
\* the chunk is too long; the file opens.
PatchLoad(t, o, n) ==
    /\ At(t, "idle") /\ db.state = "open" /\ loc = "incoming"
    /\ o = db.offset /\ o + n <= Total
    /\ Receive(t, "write", o, n)
    /\ Query /\ UNCHANGED file

\* The first n chunks of the body reach the file, wherever it is by now.
Pwrite(t, n) == written' = written \union {i \in Chunks : from[t] <= i /\ i < from[t] + n}

PatchWrite(t) ==
    /\ At(t, "write")
    /\ Pwrite(t, len[t]) /\ Goto(t, "sync")
    /\ Query /\ UNCHANGED <<loc, synced>>

\* pwrite fails after n chunks (a full disk, say): 500.
WriteFails(t) ==
    /\ At(t, "write")
    /\ \E n \in 0 .. Total : n < len[t] /\ Pwrite(t, n)
    /\ Return(t)
    /\ Query /\ UNCHANGED <<loc, synced>>

\* Mutant: fsync is left out.
PatchUnsynced(t) == At(t, "sync") /\ Goto(t, "offset") /\ Query /\ UNCHANGED file

\* fsync: the whole file, what other requests wrote to it too.
PatchSync(t) ==
    /\ At(t, "sync")
    /\ synced' = written /\ Goto(t, "offset")
    /\ Query /\ UNCHANGED <<loc, written>>

SyncFails(t) ==
    /\ At(t, "sync") /\ Return(t)
    /\ Query /\ UNCHANGED file

\* UPDATE uploads SET offset_bytes: whatever the offset has become meanwhile.
PatchOffset(t) ==
    LET newOffset == from[t] + len[t] IN
    /\ At(t, "offset")
    /\ OnRow([db EXCEPT !.offset = newOffset])
    /\ IF newOffset = Total THEN Goto(t, "hash") ELSE Return(t)
    /\ UNCHANGED file

-----------------------------------------------------------------------------
(* promoteToBlob *)

\* The file is reopened and hashed; gone means 500.
PromoteHash(t) ==
    /\ At(t, "hash")
    /\ IF loc = "incoming" THEN Goto(t, "move") ELSE Return(t)
    /\ Query /\ UNCHANGED file

\* The target exists, from this upload or an identical one: remove(source).
\* Otherwise rename(source, target), which fails when there is no source.
PromoteMove(t) ==
    /\ At(t, "move")
    /\ \/ loc = "incoming" /\ loc' \in {"blob", "duplicate"} /\ Goto(t, "complete")
       \/ loc \in {"blob", "duplicate"} /\ UNCHANGED loc /\ Goto(t, "complete")
       \/ loc = "removed" /\ UNCHANGED loc /\ Return(t)
    /\ Query /\ UNCHANGED <<written, synced>>

\* INSERT INTO blobs, then UPDATE uploads SET blob_sha256, completed_at; the
\* foreign key may refuse the latter (ShareStore), a 500.
PromoteComplete(t) ==
    /\ At(t, "complete")
    /\ OnRow([db EXCEPT !.state = "done"]) \/ (db.state # "none" /\ Query)
    /\ Return(t) /\ UNCHANGED file

-----------------------------------------------------------------------------
(* DELETE /files/{id}, and expireUploads: the row, then the file *)

DeleteRow(t) ==
    /\ At(t, "idle") /\ db.state # "none"
    /\ OnRow([db EXCEPT !.state = "none"])
    /\ Goto(t, "remove") /\ UNCHANGED file

\* remove(incomingPath)
DeleteFile(t) ==
    /\ At(t, "remove")
    /\ loc' = IF loc = "incoming" THEN "removed" ELSE loc
    /\ Return(t)
    /\ Query /\ UNCHANGED <<written, synced>>

\* removeStrayIncoming: no row, and older than any creation in progress.
StrayRemove(t) ==
    /\ At(t, "idle") /\ loc = "incoming" /\ db.state = "none"
    /\ \A v \in Threads : ~At(v, "create")
    /\ loc' = "removed"
    /\ Query /\ UNCHANGED <<pc, from, len, written, synced>>

-----------------------------------------------------------------------------
(* Any other handler's transaction on the connection *)

OtherBegin(t)  == At(t, "idle")  /\ Begin(t)  /\ Goto(t, "other") /\ UNCHANGED file
OtherCommit(t) == At(t, "other") /\ Commit(t) /\ Return(t) /\ UNCHANGED file
OtherThrow(t)  == At(t, "other") /\ Rollback(t) /\ Return(t) /\ UNCHANGED file

-----------------------------------------------------------------------------
(* The world *)

Restart ==
    /\ pc' = [t \in Threads |-> "idle"]
    /\ from' = [t \in Threads |-> 0] /\ len' = [t \in Threads |-> 0]

\* The process dies; the operating system and its page cache live on.
Crash ==
    /\ Reopen /\ Restart /\ UNCHANGED file

\* The power goes.  The database comes back as one of the commits since the
\* last checkpoint, the file with what was synced and perhaps more; its
\* creation before the first fsync, the rename and the remove may not have
\* happened, as nothing syncs the directory.
PowerCut ==
    /\ \E d \in wal : db' = d /\ durable' = d
    /\ owner' = NoOwner /\ chg' = FALSE
    /\ wal' = {db'}
    /\ Restart
    /\ written' \in {w \in SUBSET written : synced \subseteq w}
    /\ \/ loc' = loc
       \/ loc # "unborn" /\ loc' = "incoming"
       \/ loc = "incoming" /\ synced = {} /\ loc' = "removed"
    /\ UNCHANGED synced

\* SQLite copies the log into the database file and syncs it.
Checkpoint ==
    /\ wal' = {durable}
    /\ UNCHANGED <<conn, pc, from, len, file>>

-----------------------------------------------------------------------------
Working(t) ==
    \/ CreateRow(t)
    \/ PatchWrite(t) \/ PatchSync(t) \/ PatchOffset(t)
    \/ PromoteHash(t) \/ PromoteMove(t) \/ PromoteComplete(t)
    \/ DeleteFile(t) \/ OtherCommit(t)

Failing(t) == WriteFails(t) \/ SyncFails(t) \/ OtherThrow(t)

Starting(t) ==
    \/ CreateFile(t)
    \/ \E o, n \in 0 .. Total : PatchLoad(t, o, n)
    \/ DeleteRow(t) \/ StrayRemove(t) \/ OtherBegin(t)

\* What is committed joins what a power cut may leave.
Logged == wal' = wal \union {durable'}

Next ==
    \/ \E t \in Threads : (Starting(t) \/ Working(t) \/ Failing(t)) /\ Logged
    \/ Crash /\ Logged
    \/ PowerCut
    \/ Checkpoint

Spec == Init /\ [][Next]_vars

\* A handler that has begun goes on, disks and other requests stop failing at
\* some point, and the client keeps resuming: from the offset HEAD reports with
\* at least one chunk, or with an empty one when all of them have arrived.  (An
\* endless train of empty chunks before that could set each offset back.)
Resume == \E t \in Threads, n \in 0 .. Total :
              (n > 0 \/ db.offset = Total) /\ PatchLoad(t, db.offset, n)
Fault ==
    \/ Crash \/ PowerCut
    \/ \E t \in Threads : Failing(t) \/ (db.offset < Total /\ PatchLoad(t, db.offset, 0))
Fairness ==
    /\ \A t \in Threads : WF_vars(Working(t) /\ Logged)
    /\ SF_vars(Resume /\ Logged)
    /\ <>[][~Fault]_vars
FairSpec == Spec /\ Fairness

-----------------------------------------------------------------------------
(* Properties *)

TypeOK ==
    /\ db \in Rows /\ durable \in Rows /\ wal \subseteq Rows
    /\ owner \in Threads \union {NoOwner} /\ chg \in BOOLEAN
    /\ pc \in [Threads -> Labels]
    /\ from \in [Threads -> 0 .. Total] /\ len \in [Threads -> 0 .. Total]
    /\ loc \in Places /\ written \subseteq Chunks /\ synced \subseteq Chunks

\* "If the database says bytes are on disk, they must actually be on disk, or
\* a resume after a crash silently skips a hole" (the comment in PATCH): every
\* row a client may ever resume from, after a rollback or a power cut too, has
\* an offset below which every chunk is synced.
OffsetDurable ==
    \A d \in wal \union {db, durable} : Prefix(d.offset) \subseteq synced

\* "The blobs themselves are fsynced" (Database's constructor): what is renamed
\* into blobs/ is the whole file, and all of it is on the disk.
BlobWhole == loc \in {"blob", "duplicate"} => synced = Chunks

\* An upload that can be resumed is finished or given up in the end, however
\* late requests set its offset back and however often it was interrupted.
Resumable == db.state = "open" /\ loc = "incoming"
Settles == Resumable ~> ~Resumable

=============================================================================
