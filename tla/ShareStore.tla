------------------------------- MODULE ShareStore -------------------------------
(***************************************************************************)
(* Uploads, content-addressed blobs, share links and the expiry sweep      *)
(* (tus.cc, storage.cc, shares.cc, gc.cc) over the shared connection.      *)
(*                                                                         *)
(* One action is one SQL statement or one file operation: the points at    *)
(* which another thread can run.  A handler is a path through pc[t]; what  *)
(* it has read so far is arg[t].  Several SELECTs in a row with nothing    *)
(* written between them are one action when a change between them can only *)
(* turn into the failure the later one reports.                            *)
(*                                                                         *)
(* All uploads and links belong to one account, used from several devices  *)
(* at once; ownership checks are in every handler and always hold here.    *)
(* An upload starts one chunk short of its length (Tus has the rest of its *)
(* life); its bytes are Content[u], named by their hash.                   *)
(***************************************************************************)
EXTENDS SharedConnection, Naturals, FiniteSets

CONSTANTS
    Workers,    \* event loops that run request handlers
    Sweeper,    \* the main loop, which runs runGarbageCollection
    Hash, Upload, Share,
    Content,    \* what the bytes of an upload hash to
    Nil         \* no argument

Threads == Workers \union {Sweeper}

ASSUME ThreadsApart == Sweeper \notin Workers /\ NoOwner \notin Threads
ASSUME ContentHashed == Content \in [Upload -> Hash]
ASSUME NilApart == Nil \notin Hash \union Upload \union Share

VARIABLES
    pc, arg,     \* where each thread is, and what it holds
    work,        \* the rows the sweep's last query returned, not yet handled
    blobFile,    \* hashes with a file under blobs/
    incoming,    \* uploads with a file under incoming/
    lapsed,      \* links whose expires_at has passed
    young,       \* blob rows created less than the grace period ago
    acked        \* links whose revocation was answered with 200

disk  == <<blobFile, incoming>>
clock == <<lapsed, young>>
vars  == <<conn, pc, arg, work, disk, clock, acked>>

\* uploads: no row, receiving, offset_bytes = total_size, blob_sha256 set.
UploadStates == {"none", "open", "full", "done"}
\* shares: no row, deleted_at NULL, deleted_at set.
ShareStates == {"none", "live", "revoked"}

\* The tables.  A row of share_files is named by its link and by the upload
\* it was made from, whose content it has.
Tables == [blobs    : SUBSET Hash,               \* rows of blobs
           refs     : [Hash -> Nat],             \* blobs.refcount
           shared   : SUBSET Hash,               \* blobs.released_at set
           up       : [Upload -> UploadStates],
           sh       : [Share -> ShareStates],
           released : SUBSET Share,              \* shares.released_at set
           files    : SUBSET (Share \X Upload)]  \* rows of share_files

\* Where a handler or the sweep can be: the step it is about to take.
Labels ==
    {"idle", "offset", "hash", "move", "insert", "complete",
     "orphan", "orphan_changes", "orphan_files", "term_row", "term_file",
     "create", "attach", "link", "count", "consume", "attach_more", "add", "add_check",
     "remove", "remove_row", "remove_count", "remove_last", "remove_commit",
     "revoke_changes", "other",
     "release", "rel_count", "rel_files", "rel_mark", "rel_commit",
     "expire", "expire_file", "collect", "collect_changes", "collect_files"}

NoArgs == [u |-> Nil, s |-> Nil, h |-> Nil]

Init ==
    /\ db = [blobs |-> {}, refs |-> [h \in Hash |-> 0], shared |-> {},
             up |-> [u \in Upload |-> "open"],
             sh |-> [s \in Share |-> "none"], released |-> {}, files |-> {}]
    /\ durable = db /\ owner = NoOwner /\ chg = FALSE
    /\ pc = [t \in Threads |-> "idle"]
    /\ arg = [t \in Threads |-> NoArgs]
    /\ work = {}
    /\ blobFile = {} /\ incoming = Upload
    /\ lapsed = {} /\ young = {}
    /\ acked = {}

-----------------------------------------------------------------------------
(* Control *)

At(t, l)       == pc[t] = l
Goto(t, l)     == pc' = [pc EXCEPT ![t] = l] /\ UNCHANGED arg
Enter(t, l, a) == pc' = [pc EXCEPT ![t] = l] /\ arg' = [arg EXCEPT ![t] = a]
\* The response is sent, or an exception became a 4xx or a 500.
Return(t)      == Enter(t, "idle", NoArgs)
Elsewhere      == UNCHANGED <<work, disk, clock, acked>>

\* A request arrives, and reads a as its first step.
Idle(t) == t \in Workers /\ At(t, "idle")
Load(t, l, a) == Idle(t) /\ Enter(t, l, a) /\ Query /\ Elsewhere

\* The step from l to m that is one write statement.
Statement(t, l, m, d, touched) == At(t, l) /\ Execute(d, touched) /\ Goto(t, m) /\ Elsewhere

\* The step from l to m that is BEGIN or COMMIT, and the end by ROLLBACK.
BeginAt(t, l, m)  == At(t, l) /\ Begin(t)  /\ Goto(t, m) /\ Elsewhere
CommitAt(t, l, m) == At(t, l) /\ Commit(t) /\ Goto(t, m) /\ Elsewhere
Throw(t)          == Rollback(t) /\ Return(t) /\ Elsewhere

-----------------------------------------------------------------------------
(* Tables *)

FilesOf(d, s)    == {f \in d.files : f[1] = s}
RowsWith(d, h)   == {f \in d.files : Content[f[2]] = h}
\* share_files and uploads REFERENCE blobs(sha256): with foreign_keys=ON a
\* row that is referenced cannot be deleted.
Referenced(d, h) == RowsWith(d, h) # {} \/ \E u \in Upload : d.up[u] = "done" /\ Content[u] = h
\* Mutant: PRAGMA foreign_keys is off.
ForeignKeysOff(d, h) == FALSE
ForeignKeyHolds(d, h) == Referenced(d, h)

\* The condition deleteIfOrphaned and the sweep's SELECT share.
Orphaned(d, h) == h \in d.blobs /\ d.refs[h] = 0 /\ ~Referenced(d, h)

WithoutBlob(d, h)   == [d EXCEPT !.blobs = @ \ {h}, !.shared = @ \ {h}]
WithoutUpload(d, u) == [d EXCEPT !.up[u] = "none"]

\* Mutant: refcount - 1 without MAX(0, ...).
Less1Unbounded(n) == n - 1
Less1(n) == IF n = 0 THEN 0 ELSE n - 1      \* MAX(0, refcount - 1)
\* The blobs hs lose a reference, and have been through a share.
Dereferenced(d, hs) == [d EXCEPT !.refs = [h \in Hash |-> IF h \in hs THEN Less1(@[h]) ELSE @[h]],
                                 !.shared = @ \union hs]

-----------------------------------------------------------------------------
(* PATCH /files/{id} with the chunk that ends the upload, and promoteToBlob *)

\* loadUpload; 409 when complete; the file opens.  offset_bytes = total_size
\* without a blob is a promotion that failed: an empty chunk tries it again.
PatchLoad(t, u) ==
    /\ db.up[u] \in {"open", "full"} /\ u \in incoming
    /\ Load(t, "offset", [NoArgs EXCEPT !.u = u])

\* pwrite and fsync are done: UPDATE uploads SET offset_bytes = total_size.
PatchOffset(t) ==
    LET u == arg[t].u IN
    Statement(t, "offset", "hash", [db EXCEPT !.up[u] = IF @ = "open" THEN "full" ELSE @],
              db.up[u] # "none")

\* The file is read again to hash it; gone means 500.
PromoteHash(t) ==
    /\ At(t, "hash")
    /\ IF arg[t].u \in incoming
       THEN Enter(t, "move", [arg[t] EXCEPT !.h = Content[arg[t].u]])
       ELSE Return(t)
    /\ Query /\ Elsewhere

\* exists(target) ? remove(source) : rename(source, target), which needs it.
PromoteMove(t) ==
    /\ At(t, "move")
    /\ IF arg[t].h \in blobFile \/ arg[t].u \in incoming
       THEN /\ blobFile' = blobFile \union {arg[t].h}
            /\ incoming' = incoming \ {arg[t].u}
            /\ Goto(t, "insert")
       ELSE Return(t) /\ UNCHANGED disk
    /\ Query /\ UNCHANGED <<work, clock, acked>>

\* Mutant: the conflict clause starts the count over.
PromoteInsertResets(t) ==
    /\ At(t, "insert")
    /\ Execute([db EXCEPT !.blobs = @ \union {arg[t].h}, !.refs[arg[t].h] = 0], TRUE)
    /\ young' = IF arg[t].h \in db.blobs THEN young ELSE young \union {arg[t].h}
    /\ Goto(t, "complete")
    /\ UNCHANGED <<work, disk, lapsed, acked>>

\* INSERT INTO blobs ... ON CONFLICT refreshes last_referenced_at only.
PromoteInsert(t) ==
    /\ At(t, "insert")
    /\ Execute([db EXCEPT !.blobs = @ \union {arg[t].h}], TRUE)
    /\ young' = IF arg[t].h \in db.blobs THEN young ELSE young \union {arg[t].h}
    /\ Goto(t, "complete")
    /\ UNCHANGED <<work, disk, lapsed, acked>>

\* UPDATE uploads SET blob_sha256, completed_at; the foreign key needs the row.
PromoteComplete(t) ==
    /\ At(t, "complete")
    /\ LET u == arg[t].u IN
       IF db.up[u] # "none" /\ arg[t].h \notin db.blobs
       THEN Query
       ELSE Execute([db EXCEPT !.up[u] = IF @ = "none" THEN @ ELSE "done"],
                    db.up[u] # "none")
    /\ Return(t) /\ Elsewhere

-----------------------------------------------------------------------------
(* deleteIfOrphaned, the tail of termination and of removing a file *)

\* One DELETE with the whole condition in its WHERE.
OrphanDelete(t) ==
    LET h == arg[t].h IN
    Statement(t, "orphan", "orphan_changes",
              IF Orphaned(db, h) THEN WithoutBlob(db, h) ELSE db, Orphaned(db, h))

\* Mutant: the files go whether or not the row did.
OrphanChangesIgnored(t) ==
    At(t, "orphan_changes") /\ Goto(t, "orphan_files") /\ Query /\ Elsewhere

\* if (db.changes() == 0) return false;
OrphanChanges(t) ==
    /\ At(t, "orphan_changes")
    /\ IF chg THEN Goto(t, "orphan_files") ELSE Return(t)
    /\ Query /\ Elsewhere

\* removeBlobFiles
OrphanFiles(t) ==
    /\ At(t, "orphan_files")
    /\ blobFile' = blobFile \ {arg[t].h}
    /\ Return(t)
    /\ Query /\ UNCHANGED <<work, incoming, clock, acked>>

-----------------------------------------------------------------------------
(* DELETE /files/{id}: tus termination *)

TerminateLoad(t, u) ==
    /\ db.up[u] # "none"
    /\ Load(t, "term_row", [u |-> u, s |-> Nil,
                            h |-> IF db.up[u] = "done" THEN Content[u] ELSE Nil])

TerminateRow(t) ==
    Statement(t, "term_row", "term_file", WithoutUpload(db, arg[t].u), db.up[arg[t].u] # "none")

\* Remove the incoming file; an upload that never completed has no blob.
TerminateFile(t) ==
    /\ At(t, "term_file")
    /\ incoming' = incoming \ {arg[t].u}
    /\ IF arg[t].h = Nil THEN Return(t) ELSE Goto(t, "orphan")
    /\ Query /\ UNCHANGED <<work, blobFile, clock, acked>>

-----------------------------------------------------------------------------
(* POST /api/shares; createChatPhotoShare runs the same steps for a message *)

\* A client has the token of a link once its creation was answered.
Known(s) == durable.sh[s] # "none"

CreateBegin(t, s) ==
    /\ Idle(t) /\ db.sh[s] = "none"
    /\ Begin(t) /\ Enter(t, "create", [NoArgs EXCEPT !.s = s]) /\ Elsewhere

\* INSERT INTO shares; lastInsertId() is taken to return this row's id.
CreateInsert(t) ==
    Statement(t, "create", "attach", [db EXCEPT !.sh[arg[t].s] = "live"], TRUE)

\* attachUploads: the next id of the list is a finished upload ...
Attaching(t) == pc[t] \in {"attach", "attach_more"}
AttachSelect(t, u) ==
    /\ Attaching(t) /\ db.up[u] = "done"
    /\ Enter(t, "link", [arg[t] EXCEPT !.u = u, !.h = Content[u]])
    /\ Query /\ Elsewhere

\* ... or one that is unknown, unfinished or already spent: 400.
AttachReject(t) == Attaching(t) /\ Throw(t)

\* INSERT INTO share_files; a blob that went meanwhile fails the foreign key.
AttachLink(t) ==
    LET a == arg[t] IN
    \/ /\ a.h \in db.blobs
       /\ Statement(t, "link", "count", [db EXCEPT !.files = @ \union {<<a.s, a.u>>}], TRUE)
    \/ At(t, "link") /\ a.h \notin db.blobs /\ Throw(t)

\* UPDATE blobs SET refcount = refcount + 1
AttachCount(t) ==
    LET h == arg[t].h IN
    Statement(t, "count", "consume",
              [db EXCEPT !.refs[h] = IF h \in db.blobs THEN @ + 1 ELSE @], h \in db.blobs)

\* Mutant: the upload row stays.
AttachKeepsUpload(t) == Statement(t, "consume", "attach_more", db, FALSE)

\* DELETE FROM uploads: the same id cannot be spent twice.
AttachConsume(t) ==
    Statement(t, "consume", "attach_more", WithoutUpload(db, arg[t].u), db.up[arg[t].u] # "none")

\* The list is at its end (it is never empty): tx.commit().
AttachCommit(t) ==
    At(t, "attach_more") /\ Commit(t) /\ Return(t) /\ Elsewhere

-----------------------------------------------------------------------------
(* POST /api/shares/{token}/files: add files to a link already made *)

\* requireOwnLiveShare
AddLoad(t, s) ==
    /\ Known(s) /\ db.sh[s] = "live" /\ s \notin db.released /\ s \notin lapsed
    /\ Load(t, "add", [NoArgs EXCEPT !.s = s])

AddBegin(t) == BeginAt(t, "add", "add_check")

\* Mutant: the state of the link is not asked again.
AddUnchecked(t) == At(t, "add_check") /\ Query /\ Goto(t, "attach") /\ Elsewhere

\* Not released and not revoked, asked again inside the transaction; 409.
AddCheck(t) ==
    /\ At(t, "add_check")
    /\ IF db.sh[arg[t].s] = "live" /\ arg[t].s \notin db.released
       THEN Query /\ Goto(t, "attach") /\ Elsewhere
       ELSE Throw(t)

-----------------------------------------------------------------------------
(* DELETE /api/shares/{token}/files/{fileId}: remove one file *)

\* loadLiveShare, then the file row; 404 otherwise.
RemoveLoad(t, s, u) ==
    /\ Known(s) /\ db.sh[s] = "live" /\ s \notin lapsed /\ <<s, u>> \in db.files
    /\ Load(t, "remove", [u |-> u, s |-> s, h |-> Content[u]])

RemoveBegin(t) == BeginAt(t, "remove", "remove_row")

RemoveRow(t) ==
    LET f == <<arg[t].s, arg[t].u>> IN
    Statement(t, "remove_row", "remove_count", [db EXCEPT !.files = @ \ {f}], f \in db.files)

\* Runs whether or not the row was still there to delete.
RemoveCount(t) ==
    LET hs == {arg[t].h} \intersect db.blobs IN
    Statement(t, "remove_count", "remove_last", Dereferenced(db, hs), hs # {})

\* SELECT COUNT(*); a link left with no files is revoked.
RemoveLast(t) ==
    LET last == FilesOf(db, arg[t].s) = {} IN
    \/ last /\ Statement(t, "remove_last", "remove_commit",
                         [db EXCEPT !.sh[arg[t].s] = IF @ = "none" THEN @ ELSE "revoked"],
                         db.sh[arg[t].s] # "none")
    \/ ~last /\ At(t, "remove_last") /\ Query /\ Goto(t, "remove_commit") /\ Elsewhere

RemoveCommit(t) == CommitAt(t, "remove_commit", "orphan")

-----------------------------------------------------------------------------
(* DELETE /api/shares/{token}: revoke *)

\* UPDATE shares SET deleted_at ... AND deleted_at IS NULL
Revoke(t, s) ==
    /\ Idle(t) /\ Known(s)
    /\ Execute([db EXCEPT !.sh[s] = "revoked"], db.sh[s] = "live")
    /\ Enter(t, "revoke_changes", [NoArgs EXCEPT !.s = s]) /\ Elsewhere

\* changes() == 0 is a 404; otherwise the owner is told it is revoked.
RevokeChanges(t) ==
    /\ At(t, "revoke_changes")
    /\ acked' = IF chg THEN acked \union {arg[t].s} ELSE acked
    /\ Return(t)
    /\ Query /\ UNCHANGED <<work, disk, clock>>

-----------------------------------------------------------------------------
(* Everything else the server runs on the connection *)

\* A statement that writes other tables: a session, a message, the log.
OtherStatement(t) ==
    /\ Idle(t)
    /\ \E touched \in BOOLEAN : Execute(db, touched)
    /\ UNCHANGED <<pc, arg>> /\ Elsewhere

\* A transaction on other tables (PATCH of a link, auth, chat, inbox, admin),
\* which commits or, refusing the request halfway, rolls back.
OtherBegin(t) == Idle(t) /\ BeginAt(t, "idle", "other")
OtherCommit(t) == CommitAt(t, "other", "idle")
OtherThrow(t) == At(t, "other") /\ Throw(t)

\* Transaction tx{db} throws: 500, and nothing has been done yet.
BeginRefused(t) ==
    pc[t] \in {"add", "remove"} /\ BeginFails /\ Return(t) /\ Elsewhere

-----------------------------------------------------------------------------
(* runGarbageCollection *)

\* From here on the thread is the sweeper, and "its" row is the one at hand.
Sweeping(l)     == At(Sweeper, l)
its             == arg[Sweeper]
Take(l, a)      == Enter(Sweeper, l, a)
\* The rows a SELECT returned, which the loop from l on will go through.
Select(rows, l) == work' = rows /\ Goto(Sweeper, l) /\ Query /\ UNCHANGED <<disk, clock, acked>>
\* The loop is done with row x.
Continue(l, x)  == work' = work \ {x} /\ Take(l, NoArgs)
\* An exception leaves the sweep; it is logged, and the next sweep starts over.
Abort           == Query /\ Return(Sweeper) /\ work' = {} /\ UNCHANGED <<disk, clock, acked>>

\* Mutant: only expired links are looked for.
SweepExpiredOnly ==
    /\ Sweeping("idle")
    /\ Select({s \in Share : db.sh[s] # "none" /\ s \notin db.released /\ s \in lapsed}, "release")

\* SELECT id FROM shares: expired or revoked, and not yet released.
SweepStart ==
    /\ Sweeping("idle")
    /\ Select({s \in Share : /\ db.sh[s] # "none" /\ s \notin db.released
                             /\ s \in lapsed \/ db.sh[s] = "revoked"}, "release")

ReleaseBegin(s) ==
    /\ Sweeping("release") /\ s \in work
    /\ Begin(Sweeper) /\ Take("rel_count", [NoArgs EXCEPT !.s = s]) /\ Elsewhere

ReleaseRefused == Sweeping("release") /\ work # {} /\ owner # NoOwner /\ Abort

\* UPDATE blobs ... WHERE sha256 IN (...): once per blob, however many of the
\* link's rows have it.
ReleaseCount ==
    LET hs == {Content[f[2]] : f \in FilesOf(db, its.s)} \intersect db.blobs IN
    Statement(Sweeper, "rel_count", "rel_files", Dereferenced(db, hs), hs # {})

\* Mutant: the rows go by blob, not by link.
ReleaseFilesByBlob ==
    LET fs == UNION {RowsWith(db, Content[f[2]]) : f \in FilesOf(db, its.s)} IN
    Statement(Sweeper, "rel_files", "rel_mark", [db EXCEPT !.files = @ \ fs], fs # {})

ReleaseFiles ==
    LET fs == FilesOf(db, its.s) IN
    Statement(Sweeper, "rel_files", "rel_mark", [db EXCEPT !.files = @ \ fs], fs # {})

ReleaseMark ==
    LET s == {its.s} \intersect {x \in Share : db.sh[x] # "none"} IN
    Statement(Sweeper, "rel_mark", "rel_commit", [db EXCEPT !.released = @ \union s], s # {})

ReleaseCommit ==
    /\ Sweeping("rel_commit")
    /\ Commit(Sweeper) /\ Continue("release", its.s)
    /\ UNCHANGED <<disk, clock, acked>>

\* expireUploads: SELECT the uploads past their time, any of them.
ExpireSelect ==
    /\ Sweeping("release") /\ work = {}
    /\ \E us \in SUBSET {u \in Upload : db.up[u] # "none"} : Select(us, "expire")

ExpireRow(u) ==
    /\ Sweeping("expire") /\ u \in work
    /\ Execute(WithoutUpload(db, u), db.up[u] # "none")
    /\ Take("expire_file", [NoArgs EXCEPT !.u = u]) /\ Elsewhere

ExpireFile ==
    /\ Sweeping("expire_file")
    /\ incoming' = incoming \ {its.u}
    /\ Continue("expire", its.u)
    /\ Query /\ UNCHANGED <<blobFile, clock, acked>>

\* Mutant: only what has been through a share is looked for.
CollectSharedOnly ==
    /\ Sweeping("expire") /\ work = {}
    /\ Select({h \in Hash : Orphaned(db, h) /\ h \in db.shared}, "collect")

\* deleteOrphanBlobs: SELECT what nothing references, past its grace.
CollectSelect ==
    /\ Sweeping("expire") /\ work = {}
    /\ Select({h \in Hash : Orphaned(db, h) /\ (h \in db.shared \/ h \notin young)}, "collect")

\* DELETE FROM blobs WHERE sha256 = ? AND refcount <= 0.  A reference the
\* counter does not know of fails the foreign key and ends the sweep.
CollectRow(h) ==
    LET hit == h \in db.blobs /\ db.refs[h] = 0 IN
    /\ Sweeping("collect") /\ h \in work
    /\ IF hit /\ ForeignKeyHolds(db, h)
       THEN Abort
       ELSE /\ Execute(IF hit THEN WithoutBlob(db, h) ELSE db, hit)
            /\ Take("collect_changes", [NoArgs EXCEPT !.h = h]) /\ Elsewhere

\* if (db.changes() == 0) continue;
CollectChanges ==
    /\ Sweeping("collect_changes")
    /\ IF chg THEN Goto(Sweeper, "collect_files") /\ UNCHANGED work
              ELSE Continue("collect", its.h)
    /\ Query /\ UNCHANGED <<disk, clock, acked>>

CollectFiles ==
    /\ Sweeping("collect_files")
    /\ blobFile' = blobFile \ {its.h}
    /\ Continue("collect", its.h)
    /\ Query /\ UNCHANGED <<incoming, clock, acked>>

\* removeStrayIncoming: those of the files with no row that are old enough.
\* The rest of the sweep (sessions, thumbnails, log) is OtherStatement's.
SweepStray ==
    /\ Sweeping("collect") /\ work = {}
    /\ \E us \in SUBSET {u \in incoming : db.up[u] = "none"} : incoming' = incoming \ us
    /\ Return(Sweeper)
    /\ Query /\ UNCHANGED <<work, blobFile, clock, acked>>

-----------------------------------------------------------------------------
(* The world *)

\* expires_at passes.  (A PATCH of expires_at is guarded by expires_at > now
\* in its statement, so what has lapsed stays so.)
Lapse(s) ==
    /\ Known(s) /\ s \notin lapsed
    /\ lapsed' = lapsed \union {s}
    /\ UNCHANGED <<conn, pc, arg, work, disk, young, acked>>

\* The grace period of a blob row ends.  A promotion is over by then.
Age(h) ==
    /\ h \in young
    /\ \A t \in Workers : ~(At(t, "complete") /\ arg[t].h = h)
    /\ young' = young \ {h}
    /\ UNCHANGED <<conn, pc, arg, work, disk, lapsed, acked>>

\* The process dies at any point and is restarted.
Crash ==
    /\ Reopen
    /\ pc' = [t \in Threads |-> "idle"] /\ arg' = [t \in Threads |-> NoArgs]
    /\ work' = {}
    /\ UNCHANGED <<disk, clock, acked>>

-----------------------------------------------------------------------------
Request(t) ==
    \/ \E u \in Upload : PatchLoad(t, u) \/ TerminateLoad(t, u)
    \/ \E s \in Share : CreateBegin(t, s) \/ AddLoad(t, s) \/ Revoke(t, s)
    \/ \E s \in Share, u \in Upload : RemoveLoad(t, s, u)
    \/ OtherStatement(t) \/ OtherBegin(t)

Handler(t) ==
    \/ PatchOffset(t) \/ PromoteHash(t) \/ PromoteMove(t)
    \/ PromoteInsert(t) \/ PromoteComplete(t)
    \/ TerminateRow(t) \/ TerminateFile(t)
    \/ OrphanDelete(t) \/ OrphanChanges(t) \/ OrphanFiles(t)
    \/ CreateInsert(t)
    \/ \E u \in Upload : AttachSelect(t, u)
    \/ AttachReject(t) \/ AttachLink(t) \/ AttachCount(t)
    \/ AttachConsume(t) \/ AttachCommit(t)
    \/ AddBegin(t) \/ AddCheck(t)
    \/ RemoveBegin(t) \/ RemoveRow(t) \/ RemoveCount(t)
    \/ RemoveLast(t) \/ RemoveCommit(t)
    \/ RevokeChanges(t)
    \/ OtherCommit(t) \/ OtherThrow(t) \/ BeginRefused(t)

Sweep ==
    \/ SweepStart
    \/ \E s \in Share : ReleaseBegin(s)
    \/ ReleaseRefused \/ ReleaseCount \/ ReleaseFiles
    \/ ReleaseMark \/ ReleaseCommit
    \/ ExpireSelect \/ ExpireFile
    \/ \E u \in Upload : ExpireRow(u)
    \/ CollectSelect \/ CollectChanges \/ CollectFiles
    \/ \E h \in Hash : CollectRow(h)
    \/ SweepStray

World ==
    \/ \E s \in Share : Lapse(s)
    \/ \E h \in Hash : Age(h)
    \/ Crash

Requests == \E t \in Workers : Request(t) \/ Handler(t)

Next == Requests \/ Sweep \/ World

Spec == Init /\ [][Next]_vars

\* No sweep happens to be running.
RequestSpec == Init /\ [][Requests \/ World]_vars

\* Nothing overlaps: a thread takes a step, be it a request of one statement,
\* only while all others are idle.  It may still be cut short by a crash.
Undisturbed(t) == \A v \in Threads \ {t} : At(v, "idle")

SerialNext ==
    \/ \E t \in Workers : Undisturbed(t) /\ (Request(t) \/ Handler(t))
    \/ Undisturbed(Sweeper) /\ Sweep
    \/ World

SerialSpec == Init /\ [][SerialNext]_vars

(* What the code relies on to get anywhere: handlers and sweeps run to their *)
(* end, the timer starts another sweep even on a busy server, blobs grow     *)
(* old, and the process stops crashing at some point.                        *)
Fairness ==
    /\ \A t \in Workers : WF_vars(Undisturbed(t) /\ Handler(t))
    /\ WF_vars(Undisturbed(Sweeper) /\ Sweep)
    /\ SF_vars(Undisturbed(Sweeper) /\ SweepStart)
    /\ \A h \in Hash : WF_vars(Age(h))
    /\ <>[][~Crash]_vars
FairSerialSpec == SerialSpec /\ Fairness

-----------------------------------------------------------------------------
(* Properties *)

TypeOK ==
    /\ db \in Tables /\ durable \in Tables
    /\ owner \in Threads \union {NoOwner} /\ chg \in BOOLEAN
    /\ pc \in [Threads -> Labels]
    /\ arg \in [Threads -> [u : Upload \union {Nil}, s : Share \union {Nil},
                            h : Hash \union {Nil}]]
    /\ work \in (SUBSET Share) \union (SUBSET Upload) \union (SUBSET Hash)
    /\ blobFile \subseteq Hash /\ incoming \subseteq Upload
    /\ lapsed \subseteq Share /\ young \subseteq Hash /\ acked \subseteq Share

\* "The same id cannot be spent on two shares" (attachUploads): no upload is
\* behind two file rows, and none that is behind one can be spent again once
\* its transaction is over - however requests, rollbacks and crashes mix.
SpentOnce ==
    /\ \A f, g \in db.files : f[2] = g[2] => f = g
    /\ owner = NoOwner => \A f \in db.files : db.up[f[2]] = "none"

\* A file row and a finished upload always find their blob's row: no delete,
\* by a request or by the sweep, slips in between a check and a reference.
RowsBacked ==
    /\ \A f \in db.files : Content[f[2]] \in db.blobs
    /\ \A u \in Upload : db.up[u] = "done" => Content[u] \in db.blobs

\* A link the sweep has released holds no files.  One that did would hold
\* references nothing ever gives back (the add-files handler's comment).
ReleasedHoldsNothing == \A f \in db.files : f[1] \notin db.released

\* What a link or a finished upload refers to is on disk, at every moment and
\* after every crash.  ("This order can only leak a file", deleteOrphanBlobs;
\* "the condition and the delete cannot race", deleteIfOrphaned.)
ReferencedOnDisk == \A h \in db.blobs : Referenced(db, h) => h \in blobFile

\* Outside a transaction refcount is at least the number of file rows, so a
\* count of 0 means what the sweep takes it to mean.
NeverUndercounted ==
    owner = NoOwner => \A h \in Hash : Cardinality(RowsWith(db, h)) <= db.refs[h]

\* "Decrement exactly once per file row" (releaseLapsedShares): outside a
\* transaction refcount is the number of file rows that refer to the blob.
RefcountExact ==
    owner = NoOwner => \A h \in Hash : db.refs[h] = Cardinality(RowsWith(db, h))

\* A working link loses a file only to its owner's own removal of that file:
\* no sweep, no other link's removal and no crash takes it.
Removes(t, f) == At(t, "remove_commit") /\ arg[t].s = f[1] /\ arg[t].u = f[2]
Dead(s) == s \in lapsed \/ durable.sh[s] = "revoked"
WorkingLinksKeepFiles ==
    [][\A f \in durable.files \ durable'.files :
          Dead(f[1]) \/ \E t \in Workers : Removes(t, f)]_vars

\* "Revocation is therefore immediate" (DESIGN.md): once the owner has been
\* told that a link is revoked, it is.
RevokedStaysRevoked == \A s \in acked : db.sh[s] # "live"

\* Every link that expires or is revoked is released by some sweep (or it was
\* never committed).
LapsedReleased ==
    \A s \in Share : Dead(s) ~> s \in durable.released \/ durable.sh[s] = "none"

\* A blob nothing counts or refers to does not stay: it is collected, or
\* something refers to it again.
OrphansCollected == \A h \in Hash : Orphaned(db, h) ~> ~Orphaned(db, h)

=============================================================================
