---------------------------- MODULE ShareStoreProofs ----------------------------
(***************************************************************************)
(* What holds of ShareStore for any number of workers, uploads, links and  *)
(* contents, however requests, the sweep, rollbacks and crashes mix; and   *)
(* in the last section, what holds of them one at a time.                  *)
(***************************************************************************)
EXTENDS ShareStore, FiniteSetTheorems, TLAPS

-----------------------------------------------------------------------------
(* Types: TypeOK needs to know what a thread holds at the steps that write *)
(* it somewhere.                                                           *)

Args == [u : Upload \union {Nil}, s : Share \union {Nil}, h : Hash \union {Nil}]

HoldsUpload == {"move", "insert", "complete", "link"}
HoldsShare  == {"create", "attach", "attach_more", "link", "count", "consume",
                "add", "add_check", "revoke_changes"}

\* What a thread holds is of the kind its next steps need, and h is what the
\* bytes of u hash to.
ArgOK ==
    \A t \in Threads :
        /\ pc[t] \in HoldsUpload => arg[t].u \in Upload /\ arg[t].h = Content[arg[t].u]
        /\ pc[t] \in HoldsShare => arg[t].s \in Share

ConnOK ==
    /\ db \in Tables /\ durable \in Tables
    /\ owner \in Threads \union {NoOwner} /\ chg \in BOOLEAN
ThreadsOK == pc \in [Threads -> Labels] /\ arg \in [Threads -> Args]
RestOK ==
    /\ work \in (SUBSET Share) \union (SUBSET Upload) \union (SUBSET Hash)
    /\ blobFile \subseteq Hash /\ incoming \subseteq Upload
    /\ lapsed \subseteq Share /\ young \subseteq Hash /\ acked \subseteq Share

LEMMA NoArgsType == NoArgs \in Args
BY DEF NoArgs, Args

\* The connection keeps its types when the tables written are tables.
LEMMA QueryType == ASSUME ConnOK, Query PROVE ConnOK'
BY DEF ConnOK, Query, conn

LEMMA ExecuteType ==
    ASSUME ConnOK, NEW d \in Tables, NEW x \in BOOLEAN, Execute(d, x) PROVE ConnOK'
BY DEF ConnOK, Execute

LEMMA TransactionType ==
    ASSUME ConnOK, NEW t \in Threads, Begin(t) \/ Commit(t) \/ Rollback(t) \/ Reopen
    PROVE  ConnOK'
BY DEF ConnOK, Begin, Commit, Rollback, Reopen

\* A thread that moves with well-typed arguments leaves the threads well typed.
LEMMA EnterType ==
    ASSUME ThreadsOK, ArgOK, NEW t \in Threads, NEW l \in Labels, NEW a \in Args, Enter(t, l, a),
           l \in HoldsUpload => a.u \in Upload /\ a.h = Content[a.u],
           l \in HoldsShare => a.s \in Share
    PROVE  ThreadsOK' /\ ArgOK'
BY DEF ThreadsOK, ArgOK, Enter

LEMMA GotoType ==
    ASSUME ThreadsOK, ArgOK, NEW t \in Threads, NEW l \in Labels, Goto(t, l),
           l \in HoldsUpload => pc[t] \in HoldsUpload,
           l \in HoldsShare => pc[t] \in HoldsShare
    PROVE  ThreadsOK' /\ ArgOK'
BY DEF ThreadsOK, ArgOK, Goto

LEMMA ReturnType ==
    ASSUME ThreadsOK, ArgOK, NEW t \in Threads, Return(t) PROVE ThreadsOK' /\ ArgOK'
BY EnterType, NoArgsType DEF Return, Labels, HoldsUpload, HoldsShare

LEMMA ElsewhereType == ASSUME RestOK, Elsewhere PROVE RestOK'
BY DEF RestOK, Elsewhere, disk, clock


Types == ConnOK /\ ThreadsOK /\ RestOK /\ ArgOK

LEMMA TypesTypeOK == Types => TypeOK
BY DEF Types, TypeOK, ConnOK, ThreadsOK, RestOK, Args

\* The forms most steps have.
LEMMA BeginType ==
    ASSUME Types, NEW t \in Threads, NEW l \in Labels, NEW m \in Labels, BeginAt(t, l, m),
           m \in HoldsUpload => l \in HoldsUpload, m \in HoldsShare => l \in HoldsShare
    PROVE  Types'
BY TransactionType, GotoType, ElsewhereType DEF Types, BeginAt, At

LEMMA CommitType ==
    ASSUME Types, NEW t \in Threads, NEW l \in Labels, NEW m \in Labels, CommitAt(t, l, m),
           m \notin HoldsUpload, m \notin HoldsShare
    PROVE  Types'
BY TransactionType, GotoType, ElsewhereType DEF Types, CommitAt, At

LEMMA ThrowType == ASSUME Types, NEW t \in Threads, Throw(t) PROVE Types'
BY TransactionType, ReturnType, ElsewhereType DEF Types, Throw

LEMMA LoadType ==
    ASSUME Types, NEW t \in Threads, NEW l \in Labels, NEW a \in Args, Load(t, l, a),
           l \notin HoldsUpload, l \in HoldsShare => a.s \in Share
    PROVE  Types'
BY QueryType, EnterType, ElsewhereType DEF Types, Load

\* The edits of the tables, column by column.
LEMMA EditTypes ==
    ASSUME NEW d \in Tables
    PROVE  /\ \A u \in Upload \union {Nil}, x \in UploadStates : [d EXCEPT !.up[u] = x] \in Tables
           /\ \A s \in Share \union {Nil}, x \in ShareStates : [d EXCEPT !.sh[s] = x] \in Tables
           /\ \A h \in Hash \union {Nil}, n \in Nat : [d EXCEPT !.refs[h] = n] \in Tables
           /\ \A fs \in SUBSET (Share \X Upload) : [d EXCEPT !.files = fs] \in Tables
           /\ \A hs \in SUBSET Hash : [d EXCEPT !.blobs = hs] \in Tables
           /\ \A ss \in SUBSET Share : [d EXCEPT !.released = ss] \in Tables
           /\ \A h \in Hash : WithoutBlob(d, h) \in Tables
           /\ \A hs \in SUBSET Hash : Dereferenced(d, hs) \in Tables
<1>1. \A n \in Nat : Less1(n) \in Nat
  BY DEF Less1
<1>2. ASSUME NEW hs \in SUBSET Hash PROVE Dereferenced(d, hs) \in Tables
  BY <1>1 DEF Tables, Dereferenced
<1>3. QED
  BY <1>2 DEF Tables, WithoutBlob

LEMMA InitTypes == Init => Types
<1> SUFFICES ASSUME Init PROVE Types
  OBVIOUS
<1>1. ConnOK
  BY DEF Init, ConnOK, Tables, UploadStates, ShareStates
<1>2. ThreadsOK /\ ArgOK
  BY NoArgsType DEF Init, ThreadsOK, ArgOK, Labels, HoldsUpload, HoldsShare
<1>3. RestOK
  BY DEF Init, RestOK
<1> QED
  BY <1>1, <1>2, <1>3 DEF Types

LEMMA RequestTypes ==
    ASSUME Types, NEW t \in Workers, Request(t) PROVE Types'
<1> t \in Threads
  BY DEF Threads
<1> USE DEF HoldsUpload, HoldsShare, Labels
<1>1. ASSUME NEW u \in Upload, PatchLoad(t, u) PROVE Types'
  BY <1>1, LoadType DEF PatchLoad, NoArgs, Args
<1>2. ASSUME NEW u \in Upload, TerminateLoad(t, u) PROVE Types'
  BY <1>2, LoadType, ContentHashed DEF TerminateLoad, Args
<1>3. ASSUME NEW s \in Share, CreateBegin(t, s) PROVE Types'
  <2>1. [NoArgs EXCEPT !.s = s] \in Args /\ [NoArgs EXCEPT !.s = s].s = s
    BY DEF NoArgs, Args
  <2> QED
    BY <1>3, <2>1, TransactionType, EnterType, ElsewhereType DEF Types, CreateBegin
<1>4. ASSUME NEW s \in Share, AddLoad(t, s) PROVE Types'
  <2>1. [NoArgs EXCEPT !.s = s] \in Args /\ [NoArgs EXCEPT !.s = s].s = s
    BY DEF NoArgs, Args
  <2> QED
    BY <1>4, <2>1, LoadType DEF AddLoad
<1>5. ASSUME NEW s \in Share, Revoke(t, s) PROVE Types'
  <2>1. [NoArgs EXCEPT !.s = s] \in Args /\ [NoArgs EXCEPT !.s = s].s = s
    BY DEF NoArgs, Args
  <2>2. [db EXCEPT !.sh[s] = "revoked"] \in Tables /\ (db.sh[s] = "live") \in BOOLEAN
    BY EditTypes DEF Types, ConnOK, ShareStates
  <2> QED
    BY <1>5, <2>1, <2>2, ExecuteType, EnterType, ElsewhereType DEF Types, Revoke
<1>6. ASSUME NEW s \in Share, NEW u \in Upload, RemoveLoad(t, s, u) PROVE Types'
  BY <1>6, LoadType, ContentHashed DEF RemoveLoad, Args
<1>7. ASSUME OtherStatement(t) PROVE Types'
  BY <1>7, ExecuteType, ElsewhereType
     DEF OtherStatement, Types, ThreadsOK, ArgOK, ConnOK
<1>8. ASSUME OtherBegin(t) PROVE Types'
  BY <1>8, BeginType DEF OtherBegin
<1> QED
  BY <1>1, <1>2, <1>3, <1>4, <1>5, <1>6, <1>7, <1>8 DEF Request

LEMMA PromotionTypes ==
    ASSUME Types, NEW t \in Threads,
           PatchOffset(t) \/ PromoteHash(t) \/ PromoteMove(t) \/ PromoteInsert(t) \/ PromoteComplete(t)
    PROVE  Types'
<1> USE DEF HoldsUpload, HoldsShare, Labels
<1> arg[t] \in Args /\ arg[t].u \in Upload \union {Nil}
  BY DEF Types, ThreadsOK, Args
<1>1. CASE PatchOffset(t)
  <2>1. [db EXCEPT !.up[arg[t].u] = IF @ = "open" THEN "full" ELSE @] \in Tables
    BY DEF Types, ConnOK, Tables, UploadStates
  <2> QED
    BY <1>1, <2>1, ExecuteType, GotoType, ElsewhereType DEF Types, Statement, At, PatchOffset
<1>2. CASE PromoteHash(t)
  <2>1. CASE arg[t].u \in incoming
    <3>1. /\ [arg[t] EXCEPT !.h = Content[arg[t].u]] \in Args
          /\ [arg[t] EXCEPT !.h = Content[arg[t].u]].u = arg[t].u
          /\ [arg[t] EXCEPT !.h = Content[arg[t].u]].h = Content[arg[t].u]
          /\ arg[t].u \in Upload
      BY <2>1, ContentHashed DEF Types, RestOK, Args
    <3> QED
      BY <1>2, <2>1, <3>1, QueryType, EnterType, ElsewhereType DEF Types, PromoteHash
  <2>2. CASE arg[t].u \notin incoming
    BY <1>2, <2>2, QueryType, ReturnType, ElsewhereType DEF Types, PromoteHash
  <2> QED
    BY <2>1, <2>2
<1>3. CASE PromoteMove(t)
  <2>1. arg[t].h \in Hash
    BY <1>3, ContentHashed DEF PromoteMove, At, Types, ArgOK
  <2>2. ThreadsOK' /\ ArgOK'
    BY <1>3, GotoType, ReturnType DEF PromoteMove, At, Types
  <2> QED
    BY <1>3, <2>1, <2>2, QueryType DEF Types, PromoteMove, RestOK, disk, clock
<1>4. CASE PromoteInsert(t)
  <2>1. arg[t].h \in Hash
    BY <1>4, ContentHashed DEF PromoteInsert, At, Types, ArgOK
  <2>2. [db EXCEPT !.blobs = @ \union {arg[t].h}] \in Tables
    BY <2>1 DEF Types, ConnOK, Tables
  <2>3. ThreadsOK' /\ ArgOK'
    BY <1>4, GotoType DEF PromoteInsert, At, Types
  <2> QED
    BY <1>4, <2>1, <2>2, <2>3, ExecuteType DEF Types, PromoteInsert, RestOK, disk
<1>5. CASE PromoteComplete(t)
  <2>1. [db EXCEPT !.up[arg[t].u] = IF @ = "none" THEN @ ELSE "done"] \in Tables
    BY DEF Types, ConnOK, Tables, UploadStates
  <2>2. (db.up[arg[t].u] # "none") \in BOOLEAN
    OBVIOUS
  <2>3. ConnOK'
    BY <1>5, <2>1, <2>2, ExecuteType, QueryType DEF PromoteComplete, Types
  <2> QED
    BY <1>5, <2>3, ReturnType, ElsewhereType DEF Types, PromoteComplete
<1> QED
  BY <1>1, <1>2, <1>3, <1>4, <1>5

LEMMA OrphanTypes ==
    ASSUME Types, NEW t \in Threads,
           OrphanDelete(t) \/ OrphanChanges(t) \/ OrphanFiles(t) \/ TerminateRow(t) \/ TerminateFile(t)
    PROVE  Types'
<1> USE DEF HoldsUpload, HoldsShare, Labels
<1>1. CASE OrphanDelete(t)
  <2>1. (IF Orphaned(db, arg[t].h) THEN WithoutBlob(db, arg[t].h) ELSE db) \in Tables
    <3>1. Orphaned(db, arg[t].h) => arg[t].h \in Hash
      BY DEF Orphaned, Types, ConnOK, Tables
    <3> QED
      BY <3>1, EditTypes DEF Types, ConnOK
  <2>2. ConnOK'
    BY <1>1, <2>1 DEF OrphanDelete, Statement, Execute, Types, ConnOK, Orphaned
  <2> QED
    BY <1>1, <2>2, GotoType, ElsewhereType DEF Types, Statement, At, OrphanDelete
<1>2. CASE OrphanChanges(t)
  BY <1>2, QueryType, GotoType, ReturnType, ElsewhereType DEF Types, OrphanChanges
<1>3. CASE OrphanFiles(t)
  BY <1>3, QueryType, ReturnType DEF Types, OrphanFiles, RestOK, clock
<1>4. CASE TerminateRow(t)
  <2>1. WithoutUpload(db, arg[t].u) \in Tables
    BY DEF WithoutUpload, Types, ConnOK, Tables, UploadStates
  <2> QED
    BY <1>4, <2>1, ExecuteType, GotoType, ElsewhereType DEF Types, Statement, At, TerminateRow
<1>5. CASE TerminateFile(t)
  BY <1>5, QueryType, GotoType, ReturnType DEF Types, TerminateFile, RestOK, clock
<1> QED
  BY <1>1, <1>2, <1>3, <1>4, <1>5

LEMMA AttachTypes ==
    ASSUME Types, NEW t \in Threads,
           \/ CreateInsert(t) \/ \E u \in Upload : AttachSelect(t, u)
           \/ AttachReject(t) \/ AttachLink(t) \/ AttachCount(t)
           \/ AttachConsume(t) \/ AttachCommit(t)
    PROVE  Types'
<1> USE DEF HoldsUpload, HoldsShare, Labels
<1> arg[t] \in Args
  BY DEF Types, ThreadsOK
<1>1. CASE CreateInsert(t)
  <2>1. [db EXCEPT !.sh[arg[t].s] = "live"] \in Tables
    BY DEF Types, ConnOK, Tables, ShareStates
  <2> QED
    BY <1>1, <2>1, ExecuteType, GotoType, ElsewhereType DEF Types, Statement, At, CreateInsert
<1>2. ASSUME NEW u \in Upload, AttachSelect(t, u) PROVE Types'
  <2>1. /\ [arg[t] EXCEPT !.u = u, !.h = Content[u]] \in Args
        /\ [arg[t] EXCEPT !.u = u, !.h = Content[u]].u = u
        /\ [arg[t] EXCEPT !.u = u, !.h = Content[u]].h = Content[u]
        /\ [arg[t] EXCEPT !.u = u, !.h = Content[u]].s = arg[t].s
    BY ContentHashed DEF Args
  <2>2. arg[t].s \in Share
    BY <1>2 DEF AttachSelect, Attaching, Types, ArgOK
  <2> QED
    BY <1>2, <2>1, <2>2, QueryType, EnterType, ElsewhereType DEF Types, AttachSelect
<1>3. CASE AttachReject(t)
  BY <1>3, ThrowType DEF AttachReject
<1>4. CASE AttachLink(t)
  <2>1. CASE At(t, "link") /\ Throw(t)
    BY <2>1, ThrowType
  <2>2. CASE Statement(t, "link", "count", [db EXCEPT !.files = @ \union {<<arg[t].s, arg[t].u>>}], TRUE)
    <3>1. arg[t].s \in Share /\ arg[t].u \in Upload
      BY <2>2 DEF Statement, At, Types, ArgOK
    <3>2. [db EXCEPT !.files = @ \union {<<arg[t].s, arg[t].u>>}] \in Tables
      BY <3>1 DEF Types, ConnOK, Tables
    <3> QED
      BY <2>2, <3>2, ExecuteType, GotoType, ElsewhereType DEF Types, Statement, At
  <2> QED
    BY <1>4, <2>1, <2>2 DEF AttachLink
<1>5. CASE AttachCount(t)
  <2>1. [db EXCEPT !.refs[arg[t].h] = IF arg[t].h \in db.blobs THEN @ + 1 ELSE @] \in Tables
    BY DEF Types, ConnOK, Tables
  <2>2. ConnOK'
    BY <1>5, <2>1 DEF AttachCount, Statement, Execute, Types, ConnOK
  <2> QED
    BY <1>5, <2>1, <2>2, GotoType, ElsewhereType DEF Types, Statement, At, AttachCount
<1>6. CASE AttachConsume(t)
  <2>1. WithoutUpload(db, arg[t].u) \in Tables
    BY DEF WithoutUpload, Types, ConnOK, Tables, UploadStates
  <2> QED
    BY <1>6, <2>1, ExecuteType, GotoType, ElsewhereType DEF Types, Statement, At, AttachConsume
<1>7. CASE AttachCommit(t)
  BY <1>7, TransactionType, ReturnType, ElsewhereType DEF Types, AttachCommit
<1> QED
  BY <1>1, <1>2, <1>3, <1>4, <1>5, <1>6, <1>7

LEMMA RemovalTypes ==
    ASSUME Types, NEW t \in Threads,
           \/ AddBegin(t) \/ AddCheck(t) \/ RemoveBegin(t) \/ RemoveRow(t) \/ RemoveCount(t)
           \/ RemoveLast(t) \/ RemoveCommit(t) \/ RevokeChanges(t)
           \/ OtherCommit(t) \/ OtherThrow(t) \/ BeginRefused(t)
    PROVE  Types'
<1> USE DEF HoldsUpload, HoldsShare, Labels
<1>1. CASE AddBegin(t)
  BY <1>1, BeginType DEF AddBegin
<1>2. CASE AddCheck(t)
  <2>1. CASE Throw(t)
    BY <2>1, ThrowType
  <2>2. CASE Query /\ Goto(t, "attach") /\ Elsewhere
    BY <1>2, <2>2, QueryType, GotoType, ElsewhereType DEF Types, AddCheck, At
  <2> QED
    BY <1>2, <2>1, <2>2 DEF AddCheck
<1>3. CASE RemoveBegin(t)
  BY <1>3, BeginType DEF RemoveBegin
<1>4. CASE RemoveRow(t)
  <2>1. [db EXCEPT !.files = @ \ {<<arg[t].s, arg[t].u>>}] \in Tables
    BY DEF Types, ConnOK, Tables
  <2>2. ConnOK'
    BY <1>4, <2>1 DEF RemoveRow, Statement, Execute, Types, ConnOK
  <2> QED
    BY <1>4, <2>2, GotoType, ElsewhereType DEF Types, Statement, At, RemoveRow
<1>5. CASE RemoveCount(t)
  <2>1. Dereferenced(db, {arg[t].h} \intersect db.blobs) \in Tables
    <3>1. {arg[t].h} \intersect db.blobs \in SUBSET Hash
      BY DEF Types, ConnOK, Tables
    <3> QED
      BY <3>1, EditTypes DEF Types, ConnOK
  <2>2. ConnOK'
    BY <1>5, <2>1 DEF RemoveCount, Statement, Execute, Types, ConnOK
  <2> QED
    BY <1>5, <2>2, GotoType, ElsewhereType DEF Types, Statement, At, RemoveCount
<1>6. CASE RemoveLast(t)
  <2>1. [db EXCEPT !.sh[arg[t].s] = IF @ = "none" THEN @ ELSE "revoked"] \in Tables
    BY DEF Types, ConnOK, Tables, ShareStates
  <2>2. ConnOK'
    BY <1>6, <2>1, QueryType DEF RemoveLast, Statement, Execute, Types, ConnOK
  <2> QED
    BY <1>6, <2>2, GotoType, ElsewhereType DEF Types, Statement, At, RemoveLast
<1>7. CASE RemoveCommit(t)
  BY <1>7, CommitType DEF RemoveCommit
<1>8. CASE RevokeChanges(t)
  <2>1. arg[t].s \in Share
    BY <1>8 DEF RevokeChanges, At, Types, ArgOK
  <2> QED
    BY <1>8, <2>1, QueryType, ReturnType DEF Types, RevokeChanges, RestOK, disk, clock
<1>9. CASE OtherCommit(t)
  BY <1>9, CommitType DEF OtherCommit
<1>10. CASE OtherThrow(t)
  BY <1>10, ThrowType DEF OtherThrow
<1>11. CASE BeginRefused(t)
  BY <1>11, QueryType, ReturnType, ElsewhereType DEF Types, BeginRefused, BeginFails
<1> QED
  BY <1>1, <1>2, <1>3, <1>4, <1>5, <1>6, <1>7, <1>8, <1>9, <1>10, <1>11

LEMMA HandlerTypes == ASSUME Types, NEW t \in Workers, Handler(t) PROVE Types'
BY PromotionTypes, OrphanTypes, AttachTypes, RemovalTypes DEF Handler, Threads

LEMMA SelectType ==
    ASSUME Types, NEW l \in Labels, l \notin HoldsUpload, l \notin HoldsShare,
           NEW rows \in (SUBSET Share) \union (SUBSET Upload) \union (SUBSET Hash), Select(rows, l)
    PROVE  Types'
BY QueryType, GotoType DEF Types, Select, RestOK, disk, clock, Threads

LEMMA TakeType ==
    ASSUME Types, NEW l \in Labels, l \notin HoldsUpload, l \notin HoldsShare,
           NEW a \in Args, Take(l, a)
    PROVE  ThreadsOK' /\ ArgOK'
BY EnterType DEF Types, Take, Threads

LEMMA ContinueType ==
    ASSUME Types, NEW l \in Labels, l \notin HoldsUpload, l \notin HoldsShare,
           NEW x, Continue(l, x)
    PROVE  ThreadsOK' /\ ArgOK' /\ work' \in (SUBSET Share) \union (SUBSET Upload) \union (SUBSET Hash)
BY TakeType, NoArgsType DEF Types, Continue, RestOK

LEMMA AbortType == ASSUME Types, Abort PROVE Types'
BY QueryType, ReturnType DEF Types, Abort, RestOK, disk, clock, Threads

LEMMA ReleaseTypes ==
    ASSUME Types,
           \/ SweepStart \/ \E s \in Share : ReleaseBegin(s)
           \/ ReleaseRefused \/ ReleaseCount \/ ReleaseFiles \/ ReleaseMark \/ ReleaseCommit
    PROVE  Types'
<1> USE DEF HoldsUpload, HoldsShare, Labels
<1> Sweeper \in Threads
  BY DEF Threads
<1>1. CASE SweepStart
  BY <1>1, SelectType DEF SweepStart
<1>2. ASSUME NEW s \in Share, ReleaseBegin(s) PROVE Types'
  <2>1. [NoArgs EXCEPT !.s = s] \in Args
    BY DEF NoArgs, Args
  <2> QED
    BY <1>2, <2>1, TransactionType, TakeType, ElsewhereType DEF Types, ReleaseBegin
<1>3. CASE ReleaseRefused
  BY <1>3, AbortType DEF ReleaseRefused
<1>4. CASE ReleaseCount
  <2>1. Dereferenced(db, {Content[f[2]] : f \in FilesOf(db, its.s)} \intersect db.blobs) \in Tables
    <3>1. {Content[f[2]] : f \in FilesOf(db, its.s)} \intersect db.blobs \in SUBSET Hash
      BY DEF Types, ConnOK, Tables
    <3> QED
      BY <3>1, EditTypes DEF Types, ConnOK
  <2>2. ConnOK'
    BY <1>4, <2>1 DEF ReleaseCount, Statement, Execute, Types, ConnOK
  <2> QED
    BY <1>4, <2>2, GotoType, ElsewhereType DEF Types, Statement, At, ReleaseCount
<1>5. CASE ReleaseFiles
  <2>1. [db EXCEPT !.files = @ \ FilesOf(db, its.s)] \in Tables
    BY DEF Types, ConnOK, Tables
  <2>2. ConnOK'
    BY <1>5, <2>1 DEF ReleaseFiles, Statement, Execute, Types, ConnOK
  <2> QED
    BY <1>5, <2>2, GotoType, ElsewhereType DEF Types, Statement, At, ReleaseFiles
<1>6. CASE ReleaseMark
  <2> DEFINE ss == {its.s} \intersect {x \in Share : db.sh[x] # "none"}
  <2>1. [db EXCEPT !.released = @ \union ss] \in Tables
    BY DEF Types, ConnOK, Tables
  <2>2. ConnOK'
    BY <1>6, <2>1 DEF ReleaseMark, Statement, Execute, Types, ConnOK
  <2> QED
    BY <1>6, <2>2, GotoType, ElsewhereType DEF Types, Statement, At, ReleaseMark
<1>7. CASE ReleaseCommit
  BY <1>7, TransactionType, ContinueType DEF Types, ReleaseCommit, RestOK, disk, clock
<1> QED
  BY <1>1, <1>2, <1>3, <1>4, <1>5, <1>6, <1>7

LEMMA CollectTypes ==
    ASSUME Types,
           \/ ExpireSelect \/ ExpireFile \/ \E u \in Upload : ExpireRow(u)
           \/ CollectSelect \/ CollectChanges \/ CollectFiles
           \/ \E h \in Hash : CollectRow(h)
           \/ SweepStray
    PROVE  Types'
<1> USE DEF HoldsUpload, HoldsShare, Labels
<1> Sweeper \in Threads
  BY DEF Threads
<1>1. CASE ExpireSelect
  <2>1. PICK us \in SUBSET Upload : Select(us, "expire")
    BY <1>1 DEF ExpireSelect
  <2>2. us \in (SUBSET Share) \union (SUBSET Upload) \union (SUBSET Hash)
    OBVIOUS
  <2> QED
    BY <2>1, <2>2, SelectType
<1>2. CASE ExpireFile
  BY <1>2, QueryType, ContinueType DEF Types, ExpireFile, RestOK, clock
<1>3. ASSUME NEW u \in Upload, ExpireRow(u) PROVE Types'
  <2>1. [NoArgs EXCEPT !.u = u] \in Args
    BY DEF NoArgs, Args
  <2>2. WithoutUpload(db, u) \in Tables
    BY DEF WithoutUpload, Types, ConnOK, Tables, UploadStates
  <2>3. ConnOK'
    BY <1>3, <2>2 DEF ExpireRow, Execute, Types, ConnOK
  <2> QED
    BY <1>3, <2>1, <2>3, TakeType, ElsewhereType DEF Types, ExpireRow
<1>4. CASE CollectSelect
  <2>1. PICK hs \in SUBSET Hash : Select(hs, "collect")
    BY <1>4 DEF CollectSelect
  <2>2. hs \in (SUBSET Share) \union (SUBSET Upload) \union (SUBSET Hash)
    OBVIOUS
  <2> QED
    BY <2>1, <2>2, SelectType
<1>5. CASE CollectChanges
  <2>1. CASE chg
    BY <1>5, <2>1, QueryType, GotoType DEF Types, CollectChanges, RestOK, disk, clock
  <2>2. CASE ~chg
    BY <1>5, <2>2, QueryType, ContinueType DEF Types, CollectChanges, RestOK, disk, clock
  <2> QED
    BY <2>1, <2>2
<1>6. CASE CollectFiles
  BY <1>6, QueryType, ContinueType DEF Types, CollectFiles, RestOK, clock
<1>7. ASSUME NEW h \in Hash, CollectRow(h) PROVE Types'
  <2>1. CASE Abort
    BY <2>1, AbortType
  <2>2. CASE ~Abort
    <3>1. [NoArgs EXCEPT !.h = h] \in Args
      BY DEF NoArgs, Args
    <3>2. WithoutBlob(db, h) \in Tables
      BY EditTypes DEF Types, ConnOK
    <3>3. ConnOK'
      BY <1>7, <2>2, <3>2 DEF CollectRow, Execute, Types, ConnOK
    <3> QED
      BY <1>7, <2>2, <3>1, <3>3, TakeType, ElsewhereType DEF Types, CollectRow
  <2> QED
    BY <2>1, <2>2
<1>8. CASE SweepStray
  BY <1>8, QueryType, ReturnType DEF Types, SweepStray, RestOK, clock
<1> QED
  BY <1>1, <1>2, <1>3, <1>4, <1>5, <1>6, <1>7, <1>8

LEMMA WorldTypes == ASSUME Types, World PROVE Types'
<1>1. ASSUME NEW s \in Share, Lapse(s) PROVE Types'
  BY <1>1 DEF Lapse, Types, ConnOK, ThreadsOK, ArgOK, RestOK, conn, disk
<1>2. ASSUME NEW h \in Hash, Age(h) PROVE Types'
  BY <1>2 DEF Age, Types, ConnOK, ThreadsOK, ArgOK, RestOK, conn, disk
<1>3. CASE Crash
  <2>1. ThreadsOK' /\ ArgOK'
    BY <1>3, NoArgsType DEF Crash, ThreadsOK, ArgOK, Labels, HoldsUpload, HoldsShare
  <2> QED
    BY <1>3, <2>1 DEF Crash, Reopen, Types, ConnOK, RestOK, disk, clock
<1> QED
  BY <1>1, <1>2, <1>3 DEF World

LEMMA NextTypes == ASSUME Types, [Next]_vars PROVE Types'
<1>1. CASE UNCHANGED vars
  BY <1>1 DEF vars, conn, disk, clock, Types, ConnOK, ThreadsOK, ArgOK, RestOK
<1> QED
  BY <1>1, RequestTypes, HandlerTypes, ReleaseTypes, CollectTypes, WorldTypes
     DEF Next, Requests, Sweep

\* Every state of every behaviour has its types: what the connection holds is
\* always a set of tables, and no count goes below zero.
THEOREM TypeCorrect == Spec => []TypeOK
<1>1. Spec => []Types
  BY InitTypes, NextTypes, PTL DEF Spec
<1> QED
  BY <1>1, TypesTypeOK, PTL

-----------------------------------------------------------------------------
(* Safety.  A thread is in the middle of a transaction exactly when it owns *)
(* the connection's; that, and what such a thread knows of the rows it is   *)
(* about to write, is what makes the invariants inductive.                  *)

TxLabels == {"create", "attach", "link", "count", "consume", "attach_more", "add_check",
             "remove_row", "remove_count", "remove_last", "remove_commit", "other",
             "rel_count", "rel_files", "rel_mark", "rel_commit"}

Owned ==
    /\ \A t \in Threads : owner = t <=> pc[t] \in TxLabels
    /\ owner = NoOwner => db = durable

\* What holds of the tables d at every moment.
Backed(d) ==
    /\ \A f \in d.files : Content[f[2]] \in d.blobs
    /\ \A u \in Upload : d.up[u] = "done" => Content[u] \in d.blobs
OneLink(d) == \A f, g \in d.files : f[2] = g[2] => f = g
Closed(d) ==
    /\ \A f \in d.files : f[1] \notin d.released
    /\ \A s \in d.released : d.sh[s] # "none"
Sound(d) == Backed(d) /\ OneLink(d) /\ Closed(d)

\* An upload with a file row is spent, or its spender has yet to consume it.
Spending(u) == \E t \in Threads : pc[t] \in {"count", "consume"} /\ arg[t].u = u
Spent ==
    /\ \A f \in durable.files : durable.up[f[2]] = "none"
    /\ \A f \in db.files : db.up[f[2]] = "none" \/ Spending(f[2])

\* What a thread inside a transaction knows of the rows it will write.
Filling == {"create", "attach", "link", "count", "consume", "attach_more"}
Knows(t) ==
    /\ pc[t] = "link" => \A f \in db.files : f[2] # arg[t].u
    /\ pc[t] \in Filling => arg[t].s \notin db.released
    /\ pc[t] = "rel_mark" => \A f \in db.files : f[1] # arg[t].s

Safe ==
    /\ Owned
    /\ Sound(db) /\ Sound(durable)
    /\ Spent
    /\ \A t \in Threads : Knows(t)

LEMMA InitSafe == Init => Safe
BY ThreadsApart DEF Init, Safe, Owned, Sound, Backed, OneLink, Closed, Spent, Knows, TxLabels, Filling

\* The thread t moves, the others stay.
OnlyMoves(t) == \A v \in Threads : v # t => pc'[v] = pc[v] /\ arg'[v] = arg[v]

LEMMA MovesAlone ==
    ASSUME Types, NEW t \in Threads, NEW l, NEW a, Enter(t, l, a) \/ Goto(t, l) \/ Return(t)
    PROVE  OnlyMoves(t)
BY DEF Types, ThreadsOK, Enter, Goto, Return, OnlyMoves

\* A step outside of transactions may run at any moment, inside somebody
\* else's transaction too: it must add no file row, bring no upload back, and
\* release no link.
Shrinks(d) ==
    /\ d.files \subseteq db.files /\ d.released \subseteq db.released
    /\ \A f \in d.files : db.up[f[2]] = "none" => d.up[f[2]] = "none"

LEMMA OutsideStep ==
    ASSUME Types, Safe, NEW t \in Threads, NEW d,
           pc[t] \notin TxLabels, pc'[t] \notin TxLabels, OnlyMoves(t),
           Sound(d), Shrinks(d),
           owner' = owner, db' = d, durable' = IF owner = NoOwner THEN d ELSE durable
    PROVE  Safe'
<1>1. Owned'
  BY DEF Safe, Owned, OnlyMoves
<1>2. Sound(db)' /\ Sound(durable)'
  BY DEF Safe
<1>3. Spent'
  <2>1. \A u : Spending(u) => Spending(u)'
    BY DEF Spending, OnlyMoves, TxLabels
  <2>2. \A f \in db'.files : db'.up[f[2]] = "none" \/ Spending(f[2])'
    BY <2>1 DEF Safe, Spent, Shrinks
  <2>3. CASE owner = NoOwner
    <3>1. \A u : ~Spending(u)
      BY <2>3, ThreadsApart DEF Safe, Owned, Spending, TxLabels
    <3> QED
      BY <2>2, <2>3, <3>1 DEF Safe, Spent, Shrinks
  <2>4. CASE owner # NoOwner
    BY <2>2, <2>4 DEF Safe, Spent
  <2> QED
    BY <2>3, <2>4
<1>4. ASSUME NEW v \in Threads PROVE Knows(v)'
  BY DEF Safe, Knows, Shrinks, OnlyMoves, TxLabels, Filling
<1> QED
  BY <1>1, <1>2, <1>3, <1>4 DEF Safe

\* Outside of transactions, and nothing is written.
LEMMA QuietStep ==
    ASSUME Types, Safe, NEW t \in Threads,
           pc[t] \notin TxLabels, pc'[t] \notin TxLabels, OnlyMoves(t), Query
    PROVE  Safe'
<1>1. Sound(db) /\ Shrinks(db)
  BY DEF Safe, Shrinks
<1>2. db' = db /\ owner' = owner /\ durable' = IF owner = NoOwner THEN db ELSE durable
  BY DEF Query, conn, Safe, Owned
<1> QED
  BY <1>1, <1>2, OutsideStep

\* The first step of a transaction.
LEMMA BeginStep ==
    ASSUME Types, Safe, NEW t \in Threads, Begin(t), OnlyMoves(t),
           pc'[t] \in TxLabels, Knows(t)'
    PROVE  Safe'
<1>1. Owned'
  BY ThreadsApart DEF Safe, Owned, OnlyMoves, Begin
<1>2. \A v \in Threads : pc[v] \notin TxLabels
  BY ThreadsApart DEF Safe, Owned, Begin
<1>3. Spent'
  BY <1>2 DEF Safe, Spent, Spending, Begin, TxLabels
<1>4. ASSUME NEW v \in Threads PROVE Knows(v)'
  BY <1>2 DEF Knows, OnlyMoves, TxLabels, Filling
<1> QED
  BY <1>1, <1>3, <1>4 DEF Safe, Begin

\* A step inside the transaction: only what its own thread knows is at stake.
LEMMA InsideStep ==
    ASSUME Types, Safe, NEW t \in Threads, OnlyMoves(t),
           pc[t] \in TxLabels, pc'[t] \in TxLabels, owner' = owner, durable' = durable,
           Sound(db'), \A f \in db'.files : db'.up[f[2]] = "none" \/ Spending(f[2])', Knows(t)'
    PROVE  Safe'
<1>0. owner = t /\ \A v \in Threads : v # t => pc[v] \notin TxLabels
  BY DEF Safe, Owned
<1>1. Owned'
  BY <1>0, ThreadsApart DEF Safe, Owned, OnlyMoves
<1>2. Spent'
  BY DEF Safe, Spent
<1>3. ASSUME NEW v \in Threads PROVE Knows(v)'
  BY <1>0 DEF Knows, OnlyMoves, TxLabels, Filling
<1> QED
  BY <1>1, <1>2, <1>3 DEF Safe

\* COMMIT, when no upload is left half spent, and ROLLBACK.
LEMMA EndStep ==
    ASSUME Types, Safe, NEW t \in Threads, OnlyMoves(t), pc'[t] \notin TxLabels,
           \/ Commit(t) /\ pc[t] \notin {"count", "consume"}
           \/ Rollback(t)
    PROVE  Safe'
<1>0. pc[t] \in TxLabels /\ \A v \in Threads : v # t => pc[v] \notin TxLabels
  BY DEF Safe, Owned, Commit, Rollback
<1>1. Owned'
  BY <1>0, ThreadsApart DEF Owned, OnlyMoves, Commit, Rollback
<1>2. Spent'
  <2>1. CASE Commit(t) /\ pc[t] \notin {"count", "consume"}
    <3>1. \A u : ~Spending(u)
      BY <1>0, <2>1 DEF Spending, TxLabels
    <3> QED
      BY <2>1, <3>1 DEF Safe, Spent, Commit
  <2>2. CASE Rollback(t)
    BY <2>2 DEF Safe, Spent, Rollback
  <2> QED
    BY <2>1, <2>2
<1>3. ASSUME NEW v \in Threads PROVE Knows(v)'
  BY <1>0 DEF Knows, OnlyMoves, TxLabels, Filling
<1> QED
  BY <1>1, <1>2, <1>3 DEF Safe, Commit, Rollback

\* Edits that take rows away, or touch only counts, keep the tables sound.
LEMMA SmallerSound ==
    ASSUME Sound(db), NEW d, d.blobs = db.blobs, d.up = db.up, d.sh = db.sh,
           d.released = db.released, d.files \subseteq db.files
    PROVE  Sound(d) /\ Shrinks(d)
BY DEF Sound, Backed, OneLink, Closed, Shrinks

\* Edits of the uploads' states: "done" only with the blob's row.
LEMMA UploadSound ==
    ASSUME Types, Safe, NEW u \in Upload \union {Nil}, NEW x \in UploadStates,
           u \in Upload /\ x = "done" => Content[u] \in db.blobs \/ db.up[u] = "done",
           u \in Upload /\ db.up[u] = "none" => x = "none"
    PROVE  Sound([db EXCEPT !.up[u] = x]) /\ Shrinks([db EXCEPT !.up[u] = x])
<1> DEFINE d == [db EXCEPT !.up[u] = x]
<1>1. /\ d.blobs = db.blobs /\ d.sh = db.sh /\ d.released = db.released /\ d.files = db.files
      /\ \A v \in Upload : d.up[v] = IF v = u THEN x ELSE db.up[v]
  BY DEF Types, ConnOK, Tables
<1>2. \A f \in db.files : f[2] \in Upload
  BY DEF Types, ConnOK, Tables
<1> QED
  BY <1>1, <1>2 DEF Safe, Sound, Backed, OneLink, Closed, Shrinks

\* A link's state never goes back to "none".
LEMMA LinkSound ==
    ASSUME Types, Safe, NEW s \in Share \union {Nil}, NEW x \in ShareStates,
           s \in Share /\ x = "none" => db.sh[s] = "none"
    PROVE  Sound([db EXCEPT !.sh[s] = x]) /\ Shrinks([db EXCEPT !.sh[s] = x])
<1> DEFINE d == [db EXCEPT !.sh[s] = x]
<1>1. /\ d.blobs = db.blobs /\ d.up = db.up /\ d.released = db.released /\ d.files = db.files
      /\ \A v \in Share : d.sh[v] = IF v = s THEN x ELSE db.sh[v]
  BY DEF Types, ConnOK, Tables
<1>2. db.released \subseteq Share
  BY DEF Types, ConnOK, Tables
<1> QED
  BY <1>1, <1>2 DEF Safe, Sound, Backed, OneLink, Closed, Shrinks

\* A blob that nothing refers to may go.
LEMMA BlobGoneSound ==
    ASSUME Types, Safe, NEW h \in Hash, ~Referenced(db, h)
    PROVE  Sound(WithoutBlob(db, h)) /\ Shrinks(WithoutBlob(db, h))
<1> DEFINE d == WithoutBlob(db, h)
<1>1. /\ d.blobs = db.blobs \ {h} /\ d.up = db.up /\ d.released = db.released
      /\ d.files = db.files /\ d.sh = db.sh
  BY DEF Types, ConnOK, Tables, WithoutBlob
<1> QED
  BY <1>1 DEF Safe, Sound, Backed, OneLink, Closed, Shrinks, Referenced, RowsWith

\* One more blob row.
LEMMA BlobMadeSound ==
    ASSUME Types, Safe, NEW h \in Hash
    PROVE  Sound([db EXCEPT !.blobs = @ \union {h}]) /\ Shrinks([db EXCEPT !.blobs = @ \union {h}])
<1> DEFINE d == [db EXCEPT !.blobs = @ \union {h}]
<1>1. /\ d.blobs = db.blobs \union {h} /\ d.up = db.up /\ d.released = db.released
      /\ d.files = db.files /\ d.sh = db.sh
  BY DEF Types, ConnOK, Tables
<1> QED
  BY <1>1 DEF Safe, Sound, Backed, OneLink, Closed, Shrinks

LEMMA RequestSafe ==
    ASSUME Types, Safe, NEW t \in Workers, Request(t) PROVE Safe'
<1> t \in Threads /\ pc \in [Threads -> Labels] /\ arg \in [Threads -> Args]
  BY DEF Threads, Types, ThreadsOK
<1> USE DEF TxLabels
<1>1. ASSUME NEW l, NEW a, Load(t, l, a), l \notin TxLabels PROVE Safe'
  <2>1. OnlyMoves(t)
    BY <1>1, MovesAlone DEF Load
  <2> QED
    BY <1>1, <2>1, QuietStep DEF Load, Idle, At, Enter
<1>2. ASSUME NEW s \in Share, CreateBegin(t, s) PROVE Safe'
  <2>1. OnlyMoves(t)
    BY <1>2, MovesAlone DEF CreateBegin
  <2>2. [NoArgs EXCEPT !.s = s].s = s
    BY DEF NoArgs
  <2>3. pc'[t] = "create" /\ arg'[t].s = s /\ db' = db
    BY <1>2, <2>2 DEF CreateBegin, Begin, Enter
  <2>4. Knows(t)'
    BY <1>2, <2>3 DEF CreateBegin, Knows, Filling, Safe, Sound, Closed
  <2> QED
    BY <1>2, <2>1, <2>3, <2>4, BeginStep DEF CreateBegin
<1>3. ASSUME NEW s \in Share, Revoke(t, s) PROVE Safe'
  <2>1. OnlyMoves(t)
    BY <1>3, MovesAlone DEF Revoke
  <2>2. Sound([db EXCEPT !.sh[s] = "revoked"]) /\ Shrinks([db EXCEPT !.sh[s] = "revoked"])
    BY LinkSound DEF ShareStates
  <2> QED
    BY <1>3, <2>1, <2>2, OutsideStep DEF Revoke, Idle, At, Enter, Execute
<1>4. CASE OtherStatement(t)
  <2>1. Sound(db) /\ Shrinks(db)
    BY DEF Safe, Shrinks
  <2> QED
    BY <1>4, <2>1, OutsideStep DEF OtherStatement, Idle, At, Execute, OnlyMoves
<1>5. CASE OtherBegin(t)
  <2>1. OnlyMoves(t)
    BY <1>5, MovesAlone DEF OtherBegin, BeginAt
  <2>2. pc'[t] = "other"
    BY <1>5 DEF OtherBegin, BeginAt, Goto
  <2> QED
    BY <1>5, <2>1, <2>2, BeginStep DEF OtherBegin, BeginAt, Knows, Filling
<1> QED
  BY <1>1, <1>2, <1>3, <1>4, <1>5 DEF Request, PatchLoad, TerminateLoad, AddLoad, RemoveLoad

LEMMA PromotionSafe ==
    ASSUME Types, Safe, NEW t \in Threads,
           PatchOffset(t) \/ PromoteHash(t) \/ PromoteMove(t) \/ PromoteInsert(t) \/ PromoteComplete(t)
    PROVE  Safe'
<1> pc \in [Threads -> Labels] /\ arg \in [Threads -> Args] /\ arg[t].u \in Upload \union {Nil}
  BY DEF Types, ThreadsOK, Args
<1> USE DEF TxLabels
<1>1. CASE PatchOffset(t)
  <2> DEFINE u == arg[t].u
             x == IF db.up[u] = "open" THEN "full" ELSE IF u \in Upload THEN db.up[u] ELSE "none"
             d == [db EXCEPT !.up[u] = IF @ = "open" THEN "full" ELSE @]
  <2>1. d = [db EXCEPT !.up[u] = x] /\ x \in UploadStates
    BY DEF Types, ConnOK, Tables, UploadStates
  <2>2. Sound(d) /\ Shrinks(d)
    BY <2>1, UploadSound
  <2>3. OnlyMoves(t)
    BY <1>1, MovesAlone DEF PatchOffset, Statement
  <2> QED
    BY <1>1, <2>2, <2>3, OutsideStep DEF PatchOffset, Statement, At, Goto, Execute
<1>2. CASE PromoteHash(t)
  <2>1. OnlyMoves(t)
    BY <1>2, MovesAlone DEF PromoteHash
  <2> QED
    BY <1>2, <2>1, QuietStep DEF PromoteHash, At, Enter, Return
<1>3. CASE PromoteMove(t)
  <2>1. OnlyMoves(t)
    BY <1>3, MovesAlone DEF PromoteMove
  <2> QED
    BY <1>3, <2>1, QuietStep DEF PromoteMove, At, Goto, Enter, Return
<1>4. CASE PromoteInsert(t)
  <2>1. OnlyMoves(t)
    BY <1>4, MovesAlone DEF PromoteInsert
  <2>2. arg[t].h \in Hash
    BY <1>4, ContentHashed DEF PromoteInsert, At, Types, ArgOK, HoldsUpload
  <2>3. /\ Sound([db EXCEPT !.blobs = @ \union {arg[t].h}])
        /\ Shrinks([db EXCEPT !.blobs = @ \union {arg[t].h}])
    BY <2>2, BlobMadeSound
  <2> QED
    BY <1>4, <2>1, <2>3, OutsideStep DEF PromoteInsert, At, Goto, Execute
<1>5. CASE PromoteComplete(t)
  <2> DEFINE u == arg[t].u
             x == IF db.up[u] = "none" THEN "none" ELSE "done"
             d == [db EXCEPT !.up[u] = IF @ = "none" THEN @ ELSE "done"]
  <2>1. OnlyMoves(t)
    BY <1>5, MovesAlone DEF PromoteComplete
  <2>2. pc[t] \notin TxLabels /\ pc'[t] \notin TxLabels
    BY <1>5 DEF PromoteComplete, At, Return, Enter
  <2>3. CASE Query
    BY <2>1, <2>2, <2>3, QuietStep
  <2>4. CASE ~Query
    <3>1. u \in Upload /\ arg[t].h = Content[u]
      BY <1>5 DEF PromoteComplete, At, Types, ArgOK, HoldsUpload
    <3>2. Execute(d, db.up[u] # "none") /\ (db.up[u] = "none" \/ Content[u] \in db.blobs)
      BY <1>5, <2>4, <3>1 DEF PromoteComplete
    <3>3. d = [db EXCEPT !.up[u] = x] /\ x \in UploadStates
      BY DEF Types, ConnOK, Tables, UploadStates
    <3>4. Sound(d) /\ Shrinks(d)
      BY <3>1, <3>2, <3>3, UploadSound
    <3> QED
      BY <2>1, <2>2, <3>2, <3>4, OutsideStep DEF Execute
  <2> QED
    BY <2>3, <2>4
<1> QED
  BY <1>1, <1>2, <1>3, <1>4, <1>5

\* DELETE FROM uploads takes an upload away, whoever runs it.
LEMMA WithoutUploadSound ==
    ASSUME Types, Safe, NEW u \in Upload \union {Nil}
    PROVE  Sound(WithoutUpload(db, u)) /\ Shrinks(WithoutUpload(db, u))
BY UploadSound DEF WithoutUpload, UploadStates

LEMMA OrphanSafe ==
    ASSUME Types, Safe, NEW t \in Threads,
           OrphanDelete(t) \/ OrphanChanges(t) \/ OrphanFiles(t) \/ TerminateRow(t) \/ TerminateFile(t)
    PROVE  Safe'
<1> pc \in [Threads -> Labels] /\ arg \in [Threads -> Args] /\ arg[t].u \in Upload \union {Nil}
  BY DEF Types, ThreadsOK, Args
<1> USE DEF TxLabels
<1>1. CASE OrphanDelete(t)
  <2> DEFINE h == arg[t].h
             d == IF Orphaned(db, h) THEN WithoutBlob(db, h) ELSE db
  <2>1. OnlyMoves(t)
    BY <1>1, MovesAlone DEF OrphanDelete, Statement
  <2>2. Sound(d) /\ Shrinks(d)
    <3>1. CASE Orphaned(db, h)
      <4>1. h \in Hash /\ ~Referenced(db, h)
        BY <3>1 DEF Orphaned, Types, ConnOK, Tables
      <4> QED
        BY <3>1, <4>1, BlobGoneSound
    <3>2. CASE ~Orphaned(db, h)
      BY <3>2 DEF Safe, Shrinks
    <3> QED
      BY <3>1, <3>2
  <2>3. /\ owner' = owner /\ db' = d /\ durable' = IF owner = NoOwner THEN d ELSE durable
        /\ pc[t] = "orphan" /\ pc'[t] = "orphan_changes"
    BY <1>1 DEF OrphanDelete, Statement, At, Goto, Execute
  <2> QED
    BY <2>1, <2>2, <2>3, OutsideStep
<1>2. CASE OrphanChanges(t)
  <2>1. OnlyMoves(t)
    BY <1>2, MovesAlone DEF OrphanChanges
  <2> QED
    BY <1>2, <2>1, QuietStep DEF OrphanChanges, At, Goto, Enter, Return
<1>3. CASE OrphanFiles(t)
  <2>1. OnlyMoves(t)
    BY <1>3, MovesAlone DEF OrphanFiles
  <2> QED
    BY <1>3, <2>1, QuietStep DEF OrphanFiles, At, Enter, Return
<1>4. CASE TerminateRow(t)
  <2>1. OnlyMoves(t)
    BY <1>4, MovesAlone DEF TerminateRow, Statement
  <2> QED
    BY <1>4, <2>1, WithoutUploadSound, OutsideStep DEF TerminateRow, Statement, At, Goto, Execute
<1>5. CASE TerminateFile(t)
  <2>1. OnlyMoves(t)
    BY <1>5, MovesAlone DEF TerminateFile
  <2> QED
    BY <1>5, <2>1, QuietStep DEF TerminateFile, At, Goto, Enter, Return
<1> QED
  BY <1>1, <1>2, <1>3, <1>4, <1>5

\* Spending an upload: from the SELECT that finds it finished to the DELETE
\* that takes its row, inside one transaction.
LEMMA AttachSafe ==
    ASSUME Types, Safe, NEW t \in Threads,
           \/ CreateInsert(t) \/ \E u \in Upload : AttachSelect(t, u)
           \/ AttachReject(t) \/ AttachLink(t) \/ AttachCount(t)
           \/ AttachConsume(t) \/ AttachCommit(t)
    PROVE  Safe'
<1> /\ pc \in [Threads -> Labels] /\ arg \in [Threads -> Args]
    /\ arg[t].u \in Upload \union {Nil} /\ arg[t].s \in Share \union {Nil}
  BY DEF Types, ThreadsOK, Args
<1> USE DEF TxLabels, Filling
<1>0. Sound(db) /\ Knows(t)
  BY DEF Safe
<1>1. CASE CreateInsert(t)
  <2> DEFINE s == arg[t].s
             d == [db EXCEPT !.sh[s] = "live"]
  <2>1. OnlyMoves(t)
    BY <1>1, MovesAlone DEF CreateInsert, Statement
  <2>2. pc[t] = "create" /\ pc'[t] = "attach" /\ arg' = arg /\ db' = d /\ owner' = owner
    BY <1>1 DEF CreateInsert, Statement, At, Goto, Execute
  <2>3. owner = t /\ durable' = durable
    BY <1>1, <2>2, ThreadsApart DEF Safe, Owned, CreateInsert, Statement, Execute
  <2>4. d.files = db.files /\ d.up = db.up /\ d.released = db.released
    BY DEF Types, ConnOK, Tables
  <2>5. Sound(d)
    BY LinkSound DEF ShareStates
  <2>6. \A u : ~Spending(u)
    BY <2>2, <2>3 DEF Safe, Owned, Spending
  <2>7. \A f \in db'.files : db'.up[f[2]] = "none"
    BY <2>2, <2>4, <2>6 DEF Safe, Spent
  <2>8. Knows(t)'
    BY <1>0, <2>2, <2>4 DEF Knows
  <2> QED
    BY <2>1, <2>2, <2>3, <2>5, <2>7, <2>8, InsideStep
<1>2. ASSUME NEW u \in Upload, AttachSelect(t, u) PROVE Safe'
  <2>1. OnlyMoves(t)
    BY <1>2, MovesAlone DEF AttachSelect
  <2>2. /\ pc[t] \in {"attach", "attach_more"} /\ pc'[t] = "link"
        /\ arg'[t].u = u /\ arg'[t].s = arg[t].s
        /\ db' = db /\ owner' = owner /\ durable' = durable /\ db.up[u] = "done"
    BY <1>2 DEF AttachSelect, Attaching, Enter, Query, conn, Args
  <2>3. \A v : ~Spending(v)
    BY <2>2, ThreadsApart DEF Safe, Owned, Spending
  <2>4. \A f \in db.files : db.up[f[2]] = "none"
    BY <2>3 DEF Safe, Spent
  <2>5. Knows(t)'
    BY <1>0, <2>2, <2>4 DEF Knows
  <2> QED
    BY <1>0, <2>1, <2>2, <2>4, <2>5, InsideStep
<1>3. CASE AttachReject(t)
  <2>1. OnlyMoves(t)
    BY <1>3, MovesAlone DEF AttachReject, Throw
  <2> QED
    BY <1>3, <2>1, EndStep DEF AttachReject, Throw, Return, Enter
<1>4. CASE AttachLink(t)
  <2>1. CASE At(t, "link") /\ Throw(t)
    <3>1. OnlyMoves(t)
      BY <2>1, MovesAlone DEF Throw
    <3> QED
      BY <2>1, <3>1, EndStep DEF Throw, Return, Enter
  <2>2. CASE /\ arg[t].h \in db.blobs
             /\ Statement(t, "link", "count", [db EXCEPT !.files = @ \union {<<arg[t].s, arg[t].u>>}], TRUE)
    <3> DEFINE f0 == <<arg[t].s, arg[t].u>>
               d == [db EXCEPT !.files = @ \union {f0}]
    <3>1. OnlyMoves(t)
      BY <2>2, MovesAlone DEF Statement
    <3>2. pc[t] = "link" /\ pc'[t] = "count" /\ arg' = arg /\ db' = d /\ owner' = owner
      BY <2>2 DEF Statement, At, Goto, Execute
    <3>3. owner = t /\ durable' = durable
      BY <2>2, <3>2, ThreadsApart DEF Safe, Owned, Statement, Execute
    <3>4. /\ d.files = db.files \union {f0} /\ d.up = db.up /\ d.released = db.released
          /\ d.blobs = db.blobs /\ d.sh = db.sh
      BY DEF Types, ConnOK, Tables
    <3>5. /\ \A f \in db.files : f[2] # arg[t].u
          /\ arg[t].s \notin db.released /\ arg[t].h = Content[arg[t].u]
      BY <1>0, <3>2 DEF Knows, Types, ArgOK, HoldsUpload
    <3>6. Sound(d)
      BY <1>0, <2>2, <3>4, <3>5 DEF Sound, Backed, OneLink, Closed
    <3>7. \A v : ~Spending(v)
      BY <3>2, ThreadsApart DEF Safe, Owned, Spending
    <3>8. \A f \in db'.files : db'.up[f[2]] = "none" \/ Spending(f[2])'
      <4>1. Spending(f0[2])'
        BY <3>2 DEF Spending
      <4> QED
        BY <3>2, <3>4, <3>7, <4>1 DEF Safe, Spent
    <3>9. Knows(t)'
      BY <1>0, <3>2, <3>4 DEF Knows
    <3> QED
      BY <3>1, <3>2, <3>3, <3>6, <3>8, <3>9, InsideStep
  <2> QED
    BY <1>4, <2>1, <2>2 DEF AttachLink
<1>5. CASE AttachCount(t)
  <2> DEFINE h == arg[t].h
             d == [db EXCEPT !.refs[h] = IF h \in db.blobs THEN @ + 1 ELSE @]
  <2>1. OnlyMoves(t)
    BY <1>5, MovesAlone DEF AttachCount, Statement
  <2>2. pc[t] = "count" /\ pc'[t] = "consume" /\ arg' = arg /\ db' = d /\ owner' = owner
    BY <1>5 DEF AttachCount, Statement, At, Goto, Execute
  <2>3. owner = t /\ durable' = durable
    BY <1>5, <2>2, ThreadsApart DEF Safe, Owned, AttachCount, Statement, Execute
  <2>4. /\ d.files = db.files /\ d.up = db.up /\ d.released = db.released
        /\ d.blobs = db.blobs /\ d.sh = db.sh
    BY DEF Types, ConnOK, Tables
  <2>5. Sound(d)
    BY <1>0, <2>4, SmallerSound
  <2>6. \A u : Spending(u) => Spending(u)'
    BY <2>1, <2>2 DEF Spending, OnlyMoves
  <2>7. \A f \in db'.files : db'.up[f[2]] = "none" \/ Spending(f[2])'
    BY <2>2, <2>4, <2>6 DEF Safe, Spent
  <2>8. Knows(t)'
    BY <1>0, <2>2, <2>4 DEF Knows
  <2> QED
    BY <2>1, <2>2, <2>3, <2>5, <2>7, <2>8, InsideStep
<1>6. CASE AttachConsume(t)
  <2> DEFINE u == arg[t].u
             d == WithoutUpload(db, u)
  <2>1. OnlyMoves(t)
    BY <1>6, MovesAlone DEF AttachConsume, Statement
  <2>2. pc[t] = "consume" /\ pc'[t] = "attach_more" /\ arg' = arg /\ db' = d /\ owner' = owner
    BY <1>6 DEF AttachConsume, Statement, At, Goto, Execute
  <2>3. owner = t /\ durable' = durable
    BY <1>6, <2>2, ThreadsApart DEF Safe, Owned, AttachConsume, Statement, Execute
  <2>4. /\ d.files = db.files /\ d.released = db.released
        /\ \A v \in Upload : d.up[v] = IF v = u THEN "none" ELSE db.up[v]
    BY DEF Types, ConnOK, Tables, WithoutUpload
  <2>5. Sound(d)
    BY WithoutUploadSound
  <2>6. \A v : Spending(v) => v = u
    BY <2>2, <2>3 DEF Safe, Owned, Spending
  <2>7. \A f \in db'.files : db'.up[f[2]] = "none"
    <3>1. \A f \in db.files : f[2] \in Upload
      BY DEF Types, ConnOK, Tables
    <3> QED
      BY <2>2, <2>4, <2>6, <3>1 DEF Safe, Spent
  <2>8. Knows(t)'
    BY <1>0, <2>2, <2>4 DEF Knows
  <2> QED
    BY <2>1, <2>2, <2>3, <2>5, <2>7, <2>8, InsideStep
<1>7. CASE AttachCommit(t)
  <2>1. OnlyMoves(t)
    BY <1>7, MovesAlone DEF AttachCommit
  <2> QED
    BY <1>7, <2>1, EndStep DEF AttachCommit, At, Return, Enter
<1> QED
  BY <1>1, <1>2, <1>3, <1>4, <1>5, <1>6, <1>7

\* Removing a file, revoking, and other handlers' transactions.
LEMMA RemovalSafe ==
    ASSUME Types, Safe, NEW t \in Threads,
           \/ AddBegin(t) \/ AddCheck(t) \/ RemoveBegin(t) \/ RemoveRow(t) \/ RemoveCount(t)
           \/ RemoveLast(t) \/ RemoveCommit(t) \/ RevokeChanges(t)
           \/ OtherCommit(t) \/ OtherThrow(t) \/ BeginRefused(t)
    PROVE  Safe'
<1> /\ pc \in [Threads -> Labels] /\ arg \in [Threads -> Args]
    /\ arg[t].u \in Upload \union {Nil} /\ arg[t].s \in Share \union {Nil}
  BY DEF Types, ThreadsOK, Args
<1> USE DEF TxLabels, Filling
<1>0. Sound(db) /\ Knows(t)
  BY DEF Safe
<1>1. ASSUME NEW l, BeginAt(t, l, "add_check") \/ BeginAt(t, l, "remove_row") PROVE Safe'
  <2>1. OnlyMoves(t)
    BY <1>1, MovesAlone DEF BeginAt
  <2>2. pc'[t] \in {"add_check", "remove_row"}
    BY <1>1 DEF BeginAt, Goto
  <2> QED
    BY <1>1, <2>1, <2>2, BeginStep DEF BeginAt, Knows
<1>2. CASE AddCheck(t)
  <2>1. CASE Throw(t)
    <3>1. OnlyMoves(t)
      BY <2>1, MovesAlone DEF Throw
    <3> QED
      BY <2>1, <3>1, EndStep DEF Throw, Return, Enter
  <2>2. CASE arg[t].s \notin db.released /\ Query /\ Goto(t, "attach")
    <3>1. OnlyMoves(t)
      BY <2>2, MovesAlone
    <3>2. /\ pc[t] = "add_check" /\ pc'[t] = "attach" /\ arg' = arg
          /\ db' = db /\ owner' = owner /\ durable' = durable
      BY <1>2, <2>2 DEF AddCheck, At, Goto, Query, conn
    <3>3. \A u : ~Spending(u)
      BY <3>2, ThreadsApart DEF Safe, Owned, Spending
    <3>4. \A f \in db.files : db.up[f[2]] = "none"
      BY <3>3 DEF Safe, Spent
    <3>5. Knows(t)'
      BY <2>2, <3>2 DEF Knows
    <3> QED
      BY <1>0, <3>1, <3>2, <3>4, <3>5, InsideStep
  <2> QED
    BY <1>2, <2>1, <2>2 DEF AddCheck
\* The statements of the removal: rows, counts and the link's state.
<1>3. ASSUME NEW d, NEW x, NEW m \in {"remove_count", "remove_last", "remove_commit"},
             \E l \in {"remove_row", "remove_count", "remove_last"} : Statement(t, l, m, d, x),
             Sound(d), Shrinks(d), d.up = db.up
      PROVE  Safe'
  <2>1. OnlyMoves(t)
    BY <1>3, MovesAlone DEF Statement
  <2>2. /\ pc[t] \in {"remove_row", "remove_count", "remove_last"} /\ pc'[t] = m
        /\ arg' = arg /\ db' = d /\ owner' = owner
    BY <1>3 DEF Statement, At, Goto, Execute
  <2>3. owner = t /\ durable' = durable
    BY <1>3, <2>2, ThreadsApart DEF Safe, Owned, Statement, Execute
  <2>4. \A u : ~Spending(u)
    BY <2>2, <2>3 DEF Safe, Owned, Spending
  <2>5. \A f \in db'.files : db'.up[f[2]] = "none"
    BY <1>3, <2>2, <2>4 DEF Safe, Spent, Shrinks
  <2>6. Knows(t)'
    BY <2>2 DEF Knows
  <2> QED
    BY <1>3, <2>1, <2>2, <2>3, <2>5, <2>6, InsideStep
<1>4. CASE RemoveRow(t)
  <2> DEFINE d == [db EXCEPT !.files = @ \ {<<arg[t].s, arg[t].u>>}]
  <2>1. /\ d.files \subseteq db.files /\ d.up = db.up /\ d.released = db.released
        /\ d.blobs = db.blobs /\ d.sh = db.sh
    BY DEF Types, ConnOK, Tables
  <2>2. Sound(d) /\ Shrinks(d)
    BY <1>0, <2>1, SmallerSound
  <2> QED
    BY <1>3, <1>4, <2>1, <2>2 DEF RemoveRow
<1>5. CASE RemoveCount(t)
  <2> DEFINE d == Dereferenced(db, {arg[t].h} \intersect db.blobs)
  <2>1. /\ d.files = db.files /\ d.up = db.up /\ d.released = db.released
        /\ d.blobs = db.blobs /\ d.sh = db.sh
    BY DEF Types, ConnOK, Tables, Dereferenced
  <2>2. Sound(d) /\ Shrinks(d)
    BY <1>0, <2>1, SmallerSound
  <2> QED
    BY <1>3, <1>5, <2>1, <2>2 DEF RemoveCount
<1>6. CASE RemoveLast(t)
  <2> DEFINE s == arg[t].s
             x == IF s \in Share THEN IF db.sh[s] = "none" THEN "none" ELSE "revoked" ELSE "none"
             d == [db EXCEPT !.sh[s] = IF @ = "none" THEN @ ELSE "revoked"]
  <2>1. CASE Statement(t, "remove_last", "remove_commit", d, db.sh[s] # "none")
    <3>1. d = [db EXCEPT !.sh[s] = x] /\ x \in ShareStates /\ d.up = db.up
      BY DEF Types, ConnOK, Tables, ShareStates
    <3>2. Sound(d) /\ Shrinks(d)
      BY <3>1, LinkSound
    <3> QED
      BY <1>3, <2>1, <3>1, <3>2
  <2>2. CASE At(t, "remove_last") /\ Query /\ Goto(t, "remove_commit")
    <3>1. OnlyMoves(t)
      BY <2>2, MovesAlone
    <3>2. /\ pc[t] = "remove_last" /\ pc'[t] = "remove_commit" /\ arg' = arg
          /\ db' = db /\ owner' = owner /\ durable' = durable
      BY <2>2 DEF At, Goto, Query, conn
    <3>3. \A u : ~Spending(u)
      BY <3>2, ThreadsApart DEF Safe, Owned, Spending
    <3>4. \A f \in db.files : db.up[f[2]] = "none"
      BY <3>3 DEF Safe, Spent
    <3>5. Knows(t)'
      BY <3>2 DEF Knows
    <3> QED
      BY <1>0, <3>1, <3>2, <3>4, <3>5, InsideStep
  <2> QED
    BY <1>6, <2>1, <2>2 DEF RemoveLast
<1>7. ASSUME NEW l \in {"remove_commit", "other"}, NEW m \in {"orphan", "idle"}, CommitAt(t, l, m)
      PROVE  Safe'
  <2>1. OnlyMoves(t)
    BY <1>7, MovesAlone DEF CommitAt
  <2> QED
    BY <1>7, <2>1, EndStep DEF CommitAt, At, Goto
<1>8. CASE RevokeChanges(t)
  <2>1. OnlyMoves(t)
    BY <1>8, MovesAlone DEF RevokeChanges
  <2> QED
    BY <1>8, <2>1, QuietStep DEF RevokeChanges, At, Return, Enter
<1>9. CASE OtherThrow(t)
  <2>1. OnlyMoves(t)
    BY <1>9, MovesAlone DEF OtherThrow, Throw
  <2> QED
    BY <1>9, <2>1, EndStep DEF OtherThrow, Throw, Return, Enter
<1>10. CASE BeginRefused(t)
  <2>1. OnlyMoves(t)
    BY <1>10, MovesAlone DEF BeginRefused
  <2> QED
    BY <1>10, <2>1, QuietStep DEF BeginRefused, BeginFails, Return, Enter
<1> QED
  BY <1>1, <1>2, <1>4, <1>5, <1>6, <1>7, <1>8, <1>9, <1>10
     DEF AddBegin, RemoveBegin, RemoveCommit, OtherCommit

LEMMA HandlerSafe == ASSUME Types, Safe, NEW t \in Workers, Handler(t) PROVE Safe'
BY PromotionSafe, OrphanSafe, AttachSafe, RemovalSafe DEF Handler, Threads

\* Releasing a link: its files go before it is marked.
LEMMA ReleaseSafe ==
    ASSUME Types, Safe,
           \/ SweepStart \/ \E s \in Share : ReleaseBegin(s)
           \/ ReleaseRefused \/ ReleaseCount \/ ReleaseFiles \/ ReleaseMark \/ ReleaseCommit
    PROVE  Safe'
<1> /\ pc \in [Threads -> Labels] /\ arg \in [Threads -> Args] /\ Sweeper \in Threads
    /\ its.s \in Share \union {Nil}
  BY DEF Types, ThreadsOK, Args, Threads, its
<1> USE DEF TxLabels, Filling
<1>0. Sound(db) /\ Knows(Sweeper)
  BY DEF Safe
<1>1. CASE SweepStart
  <2>1. OnlyMoves(Sweeper)
    BY <1>1, MovesAlone DEF SweepStart, Select
  <2> QED
    BY <1>1, <2>1, QuietStep DEF SweepStart, Select, Sweeping, At, Goto
<1>2. ASSUME NEW s \in Share, ReleaseBegin(s) PROVE Safe'
  <2>1. OnlyMoves(Sweeper)
    BY <1>2, MovesAlone DEF ReleaseBegin, Take
  <2>2. pc'[Sweeper] = "rel_count"
    BY <1>2 DEF ReleaseBegin, Take, Enter
  <2> QED
    BY <1>2, <2>1, <2>2, BeginStep DEF ReleaseBegin, Knows
<1>3. CASE ReleaseRefused
  <2>1. OnlyMoves(Sweeper)
    BY <1>3, MovesAlone DEF ReleaseRefused, Abort
  <2> QED
    BY <1>3, <2>1, QuietStep DEF ReleaseRefused, Abort, Sweeping, At, Return, Enter
\* A statement of the release, at l.
<1>4. ASSUME NEW d, NEW x, NEW l \in {"rel_count", "rel_files", "rel_mark"},
             NEW m \in {"rel_files", "rel_mark", "rel_commit"},
             Statement(Sweeper, l, m, d, x), Sound(d), d.up = db.up, d.files \subseteq db.files,
             m = "rel_mark" => \A f \in d.files : f[1] # its.s
      PROVE  Safe'
  <2>1. OnlyMoves(Sweeper)
    BY <1>4, MovesAlone DEF Statement
  <2>2. pc[Sweeper] = l /\ pc'[Sweeper] = m /\ arg' = arg /\ db' = d /\ owner' = owner
    BY <1>4 DEF Statement, At, Goto, Execute
  <2>3. owner = Sweeper /\ durable' = durable
    BY <1>4, <2>2, ThreadsApart DEF Safe, Owned, Statement, Execute
  <2>4. \A u : ~Spending(u)
    BY <2>2, <2>3 DEF Safe, Owned, Spending
  <2>5. \A f \in db'.files : db'.up[f[2]] = "none"
    BY <1>4, <2>2, <2>4 DEF Safe, Spent
  <2>6. Knows(Sweeper)'
    BY <1>4, <2>2 DEF Knows, its
  <2> QED
    BY <1>4, <2>1, <2>2, <2>3, <2>5, <2>6, InsideStep
<1>5. CASE ReleaseCount
  <2> DEFINE d == Dereferenced(db, {Content[f[2]] : f \in FilesOf(db, its.s)} \intersect db.blobs)
  <2>1. /\ d.files = db.files /\ d.up = db.up /\ d.released = db.released
        /\ d.blobs = db.blobs /\ d.sh = db.sh
    BY DEF Types, ConnOK, Tables, Dereferenced
  <2>2. Sound(d)
    BY <1>0, <2>1, SmallerSound
  <2> QED
    BY <1>4, <1>5, <2>1, <2>2 DEF ReleaseCount
<1>6. CASE ReleaseFiles
  <2> DEFINE d == [db EXCEPT !.files = @ \ FilesOf(db, its.s)]
  <2>1. /\ d.files \subseteq db.files /\ d.up = db.up /\ d.released = db.released
        /\ d.blobs = db.blobs /\ d.sh = db.sh /\ \A f \in d.files : f[1] # its.s
    BY DEF Types, ConnOK, Tables, FilesOf
  <2>2. Sound(d)
    BY <1>0, <2>1, SmallerSound
  <2> QED
    BY <1>4, <1>6, <2>1, <2>2 DEF ReleaseFiles
<1>7. CASE ReleaseMark
  <2> DEFINE ss == {its.s} \intersect {x \in Share : db.sh[x] # "none"}
             d == [db EXCEPT !.released = @ \union ss]
  <2>1. /\ d.files = db.files /\ d.up = db.up /\ d.released = db.released \union ss
        /\ d.blobs = db.blobs /\ d.sh = db.sh
    BY DEF Types, ConnOK, Tables
  <2>2. \A f \in db.files : f[1] # its.s
    BY <1>0, <1>7 DEF ReleaseMark, Statement, At, Knows, its
  <2>3. Sound(d)
    BY <1>0, <2>1, <2>2 DEF Sound, Backed, OneLink, Closed
  <2> QED
    BY <1>4, <1>7, <2>1, <2>3 DEF ReleaseMark
<1>8. CASE ReleaseCommit
  <2>1. OnlyMoves(Sweeper)
    BY <1>8, MovesAlone DEF ReleaseCommit, Continue, Take
  <2> QED
    BY <1>8, <2>1, EndStep DEF ReleaseCommit, Sweeping, At, Continue, Take, Enter
<1> QED
  BY <1>1, <1>2, <1>3, <1>5, <1>6, <1>7, <1>8

LEMMA CollectSafe ==
    ASSUME Types, Safe,
           \/ ExpireSelect \/ ExpireFile \/ \E u \in Upload : ExpireRow(u)
           \/ CollectSelect \/ CollectChanges \/ CollectFiles
           \/ \E h \in Hash : CollectRow(h)
           \/ SweepStray
    PROVE  Safe'
<1> pc \in [Threads -> Labels] /\ arg \in [Threads -> Args] /\ Sweeper \in Threads
  BY DEF Types, ThreadsOK, Threads
<1> USE DEF TxLabels, Sweeping, At
<1>1. CASE ExpireSelect \/ CollectSelect
  <2>1. OnlyMoves(Sweeper)
    BY <1>1, MovesAlone DEF ExpireSelect, CollectSelect, Select
  <2> QED
    BY <1>1, <2>1, QuietStep DEF ExpireSelect, CollectSelect, Select, Goto
<1>2. CASE ExpireFile \/ CollectFiles
  <2>1. OnlyMoves(Sweeper)
    BY <1>2, MovesAlone DEF ExpireFile, CollectFiles, Continue, Take
  <2> QED
    BY <1>2, <2>1, QuietStep DEF ExpireFile, CollectFiles, Continue, Take, Enter
<1>3. CASE CollectChanges
  <2>1. OnlyMoves(Sweeper)
    BY <1>3, MovesAlone DEF CollectChanges, Continue, Take
  <2> QED
    BY <1>3, <2>1, QuietStep DEF CollectChanges, Continue, Take, Goto, Enter
<1>4. ASSUME NEW u \in Upload, ExpireRow(u) PROVE Safe'
  <2>1. OnlyMoves(Sweeper)
    BY <1>4, MovesAlone DEF ExpireRow, Take
  <2> QED
    BY <1>4, <2>1, WithoutUploadSound, OutsideStep DEF ExpireRow, Execute, Take, Enter
<1>5. ASSUME NEW h \in Hash, CollectRow(h) PROVE Safe'
  <2>1. CASE Abort
    <3>1. OnlyMoves(Sweeper)
      BY <2>1, MovesAlone DEF Abort
    <3> QED
      BY <1>5, <2>1, <3>1, QuietStep DEF CollectRow, Abort, Return, Enter
  <2>2. CASE ~Abort
    <3> DEFINE hit == h \in db.blobs /\ db.refs[h] = 0
               d == IF hit THEN WithoutBlob(db, h) ELSE db
    <3>1. OnlyMoves(Sweeper)
      BY <1>5, <2>2, MovesAlone DEF CollectRow, Take
    <3>2. /\ hit => ~Referenced(db, h)
          /\ owner' = owner /\ db' = d /\ durable' = IF owner = NoOwner THEN d ELSE durable
      BY <1>5, <2>2 DEF CollectRow, ForeignKeyHolds, Execute
    <3>3. Sound(d) /\ Shrinks(d)
      BY <3>2, BlobGoneSound DEF Safe, Shrinks
    <3>4. pc[Sweeper] = "collect" /\ pc'[Sweeper] = "collect_changes"
      BY <1>5, <2>2 DEF CollectRow, Take, Enter
    <3> QED
      BY <3>1, <3>2, <3>3, <3>4, OutsideStep
  <2> QED
    BY <2>1, <2>2
<1>6. CASE SweepStray
  <2>1. OnlyMoves(Sweeper)
    BY <1>6, MovesAlone DEF SweepStray
  <2> QED
    BY <1>6, <2>1, QuietStep DEF SweepStray, Return, Enter
<1> QED
  BY <1>1, <1>2, <1>3, <1>4, <1>5, <1>6

LEMMA WorldSafe == ASSUME Types, Safe, World PROVE Safe'
<1>1. ASSUME UNCHANGED <<conn, pc, arg>> PROVE Safe'
  BY <1>1 DEF conn, Safe, Owned, Sound, Backed, OneLink, Closed, Spent, Spending, Knows
<1>2. CASE Crash
  <2>1. db' = durable /\ durable' = durable /\ owner' = NoOwner
    BY <1>2 DEF Crash, Reopen
  <2>2. \A t \in Threads : pc'[t] \notin TxLabels
    BY <1>2 DEF Crash, TxLabels
  <2>3. Owned'
    BY <2>1, <2>2, ThreadsApart DEF Owned
  <2>4. Spent'
    BY <2>1 DEF Safe, Spent
  <2>5. \A t \in Threads : Knows(t)'
    BY <2>2 DEF Knows, TxLabels, Filling
  <2> QED
    BY <2>1, <2>3, <2>4, <2>5 DEF Safe
<1> QED
  BY <1>1, <1>2 DEF World, Lapse, Age

LEMMA NextSafe == ASSUME Types, Safe, [Next]_vars PROVE Safe'
<1>1. CASE UNCHANGED vars
  BY <1>1 DEF vars, conn, Safe, Owned, Sound, Backed, OneLink, Closed, Spent, Spending, Knows
<1> QED
  BY <1>1, RequestSafe, HandlerSafe, ReleaseSafe, CollectSafe, WorldSafe
     DEF Next, Requests, Sweep

LEMMA SafeProperties == Types /\ Safe => SpentOnce /\ RowsBacked /\ ReleasedHoldsNothing
<1> SUFFICES ASSUME Types, Safe PROVE SpentOnce /\ RowsBacked /\ ReleasedHoldsNothing
  OBVIOUS
<1>1. owner = NoOwner => \A u : ~Spending(u)
  BY ThreadsApart DEF Safe, Owned, Spending, TxLabels
<1>2. SpentOnce
  BY <1>1 DEF Safe, Sound, OneLink, Spent, SpentOnce
<1> QED
  BY <1>2 DEF Safe, Sound, Backed, Closed, RowsBacked, ReleasedHoldsNothing

LEMMA Invariance == Spec => [](Types /\ Safe)
<1>1. Init => Types /\ Safe
  BY InitTypes, InitSafe
<1>2. (Types /\ Safe) /\ [Next]_vars => (Types /\ Safe)'
  BY NextTypes, NextSafe
<1> QED
  BY <1>1, <1>2, PTL DEF Spec

\* No upload is ever behind two file rows, and outside of transactions every
\* upload behind one is spent: attachUploads' SELECT and DELETE hold together
\* although statements of other threads run between them.
THEOREM UploadsSpentOnce == Spec => []SpentOnce
BY Invariance, SafeProperties, PTL

\* Every file row and every finished upload has its blob's row: the foreign
\* keys and the conditions in the DELETEs suffice, whatever the interleaving.
THEOREM BlobRowsKept == Spec => []RowsBacked
BY Invariance, SafeProperties, PTL

\* A released link never holds a file again: the check the add-files handler
\* makes inside its transaction cannot be outrun by the sweep's.
THEOREM ReleasedStaysEmpty == Spec => []ReleasedHoldsNothing
BY Invariance, SafeProperties, PTL

-----------------------------------------------------------------------------
(* One at a time (SerialSpec): the counts, and the files on disk.  In the   *)
(* middle of a handler a count may be off by one, and rows may be missing   *)
(* that a restart would find; Counting and Losing say where and by what.    *)

\* What is referenced in the tables d is on disk, bs, and rows can be counted.
Solid(d, bs) ==
    IsFiniteSet(d.files) /\ \A h \in d.blobs : Referenced(d, h) => h \in bs

Counted(d) == \A h \in Hash : Cardinality(RowsWith(d, h)) <= d.refs[h]

\* Steps between a row and its count, and with rows deleted, not committed.
Midway   == {"count", "remove_count", "rel_files"}
Dropping == {"remove_count", "remove_last", "remove_commit", "rel_mark", "rel_commit"}
Releases == {"rel_count", "rel_files", "rel_mark", "rel_commit"}

Ahead(t, h) == IF pc[t] = "count" /\ arg[t].h = h THEN 1 ELSE 0
Owing(t, h) == IF pc[t] = "remove_count" /\ arg[t].h = h THEN 1 ELSE 0
Going(t)    == IF pc[t] = "rel_files" THEN FilesOf(db, arg[t].s) ELSE {}
Counting(t) == \A h \in Hash :
    Cardinality(RowsWith(db, h) \ Going(t)) + Owing(t, h) <= db.refs[h] + Ahead(t, h)

Losing(t) == \A f \in durable.files \ db.files :
    \/ pc[t] \in {"remove_count", "remove_last", "remove_commit"} /\ f = <<arg[t].s, arg[t].u>>
    \/ pc[t] \in {"rel_mark", "rel_commit"} /\ f[1] = arg[t].s

\* What the handler or the sweep at t, alone, may rely on.
Sees(t) ==
    /\ pc[t] \in {"insert", "complete"} => arg[t].h \in blobFile
    /\ pc[t] = "link" => db.up[arg[t].u] = "done"
    /\ pc[t] \in {"remove", "remove_row"} =>
          <<arg[t].s, arg[t].u>> \in db.files /\ arg[t].h = Content[arg[t].u]
    /\ pc[t] \in {"orphan_changes", "collect_changes"} /\ chg => arg[t].h \notin db.blobs
    /\ pc[t] \in {"orphan_files", "collect_files"} => arg[t].h \notin db.blobs
    /\ pc[t] \in {"release"} \union Releases => \A s \in work : Dead(s)
    /\ pc[t] \in Releases => Dead(arg[t].s) /\ db.sh = durable.sh

SerialInv ==
    /\ \A t \in Threads : pc[t] = "idle" \/ Undisturbed(t)
    /\ Solid(db, blobFile) /\ Solid(durable, blobFile) /\ Counted(durable)
    /\ \A t \in Threads : Undisturbed(t) => Counting(t) /\ Losing(t) /\ Sees(t)

\* Rows of one blob: finite, and one more or less with a row.
LEMMA RowsFinite ==
    ASSUME NEW d, IsFiniteSet(d.files), NEW h, NEW X
    PROVE  /\ IsFiniteSet(RowsWith(d, h) \ X)
           /\ Cardinality(RowsWith(d, h) \ X) \in Nat
           /\ RowsWith(d, h) \ {} = RowsWith(d, h) /\ Cardinality(RowsWith(d, h)) \in Nat
<1>1. RowsWith(d, h) \ X \subseteq d.files /\ RowsWith(d, h) \subseteq d.files
  BY DEF RowsWith
<1> QED
  BY <1>1, FS_Subset, FS_CardinalityType

\* Where no step is half done, the rows are counted.
LEMMA NotMidway ==
    ASSUME Types, SerialInv, NEW t, pc[t] \notin Midway
    PROVE  Counting(t) <=> Counted(db)
<1>1. \A h : RowsWith(db, h) \ {} = RowsWith(db, h) /\ Cardinality(RowsWith(db, h)) \in Nat
  <2>1. IsFiniteSet(db.files)
    BY DEF SerialInv, Solid
  <2> QED
    BY <2>1, RowsFinite
<1>2. \A h \in Hash : db.refs[h] \in Nat
  BY DEF Types, ConnOK, Tables
<1>3. Going(t) = {} /\ \A h : Owing(t, h) = 0 /\ Ahead(t, h) = 0
  BY DEF Going, Owing, Ahead, Midway
<1>4. ASSUME NEW h \in Hash
      PROVE  /\ Cardinality(RowsWith(db, h) \ Going(t)) + Owing(t, h) = Cardinality(RowsWith(db, h))
             /\ db.refs[h] + Ahead(t, h) = db.refs[h]
  BY <1>1, <1>2, <1>3
<1> QED
  BY <1>4 DEF Counted, Counting

LEMMA OneRowLess ==
    ASSUME NEW S, NEW T, IsFiniteSet(T), S \subseteq T, NEW f \in T, f \notin S
    PROVE  Cardinality(S) + 1 <= Cardinality(T)
<1>1. IsFiniteSet(T \ {f}) /\ Cardinality(T \ {f}) = Cardinality(T) - 1
  BY FS_RemoveElement
<1>2. S \subseteq T \ {f} /\ Cardinality(S) <= Cardinality(T \ {f})
  BY <1>1, FS_Subset
<1>3. Cardinality(S) \in Nat /\ Cardinality(T) \in Nat
  BY <1>1, <1>2, FS_Subset, FS_CardinalityType
<1> QED
  BY <1>1, <1>2, <1>3

LEMMA OneRowMore ==
    ASSUME NEW S, NEW T, IsFiniteSet(T), NEW f, S \subseteq T \union {f}
    PROVE  Cardinality(S) <= Cardinality(T) + 1
<1>1. IsFiniteSet(T \union {f}) /\ Cardinality(T \union {f}) \in {Cardinality(T), Cardinality(T) + 1}
  BY FS_AddElement, FS_CardinalityType
<1>2. Cardinality(S) <= Cardinality(T \union {f})
  BY <1>1, FS_Subset
<1>3. Cardinality(S) \in Nat /\ Cardinality(T) \in Nat
  BY <1>1, FS_Subset, FS_CardinalityType
<1> QED
  BY <1>1, <1>2, <1>3

LEMMA SerialInit == Init => SerialInv
<1> SUFFICES ASSUME Init PROVE SerialInv
  OBVIOUS
<1>1. /\ db.files = {} /\ db.blobs = {} /\ durable = db /\ db.refs = [h \in Hash |-> 0]
      /\ \A t \in Threads : pc[t] = "idle"
  BY DEF Init
<1>2. \A h, X : RowsWith(db, h) \ X = {} /\ RowsWith(db, h) = {}
  BY <1>1 DEF RowsWith
<1>3. IsFiniteSet({}) /\ Cardinality({}) = 0
  BY FS_EmptySet
<1>4. Solid(db, blobFile) /\ Counted(db)
  BY <1>1, <1>2, <1>3 DEF Solid, Counted
<1>5. ASSUME NEW t \in Threads PROVE Counting(t) /\ Losing(t) /\ Sees(t)
  BY <1>1, <1>2, <1>3 DEF Counting, Owing, Ahead, Losing, Sees, Releases
<1> QED
  BY <1>1, <1>4, <1>5 DEF SerialInv

\* What is known before a step of t, the only one that moves.
LEMMA Before ==
    ASSUME Types, Safe, SerialInv, NEW t \in Threads, Undisturbed(t)
    PROVE  /\ Counting(t) /\ Losing(t) /\ Sees(t)
           /\ pc[t] \notin TxLabels => owner = NoOwner /\ db = durable
           /\ pc[t] \in TxLabels => owner = t /\ owner # NoOwner
<1>1. Counting(t) /\ Losing(t) /\ Sees(t)
  BY DEF SerialInv
<1>2. ASSUME pc[t] \notin TxLabels PROVE owner = NoOwner
  <2>1. \A v \in Threads : pc[v] \notin TxLabels
    BY <1>2 DEF Undisturbed, At, TxLabels
  <2> QED
    BY <2>1 DEF Safe, Owned, Types, ConnOK
<1> QED
  BY <1>1, <1>2, ThreadsApart DEF Safe, Owned

\* What must be shown after it.
LEMMA After ==
    ASSUME Types, SerialInv, NEW t \in Threads, Undisturbed(t), OnlyMoves(t),
           Solid(db', blobFile'), Solid(durable', blobFile'), Counted(durable'),
           (Counting(t) /\ Losing(t) /\ Sees(t))'
    PROVE  SerialInv'
<1>1. ASSUME NEW v \in Threads, v # t PROVE pc[v] = "idle" /\ pc'[v] = "idle"
  BY <1>1 DEF Undisturbed, At, OnlyMoves
<1>2. ASSUME NEW v \in Threads PROVE pc'[v] = "idle" \/ Undisturbed(v)'
  BY <1>1 DEF Undisturbed, At
<1>3. ASSUME NEW v \in Threads, Undisturbed(v)' PROVE (Counting(v) /\ Losing(v) /\ Sees(v))'
  <2>1. CASE v = t
    BY <2>1
  <2>2. CASE v # t
    <3>1. pc'[v] = "idle" /\ pc'[t] = "idle"
      BY <1>1, <1>3, <2>2 DEF Undisturbed, At
    <3>2. Counting(v)'
      BY <3>1 DEF Counting, Owing, Ahead, Going
    <3>3. Losing(v)'
      BY <3>1 DEF Losing
    <3>4. Sees(v)'
      BY <3>1 DEF Sees, Releases
    <3> QED
      BY <3>2, <3>3, <3>4
  <2> QED
    BY <2>1, <2>2
<1> QED
  BY <1>2, <1>3 DEF SerialInv

\* The disk stays as solid when files, rows of blobs and finished uploads go.
Thinner(d, e) ==
    /\ d.files \subseteq e.files /\ d.blobs \subseteq e.blobs
    /\ \A u \in Upload : d.up[u] = "done" => e.up[u] = "done"

LEMMA ThinnerSolid ==
    ASSUME NEW d, NEW e, NEW bs, Solid(e, bs), Thinner(d, e)
    PROVE  Solid(d, bs)
<1>1. IsFiniteSet(d.files)
  BY FS_Subset DEF Solid, Thinner
<1>2. \A h : Referenced(d, h) => Referenced(e, h)
  BY DEF Referenced, RowsWith, Thinner
<1> QED
  BY <1>1, <1>2 DEF Solid, Thinner

\* The step that writes nothing, or only begins a transaction.
LEMMA SerialQuiet ==
    ASSUME Types, Safe, SerialInv, NEW t \in Threads, Undisturbed(t), OnlyMoves(t),
           db' = db, durable' = durable, blobFile' = blobFile,
           pc[t] \notin Midway, pc[t] \notin Dropping, pc'[t] \notin Midway, Sees(t)'
    PROVE  SerialInv'
<1>1. Counting(t) /\ Losing(t)
  BY Before
<1>2. Counting(t)'
  BY <1>1 DEF Counting, Owing, Ahead, Going, Midway
<1>3. Losing(t)'
  BY <1>1 DEF Losing, Dropping
<1> QED
  BY <1>2, <1>3, After DEF SerialInv

\* A statement outside of transactions touches neither file rows nor counts.
LEMMA SerialOutside ==
    ASSUME Types, Safe, SerialInv, NEW t \in Threads, Undisturbed(t), OnlyMoves(t),
           NEW d, NEW x, Execute(d, x), d.files = db.files, d.refs = db.refs,
           Solid(d, blobFile), blobFile' = blobFile,
           pc[t] \notin TxLabels, pc'[t] \notin Midway, Sees(t)'
    PROVE  SerialInv'
<1>1. Counting(t) /\ owner = NoOwner /\ db' = d /\ durable' = d
  BY Before DEF Execute
<1>2. \A h : RowsWith(d, h) = RowsWith(db, h)
  BY DEF RowsWith
<1>3. Counted(d)
  <2>1. pc[t] \notin Midway
    BY DEF Midway, TxLabels
  <2> QED
    BY <1>1, <1>2, <2>1, NotMidway DEF Counted
<1>4. Counting(t)'
  <2>1. Going(t) = {} /\ Going(t)' = {}
    BY DEF Going, Midway, TxLabels
  <2>2. \A h : Owing(t, h) = 0 /\ Ahead(t, h) = 0 /\ Owing(t, h)' = 0 /\ Ahead(t, h)' = 0
    BY DEF Owing, Ahead, Midway, TxLabels
  <2> QED
    BY <1>1, <1>2, <2>1, <2>2 DEF Counting
<1>5. Losing(t)'
  BY <1>1 DEF Losing
<1> QED
  BY <1>1, <1>3, <1>4, <1>5, After

\* A statement inside its own transaction.
LEMMA SerialInside ==
    ASSUME Types, Safe, SerialInv, NEW t \in Threads, Undisturbed(t), OnlyMoves(t),
           NEW d, NEW x, Execute(d, x), Solid(d, blobFile), blobFile' = blobFile,
           pc[t] \in TxLabels, (Counting(t) /\ Losing(t) /\ Sees(t))'
    PROVE  SerialInv'
<1>1. db' = d /\ durable' = durable
  BY Before DEF Execute
<1> QED
  BY <1>1, After DEF SerialInv

LEMMA SerialCommit ==
    ASSUME Types, Safe, SerialInv, NEW t \in Threads, Undisturbed(t), OnlyMoves(t),
           Commit(t), blobFile' = blobFile,
           pc[t] \notin Midway, pc'[t] \notin Midway, Sees(t)'
    PROVE  SerialInv'
<1>1. Counting(t) /\ db' = db /\ durable' = db
  BY Before DEF Commit
<1>2. Counting(t)'
  BY <1>1 DEF Counting, Owing, Ahead, Going, Midway
<1>3. Counted(db)
  BY <1>1, NotMidway
<1>4. Losing(t)'
  BY <1>1 DEF Losing
<1> QED
  BY <1>1, <1>2, <1>3, <1>4, After DEF SerialInv

\* ROLLBACK, and the restart after a crash: the tables are the durable ones.
LEMMA DurableCounts ==
    ASSUME Types, SerialInv, NEW t \in Threads, db' = durable, durable' = durable, pc'[t] = "idle"
    PROVE  (Counting(t) /\ Losing(t) /\ Sees(t))'
<1>1. Counting(t)'
  <2>1. \A h : RowsWith(durable, h) \ {} = RowsWith(durable, h) /\ Cardinality(RowsWith(durable, h)) \in Nat
    <3>1. IsFiniteSet(durable.files)
      BY DEF SerialInv, Solid
    <3> QED
      BY <3>1, RowsFinite
  <2>2. \A h \in Hash : durable.refs[h] \in Nat
    BY DEF Types, ConnOK, Tables
  <2> QED
    BY <2>1, <2>2 DEF SerialInv, Counted, Counting, Owing, Ahead, Going
<1> QED
  BY <1>1 DEF Losing, Sees, Releases

LEMMA SerialThrow ==
    ASSUME Types, Safe, SerialInv, NEW t \in Threads, Undisturbed(t), Throw(t)
    PROVE  SerialInv'
<1>1. OnlyMoves(t) /\ db' = durable /\ durable' = durable /\ blobFile' = blobFile
  BY MovesAlone DEF Throw, Rollback, Elsewhere, disk
<1>2. pc'[t] = "idle"
  BY DEF Throw, Return, Enter, Types, ThreadsOK
<1> QED
  BY <1>1, <1>2, DurableCounts, After DEF SerialInv

LEMMA SerialRequest ==
    ASSUME Types, Safe, SerialInv, NEW t \in Workers, Undisturbed(t), Request(t)
    PROVE  SerialInv'
<1> t \in Threads /\ pc \in [Threads -> Labels] /\ arg \in [Threads -> Args]
  BY DEF Threads, Types, ThreadsOK
<1> USE DEF Midway, Dropping
<1>0. Solid(db, blobFile)
  BY DEF SerialInv
<1>1. ASSUME NEW l, NEW a, Load(t, l, a), l \notin Midway,
             (pc'[t] = l /\ arg'[t] = a /\ db' = db) => Sees(t)'
      PROVE  SerialInv'
  <2>1. OnlyMoves(t)
    BY <1>1, MovesAlone DEF Load
  <2>2. /\ pc[t] = "idle" /\ pc'[t] = l /\ arg'[t] = a
        /\ db' = db /\ durable' = durable /\ blobFile' = blobFile
    BY <1>1 DEF Load, Idle, At, Enter, Query, conn, Elsewhere, disk
  <2> QED
    BY <1>1, <2>1, <2>2, SerialQuiet
<1>2. ASSUME NEW u \in Upload, PatchLoad(t, u) \/ TerminateLoad(t, u) PROVE SerialInv'
  BY <1>1, <1>2 DEF PatchLoad, TerminateLoad, Sees, Releases
<1>3. ASSUME NEW s \in Share, AddLoad(t, s) PROVE SerialInv'
  BY <1>1, <1>3 DEF AddLoad, Sees, Releases
<1>4. ASSUME NEW s \in Share, NEW u \in Upload, RemoveLoad(t, s, u) PROVE SerialInv'
  BY <1>1, <1>4 DEF RemoveLoad, Sees, Releases
<1>5. ASSUME NEW s \in Share, CreateBegin(t, s) PROVE SerialInv'
  <2>1. OnlyMoves(t)
    BY <1>5, MovesAlone DEF CreateBegin
  <2>2. /\ pc[t] = "idle" /\ pc'[t] = "create"
        /\ db' = db /\ durable' = durable /\ blobFile' = blobFile
    BY <1>5 DEF CreateBegin, Idle, At, Enter, Begin, Elsewhere, disk
  <2>3. Sees(t)'
    BY <2>2 DEF Sees, Releases
  <2> QED
    BY <2>1, <2>2, <2>3, SerialQuiet
<1>6. ASSUME NEW s \in Share, Revoke(t, s) PROVE SerialInv'
  <2> DEFINE d == [db EXCEPT !.sh[s] = "revoked"]
  <2>1. OnlyMoves(t)
    BY <1>6, MovesAlone DEF Revoke
  <2>2. pc[t] = "idle" /\ pc'[t] = "revoke_changes" /\ blobFile' = blobFile
    BY <1>6 DEF Revoke, Idle, At, Enter, Elsewhere, disk
  <2>3. d.files = db.files /\ d.refs = db.refs /\ d.blobs = db.blobs /\ d.up = db.up
    BY DEF Types, ConnOK, Tables
  <2>4. Solid(d, blobFile)
    BY <1>0, <2>3, ThinnerSolid DEF Thinner
  <2>5. Sees(t)'
    BY <2>2 DEF Sees, Releases
  <2> QED
    BY <1>6, <2>1, <2>2, <2>3, <2>4, <2>5, SerialOutside DEF Revoke, TxLabels
<1>7. CASE OtherStatement(t)
  <2>1. OnlyMoves(t) /\ pc[t] = "idle" /\ pc'[t] = "idle" /\ blobFile' = blobFile
    BY <1>7 DEF OtherStatement, Idle, At, OnlyMoves, Elsewhere, disk
  <2>2. Sees(t)'
    BY <2>1 DEF Sees, Releases
  <2> QED
    BY <1>0, <1>7, <2>1, <2>2, SerialOutside DEF OtherStatement, TxLabels
<1>8. CASE OtherBegin(t)
  <2>1. OnlyMoves(t)
    BY <1>8, MovesAlone DEF OtherBegin, BeginAt
  <2>2. /\ pc[t] = "idle" /\ pc'[t] = "other"
        /\ db' = db /\ durable' = durable /\ blobFile' = blobFile
    BY <1>8 DEF OtherBegin, BeginAt, At, Goto, Begin, Elsewhere, disk
  <2>3. Sees(t)'
    BY <2>2 DEF Sees, Releases
  <2> QED
    BY <2>1, <2>2, <2>3, SerialQuiet
<1> QED
  BY <1>2, <1>3, <1>4, <1>5, <1>6, <1>7, <1>8 DEF Request

\* The file comes before the row that names it, and the row before what refers
\* to it.
LEMMA SerialPromotion ==
    ASSUME Types, Safe, SerialInv, NEW t \in Threads, Undisturbed(t),
           PatchOffset(t) \/ PromoteHash(t) \/ PromoteMove(t) \/ PromoteInsert(t) \/ PromoteComplete(t)
    PROVE  SerialInv'
<1> /\ pc \in [Threads -> Labels] /\ arg \in [Threads -> Args]
    /\ arg[t].u \in Upload \union {Nil} /\ db \in Tables
  BY DEF Types, ThreadsOK, ConnOK, Args
<1> USE DEF Midway, Dropping
<1>0. Solid(db, blobFile) /\ Solid(durable, blobFile) /\ Sees(t)
  BY DEF SerialInv
<1>1. CASE PatchOffset(t)
  <2> DEFINE u == arg[t].u
             d == [db EXCEPT !.up[u] = IF @ = "open" THEN "full" ELSE @]
  <2>1. OnlyMoves(t)
    BY <1>1, MovesAlone DEF PatchOffset, Statement
  <2>2. pc[t] = "offset" /\ pc'[t] = "hash" /\ blobFile' = blobFile
    BY <1>1 DEF PatchOffset, Statement, At, Goto, Elsewhere, disk
  <2>3. /\ d.files = db.files /\ d.refs = db.refs /\ d.blobs = db.blobs
        /\ \A v \in Upload : d.up[v] = "done" => db.up[v] = "done"
    BY DEF Tables
  <2>4. Solid(d, blobFile)
    <3>1. Thinner(d, db)
      BY <2>3 DEF Thinner
    <3> HIDE DEF d
    <3> QED
      BY <1>0, <3>1, ThinnerSolid
  <2>5. Sees(t)'
    BY <2>2 DEF Sees, Releases
  <2> QED
    BY <1>1, <2>1, <2>2, <2>3, <2>4, <2>5, SerialOutside DEF PatchOffset, Statement, TxLabels
<1>2. CASE PromoteHash(t)
  <2>1. OnlyMoves(t)
    BY <1>2, MovesAlone DEF PromoteHash
  <2>2. /\ pc[t] = "hash" /\ pc'[t] \in {"move", "idle"}
        /\ db' = db /\ durable' = durable /\ blobFile' = blobFile
    BY <1>2 DEF PromoteHash, At, Return, Enter, Query, conn, Elsewhere, disk
  <2>3. Sees(t)'
    BY <2>2 DEF Sees, Releases
  <2> QED
    BY <2>1, <2>2, <2>3, SerialQuiet
<1>3. CASE PromoteMove(t)
  <2>1. OnlyMoves(t)
    BY <1>3, MovesAlone DEF PromoteMove
  <2>2. pc[t] = "move" /\ db' = db /\ durable' = durable
    BY <1>3 DEF PromoteMove, At, Query, conn
  <2>3. CASE Return(t)
    <3>1. pc'[t] = "idle"
      BY <2>3 DEF Return, Enter
    <3>2. CASE blobFile' = blobFile
      <4>1. Sees(t)'
        BY <3>1 DEF Sees, Releases
      <4> QED
        BY <2>1, <2>2, <3>1, <3>2, <4>1, SerialQuiet
    <3>3. CASE blobFile' # blobFile
      BY <1>3, <2>3, <3>1, <3>3 DEF PromoteMove, Goto, disk
    <3> QED
      BY <3>2, <3>3
  <2>4. CASE blobFile' = blobFile \union {arg[t].h} /\ Goto(t, "insert")
    <3>1. pc'[t] = "insert" /\ arg'[t] = arg[t]
      BY <2>4 DEF Goto
    <3>2. Solid(db', blobFile') /\ Solid(durable', blobFile') /\ Counted(durable')
      BY <1>0, <2>2, <2>4 DEF Solid, SerialInv
    <3>3. Counting(t)'
      BY <2>2, <3>1 DEF SerialInv, Counting, Owing, Ahead, Going
    <3>4. Losing(t)'
      BY <2>2, <3>1 DEF SerialInv, Losing
    <3>5. Sees(t)'
      BY <2>4, <3>1 DEF Sees, Releases
    <3> QED
      BY <2>1, <3>2, <3>3, <3>4, <3>5, After
  <2> QED
    BY <1>3, <2>3, <2>4 DEF PromoteMove
<1>4. CASE PromoteInsert(t)
  <2> DEFINE d == [db EXCEPT !.blobs = @ \union {arg[t].h}]
  <2>1. OnlyMoves(t)
    BY <1>4, MovesAlone DEF PromoteInsert
  <2>2. /\ pc[t] = "insert" /\ pc'[t] = "complete" /\ blobFile' = blobFile
        /\ arg'[t] = arg[t] /\ arg[t].h \in blobFile
    BY <1>0, <1>4 DEF PromoteInsert, At, Goto, disk, Sees
  <2>3. /\ d.files = db.files /\ d.refs = db.refs /\ d.up = db.up
        /\ d.blobs = db.blobs \union {arg[t].h}
    BY DEF Tables
  <2>4. Solid(d, blobFile)
    BY <1>0, <2>2, <2>3 DEF Solid, Referenced, RowsWith
  <2>5. Sees(t)'
    BY <2>2 DEF Sees, Releases
  <2> QED
    BY <1>4, <2>1, <2>2, <2>3, <2>4, <2>5, SerialOutside DEF PromoteInsert, TxLabels
<1>5. CASE PromoteComplete(t)
  <2> DEFINE u == arg[t].u
             d == [db EXCEPT !.up[u] = IF @ = "none" THEN @ ELSE "done"]
  <2>1. OnlyMoves(t)
    BY <1>5, MovesAlone DEF PromoteComplete
  <2>2. /\ pc[t] = "complete" /\ pc'[t] = "idle" /\ blobFile' = blobFile
        /\ arg[t].h \in blobFile /\ arg[t].h = Content[u]
    BY <1>0, <1>5 DEF PromoteComplete, At, Return, Enter, Elsewhere, disk, Sees, Types, ArgOK, HoldsUpload
  <2>3. /\ d.files = db.files /\ d.refs = db.refs /\ d.blobs = db.blobs
        /\ \A v \in Upload : d.up[v] = "done" => db.up[v] = "done" \/ v = u
    BY DEF Tables
  <2>4. Solid(d, blobFile)
    <3>1. \A h : Referenced(d, h) => Referenced(db, h) \/ h = Content[u]
      BY <2>3 DEF Referenced, RowsWith
    <3> QED
      BY <1>0, <2>2, <2>3, <3>1 DEF Solid
  <2>5. Sees(t)'
    BY <2>2 DEF Sees, Releases
  <2>6. CASE Query
    BY <2>1, <2>2, <2>5, <2>6, SerialQuiet DEF Query, conn
  <2>7. CASE ~Query
    <3>1. Execute(d, db.up[u] # "none")
      BY <1>5, <2>7 DEF PromoteComplete
    <3> QED
      BY <2>1, <2>2, <2>3, <2>4, <2>5, <3>1, SerialOutside DEF TxLabels
  <2> QED
    BY <2>6, <2>7
<1> QED
  BY <1>1, <1>2, <1>3, <1>4, <1>5

\* A file goes only when its row has gone.
LEMMA SerialFilesGo ==
    ASSUME Types, Safe, SerialInv, NEW t \in Threads, Undisturbed(t), OnlyMoves(t),
           db' = db, durable' = durable, blobFile' = blobFile \ {arg[t].h},
           pc[t] \in {"orphan_files", "collect_files"}, pc'[t] \in {"idle", "collect"}
    PROVE  SerialInv'
<1>1. Counting(t) /\ Losing(t) /\ Sees(t) /\ db = durable
  BY Before DEF TxLabels
<1>2. Solid(db, blobFile \ {arg[t].h})
  BY <1>1 DEF SerialInv, Solid, Sees
<1>3. Counting(t)'
  BY <1>1 DEF Counting, Owing, Ahead, Going
<1>4. Losing(t)'
  BY <1>1 DEF Losing
<1>5. Sees(t)'
  BY DEF Sees, Releases
<1> QED
  BY <1>1, <1>2, <1>3, <1>4, <1>5, After DEF SerialInv

LEMMA SerialOrphan ==
    ASSUME Types, Safe, SerialInv, NEW t \in Threads, Undisturbed(t),
           OrphanDelete(t) \/ OrphanChanges(t) \/ OrphanFiles(t) \/ TerminateRow(t) \/ TerminateFile(t)
    PROVE  SerialInv'
<1> pc \in [Threads -> Labels] /\ arg \in [Threads -> Args] /\ db \in Tables
  BY DEF Types, ThreadsOK, ConnOK
<1> USE DEF Midway, Dropping
<1>0. Solid(db, blobFile) /\ Sees(t)
  BY DEF SerialInv
<1>1. CASE OrphanDelete(t)
  <2> DEFINE h == arg[t].h
             d == IF Orphaned(db, h) THEN WithoutBlob(db, h) ELSE db
  <2>1. OnlyMoves(t)
    BY <1>1, MovesAlone DEF OrphanDelete, Statement
  <2>2. /\ pc[t] = "orphan" /\ pc'[t] = "orphan_changes" /\ arg'[t] = arg[t]
        /\ blobFile' = blobFile /\ db' = d /\ chg' = Orphaned(db, h)
    BY <1>1 DEF OrphanDelete, Statement, Execute, At, Goto, Elsewhere, disk
  <2>3. /\ d.files = db.files /\ d.refs = db.refs /\ d.up = db.up /\ d.blobs \subseteq db.blobs
        /\ Orphaned(db, h) => h \notin d.blobs
    BY DEF Tables, WithoutBlob
  <2>4. Solid(d, blobFile)
    <3>1. Thinner(d, db)
      BY <2>3 DEF Thinner
    <3> HIDE DEF d
    <3> QED
      BY <1>0, <3>1, ThinnerSolid
  <2>5. Sees(t)'
    BY <2>2, <2>3 DEF Sees, Releases
  <2> QED
    BY <1>1, <2>1, <2>2, <2>3, <2>4, <2>5, SerialOutside DEF OrphanDelete, Statement, TxLabels
<1>2. CASE OrphanChanges(t)
  <2>1. OnlyMoves(t)
    BY <1>2, MovesAlone DEF OrphanChanges
  <2>2. /\ pc[t] = "orphan_changes" /\ pc'[t] \in {"idle", "orphan_files"}
        /\ db' = db /\ durable' = durable /\ blobFile' = blobFile
    BY <1>2 DEF OrphanChanges, At, Goto, Return, Enter, Query, conn, Elsewhere, disk
  <2>3. Sees(t)'
    <3>1. CASE chg
      <4>1. arg'[t] = arg[t]
        BY <1>2, <3>1 DEF OrphanChanges, Goto
      <4> QED
        BY <1>0, <2>2, <3>1, <4>1 DEF Sees, Releases
    <3>2. CASE ~chg
      <4>1. pc'[t] = "idle"
        BY <1>2, <3>2 DEF OrphanChanges, Return, Enter
      <4> QED
        BY <4>1 DEF Sees, Releases
    <3> QED
      BY <3>1, <3>2
  <2> QED
    BY <2>1, <2>2, <2>3, SerialQuiet
<1>3. CASE OrphanFiles(t)
  <2>1. OnlyMoves(t)
    BY <1>3, MovesAlone DEF OrphanFiles
  <2> QED
    BY <1>3, <2>1, SerialFilesGo DEF OrphanFiles, At, Return, Enter, Query, conn
<1>4. CASE TerminateRow(t)
  <2> DEFINE d == WithoutUpload(db, arg[t].u)
  <2>1. OnlyMoves(t)
    BY <1>4, MovesAlone DEF TerminateRow, Statement
  <2>2. pc[t] = "term_row" /\ pc'[t] = "term_file" /\ blobFile' = blobFile
    BY <1>4 DEF TerminateRow, Statement, At, Goto, Elsewhere, disk
  <2>3. /\ d.files = db.files /\ d.refs = db.refs /\ d.blobs = db.blobs
        /\ \A v \in Upload : d.up[v] = "done" => db.up[v] = "done"
    BY DEF Tables, WithoutUpload
  <2>4. Solid(d, blobFile)
    <3>1. Thinner(d, db)
      BY <2>3 DEF Thinner
    <3> HIDE DEF d
    <3> QED
      BY <1>0, <3>1, ThinnerSolid
  <2>5. Sees(t)'
    BY <2>2 DEF Sees, Releases
  <2> QED
    BY <1>4, <2>1, <2>2, <2>3, <2>4, <2>5, SerialOutside DEF TerminateRow, Statement, TxLabels
<1>5. CASE TerminateFile(t)
  <2>1. OnlyMoves(t)
    BY <1>5, MovesAlone DEF TerminateFile
  <2>2. /\ pc[t] = "term_file" /\ pc'[t] \in {"idle", "orphan"}
        /\ db' = db /\ durable' = durable /\ blobFile' = blobFile
    BY <1>5 DEF TerminateFile, At, Goto, Return, Enter, Query, conn
  <2>3. Sees(t)'
    BY <2>2 DEF Sees, Releases
  <2> QED
    BY <2>1, <2>2, <2>3, SerialQuiet
<1> QED
  BY <1>1, <1>2, <1>3, <1>4, <1>5

\* One more file row, then one more in the count.
LEMMA SerialAttach ==
    ASSUME Types, Safe, SerialInv, NEW t \in Threads, Undisturbed(t),
           \/ CreateInsert(t) \/ \E u \in Upload : AttachSelect(t, u)
           \/ AttachReject(t) \/ AttachLink(t) \/ AttachCount(t)
           \/ AttachConsume(t) \/ AttachCommit(t)
    PROVE  SerialInv'
<1> /\ pc \in [Threads -> Labels] /\ arg \in [Threads -> Args] /\ db \in Tables
    /\ arg[t].u \in Upload \union {Nil} /\ arg[t].s \in Share \union {Nil}
  BY DEF Types, ThreadsOK, ConnOK, Args
<1> USE DEF Midway, Dropping
<1>0. Solid(db, blobFile) /\ Counting(t) /\ Losing(t) /\ Sees(t)
  BY DEF SerialInv
<1>a. \A h \in Hash : db.refs[h] \in Nat /\ Cardinality(RowsWith(db, h)) \in Nat
  BY <1>0, RowsFinite DEF Solid, Tables
\* A statement that leaves files and counts as they are.
<1>b. ASSUME NEW d, NEW x, NEW l \in {"create", "consume"}, NEW m \in {"attach", "attach_more"},
             Statement(t, l, m, d, x), d.files = db.files, d.refs = db.refs, Thinner(d, db)
      PROVE  SerialInv'
  <2>1. OnlyMoves(t)
    BY <1>b, MovesAlone DEF Statement
  <2>2. /\ pc[t] = l /\ pc'[t] = m /\ blobFile' = blobFile /\ db' = d
    BY <1>b DEF Statement, Execute, At, Goto, Elsewhere, disk
  <2>3. durable' = durable
    BY <1>b, <2>2, Before DEF Statement, Execute, TxLabels
  <2>4. Solid(d, blobFile)
    BY <1>0, <1>b, ThinnerSolid
  <2>5. Counting(t)'
    <3>1. \A h : RowsWith(d, h) = RowsWith(db, h)
      BY <1>b DEF RowsWith
    <3> QED
      BY <1>0, <1>b, <2>2, <3>1 DEF Counting, Owing, Ahead, Going
  <2>6. Losing(t)'
    BY <1>0, <1>b, <2>2, <2>3 DEF Losing
  <2>7. Sees(t)'
    BY <2>2 DEF Sees, Releases
  <2> QED
    BY <1>b, <2>1, <2>2, <2>4, <2>5, <2>6, <2>7, SerialInside DEF Statement, TxLabels
<1>1. CASE CreateInsert(t)
  <2> DEFINE d == [db EXCEPT !.sh[arg[t].s] = "live"]
  <2>1. d.files = db.files /\ d.refs = db.refs /\ Thinner(d, db)
    BY DEF Tables, Thinner
  <2> QED
    BY <1>b, <1>1, <2>1 DEF CreateInsert
<1>2. ASSUME NEW u \in Upload, AttachSelect(t, u) PROVE SerialInv'
  <2>1. OnlyMoves(t)
    BY <1>2, MovesAlone DEF AttachSelect
  <2>2. /\ pc[t] \in {"attach", "attach_more"} /\ pc'[t] = "link" /\ arg'[t].u = u /\ db.up[u] = "done"
        /\ db' = db /\ durable' = durable /\ blobFile' = blobFile
    BY <1>2 DEF AttachSelect, Attaching, Enter, Query, conn, Args, Elsewhere, disk
  <2>3. Sees(t)'
    BY <2>2 DEF Sees, Releases
  <2> QED
    BY <2>1, <2>2, <2>3, SerialQuiet
<1>3. CASE AttachReject(t)
  BY <1>3, SerialThrow DEF AttachReject
<1>4. CASE AttachLink(t)
  <2>1. CASE Throw(t)
    BY <2>1, SerialThrow
  <2>2. CASE /\ arg[t].h \in db.blobs
             /\ Statement(t, "link", "count", [db EXCEPT !.files = @ \union {<<arg[t].s, arg[t].u>>}], TRUE)
    <3> DEFINE f0 == <<arg[t].s, arg[t].u>>
               d == [db EXCEPT !.files = @ \union {f0}]
    <3>1. OnlyMoves(t)
      BY <2>2, MovesAlone DEF Statement
    <3>2. /\ pc[t] = "link" /\ pc'[t] = "count" /\ arg'[t] = arg[t]
          /\ blobFile' = blobFile /\ db' = d
      BY <2>2 DEF Statement, Execute, At, Goto, Elsewhere, disk
    <3>3. durable' = durable
      BY <2>2, <3>2, Before DEF Statement, Execute, TxLabels
    <3>4. d.files = db.files \union {f0} /\ d.refs = db.refs /\ d.up = db.up /\ d.blobs = db.blobs
      BY DEF Tables
    <3>5. arg[t].u \in Upload /\ arg[t].h = Content[arg[t].u] /\ db.up[arg[t].u] = "done"
      BY <1>0, <3>2 DEF Sees, Types, ArgOK, HoldsUpload
    <3>6. Solid(d, blobFile)
      <4>1. \A h : Referenced(d, h) => Referenced(db, h)
        BY <3>4, <3>5 DEF Referenced, RowsWith
      <4>2. IsFiniteSet(d.files)
        <5>1. IsFiniteSet(db.files \union {f0})
          BY <1>0, FS_AddElement DEF Solid
        <5> QED
          BY <3>4, <5>1
      <4> QED
        BY <1>0, <3>4, <4>1, <4>2 DEF Solid
    <3>7. Counting(t)'
      <4>1. ASSUME NEW h \in Hash PROVE Cardinality(RowsWith(d, h)) <= db.refs[h] + (IF arg[t].h = h THEN 1 ELSE 0)
        <5>1. Cardinality(RowsWith(db, h)) <= db.refs[h] /\ IsFiniteSet(RowsWith(db, h))
          <6>1. Counted(db)
            BY <1>0, <3>2, NotMidway
          <6>2. RowsWith(db, h) \subseteq db.files
            BY DEF RowsWith
          <6> QED
            BY <1>0, <6>1, <6>2, FS_Subset DEF Counted, Solid
        <5>2. CASE arg[t].h = h
          <6>1. RowsWith(d, h) \subseteq RowsWith(db, h) \union {f0}
            BY <3>4 DEF RowsWith
          <6>2. Cardinality(RowsWith(d, h)) <= Cardinality(RowsWith(db, h)) + 1
            BY <5>1, <6>1, OneRowMore
          <6>3. IsFiniteSet(d.files)
            BY <3>6 DEF Solid
          <6>4. Cardinality(RowsWith(d, h)) \in Nat
            BY <6>3, RowsFinite
          <6> QED
            BY <1>a, <5>1, <5>2, <6>2, <6>4
        <5>3. CASE arg[t].h # h
          <6>1. RowsWith(d, h) = RowsWith(db, h)
            BY <3>4, <3>5, <5>3 DEF RowsWith
          <6> QED
            BY <1>a, <5>1, <5>3, <6>1
        <5> QED
          BY <5>2, <5>3
      <4>2. IsFiniteSet(d.files)
        BY <3>6 DEF Solid
      <4>3. \A h : RowsWith(d, h) \ {} = RowsWith(d, h) /\ Cardinality(RowsWith(d, h)) \in Nat
        BY <4>2, RowsFinite
      <4>4. Going(t)' = {} /\ \A h : Owing(t, h)' = 0 /\ Ahead(t, h)' = IF arg[t].h = h THEN 1 ELSE 0
        BY <3>2 DEF Going, Owing, Ahead
      <4> HIDE DEF d
      <4> QED
        BY <3>2, <3>4, <4>1, <4>3, <4>4 DEF Counting
    <3>8. Losing(t)'
      BY <1>0, <3>2, <3>3, <3>4 DEF Losing
    <3>9. Sees(t)'
      BY <3>2 DEF Sees, Releases
    <3> QED
      BY <2>2, <3>1, <3>2, <3>6, <3>7, <3>8, <3>9, SerialInside DEF Statement, TxLabels
  <2> QED
    BY <1>4, <2>1, <2>2 DEF AttachLink
<1>5. CASE AttachCount(t)
  <2> DEFINE a == arg[t].h
             d == [db EXCEPT !.refs[a] = IF a \in db.blobs THEN @ + 1 ELSE @]
  <2>1. OnlyMoves(t)
    BY <1>5, MovesAlone DEF AttachCount, Statement
  <2>2. pc[t] = "count" /\ pc'[t] = "consume" /\ blobFile' = blobFile /\ db' = d
    BY <1>5 DEF AttachCount, Statement, Execute, At, Goto, Elsewhere, disk
  <2>3. durable' = durable
    BY <1>5, <2>2, Before DEF AttachCount, Statement, Execute, TxLabels
  <2>4. /\ d.files = db.files /\ d.up = db.up /\ d.blobs = db.blobs
        /\ \A h \in Hash : d.refs[h] = IF h = a /\ a \in db.blobs THEN db.refs[h] + 1 ELSE db.refs[h]
    BY DEF Tables
  <2>5. Solid(d, blobFile)
    <3>1. Thinner(d, db)
      BY <2>4 DEF Thinner
    <3> HIDE DEF d
    <3> QED
      BY <1>0, <3>1, ThinnerSolid
  <2>6. Counting(t)'
    <3>1. \A h : RowsWith(d, h) = RowsWith(db, h)
      BY <2>4 DEF RowsWith
    <3>2. ASSUME NEW h \in Hash PROVE Cardinality(RowsWith(db, h)) <= d.refs[h]
      <4>1. Cardinality(RowsWith(db, h)) <= db.refs[h] + (IF h = a THEN 1 ELSE 0)
        <5>1. Going(t) = {} /\ Owing(t, h) = 0 /\ Ahead(t, h) = IF h = a THEN 1 ELSE 0
          BY <2>2 DEF Going, Owing, Ahead
        <5>2. RowsWith(db, h) \ {} = RowsWith(db, h)
          OBVIOUS
        <5> QED
          BY <1>0, <1>a, <5>1, <5>2 DEF Counting
      <4>2. h \notin db.blobs => Cardinality(RowsWith(db, h)) = 0
        <5>1. h \notin db.blobs => RowsWith(db, h) = {}
          BY DEF RowsWith, Safe, Sound, Backed
        <5> QED
          BY <5>1, FS_EmptySet
      <4> QED
        BY <1>a, <2>4, <4>1, <4>2
    <3>3. Going(t)' = {} /\ \A h : Owing(t, h)' = 0 /\ Ahead(t, h)' = 0
      BY <2>2 DEF Going, Owing, Ahead
    <3>4. \A h : RowsWith(db, h) \ {} = RowsWith(db, h)
      OBVIOUS
    <3>5. \A h \in Hash : d.refs[h] \in Nat
      BY <1>a, <2>4
    <3> HIDE DEF d
    <3> QED
      BY <1>a, <2>2, <3>1, <3>2, <3>3, <3>4, <3>5 DEF Counting
  <2>7. Losing(t)'
    BY <1>0, <2>2, <2>3, <2>4 DEF Losing
  <2>8. Sees(t)'
    BY <2>2 DEF Sees, Releases
  <2> QED
    BY <1>5, <2>1, <2>2, <2>5, <2>6, <2>7, <2>8, SerialInside DEF AttachCount, Statement, TxLabels
<1>6. CASE AttachConsume(t)
  <2> DEFINE d == WithoutUpload(db, arg[t].u)
  <2>1. d.files = db.files /\ d.refs = db.refs /\ Thinner(d, db)
    BY DEF Tables, Thinner, WithoutUpload
  <2> QED
    BY <1>b, <1>6, <2>1 DEF AttachConsume
<1>7. CASE AttachCommit(t)
  <2>1. OnlyMoves(t)
    BY <1>7, MovesAlone DEF AttachCommit
  <2>2. pc[t] = "attach_more" /\ pc'[t] = "idle" /\ blobFile' = blobFile
    BY <1>7 DEF AttachCommit, At, Return, Enter, Elsewhere, disk
  <2>3. Sees(t)'
    BY <2>2 DEF Sees, Releases
  <2> QED
    BY <1>7, <2>1, <2>2, <2>3, SerialCommit DEF AttachCommit
<1> QED
  BY <1>1, <1>2, <1>3, <1>4, <1>5, <1>6, <1>7

\* One file row less, then one less in the count.
LEMMA SerialRemoval ==
    ASSUME Types, Safe, SerialInv, NEW t \in Threads, Undisturbed(t),
           \/ AddBegin(t) \/ AddCheck(t) \/ RemoveBegin(t) \/ RemoveRow(t) \/ RemoveCount(t)
           \/ RemoveLast(t) \/ RemoveCommit(t) \/ RevokeChanges(t)
           \/ OtherCommit(t) \/ OtherThrow(t) \/ BeginRefused(t)
    PROVE  SerialInv'
<1> /\ pc \in [Threads -> Labels] /\ arg \in [Threads -> Args] /\ db \in Tables
  BY DEF Types, ThreadsOK, ConnOK
<1> USE DEF Midway, Dropping
<1>0. Solid(db, blobFile) /\ Counting(t) /\ Losing(t) /\ Sees(t)
  BY DEF SerialInv
<1>a. \A h \in Hash : db.refs[h] \in Nat /\ Cardinality(RowsWith(db, h)) \in Nat
  BY <1>0, RowsFinite DEF Solid, Tables
<1>1. CASE AddBegin(t) \/ RemoveBegin(t)
  <2>1. OnlyMoves(t)
    BY <1>1, MovesAlone DEF AddBegin, RemoveBegin, BeginAt
  <2>2. /\ \/ pc[t] = "add" /\ pc'[t] = "add_check"
           \/ pc[t] = "remove" /\ pc'[t] = "remove_row"
        /\ arg'[t] = arg[t] /\ db' = db /\ durable' = durable /\ blobFile' = blobFile
    BY <1>1 DEF AddBegin, RemoveBegin, BeginAt, At, Goto, Begin, Elsewhere, disk
  <2>3. Sees(t)'
    BY <1>0, <2>2 DEF Sees, Releases
  <2> QED
    BY <2>1, <2>2, <2>3, SerialQuiet
<1>2. CASE AddCheck(t)
  <2>1. CASE Throw(t)
    BY <2>1, SerialThrow
  <2>2. CASE Query /\ Goto(t, "attach") /\ Elsewhere
    <3>1. OnlyMoves(t)
      BY <2>2, MovesAlone
    <3>2. /\ pc[t] = "add_check" /\ pc'[t] = "attach"
          /\ db' = db /\ durable' = durable /\ blobFile' = blobFile
      BY <1>2, <2>2 DEF AddCheck, At, Goto, Query, conn, Elsewhere, disk
    <3>3. Sees(t)'
      BY <3>2 DEF Sees, Releases
    <3> QED
      BY <3>1, <3>2, <3>3, SerialQuiet
  <2> QED
    BY <1>2, <2>1, <2>2 DEF AddCheck
<1>3. CASE RemoveRow(t)
  <2> DEFINE f0 == <<arg[t].s, arg[t].u>>
             d == [db EXCEPT !.files = @ \ {f0}]
  <2>1. OnlyMoves(t)
    BY <1>3, MovesAlone DEF RemoveRow, Statement
  <2>2. /\ pc[t] = "remove_row" /\ pc'[t] = "remove_count" /\ arg'[t] = arg[t]
        /\ blobFile' = blobFile /\ db' = d
    BY <1>3 DEF RemoveRow, Statement, Execute, At, Goto, Elsewhere, disk
  <2>3. durable' = durable
    BY <1>3, <2>2, Before DEF RemoveRow, Statement, Execute, TxLabels
  <2>4. d.files = db.files \ {f0} /\ d.refs = db.refs /\ d.up = db.up /\ d.blobs = db.blobs
    BY DEF Tables
  <2>5. f0 \in db.files /\ arg[t].h = Content[f0[2]]
    BY <1>0, <2>2 DEF Sees
  <2>6. Solid(d, blobFile)
    <3>1. Thinner(d, db)
      BY <2>4 DEF Thinner
    <3> HIDE DEF d
    <3> QED
      BY <1>0, <3>1, ThinnerSolid
  <2>7. Counting(t)'
    <3>1. ASSUME NEW h \in Hash
          PROVE  Cardinality(RowsWith(d, h)) + (IF arg[t].h = h THEN 1 ELSE 0) <= db.refs[h]
      <4>1. Cardinality(RowsWith(db, h)) <= db.refs[h]
        BY <1>0, <2>2, NotMidway DEF Counted
      <4>2. IsFiniteSet(RowsWith(db, h)) /\ RowsWith(d, h) \subseteq RowsWith(db, h)
        <5>1. RowsWith(db, h) \subseteq db.files
          BY DEF RowsWith
        <5> QED
          BY <1>0, <2>4, <5>1, FS_Subset DEF Solid, RowsWith
      <4>3. Cardinality(RowsWith(d, h)) \in Nat /\ Cardinality(RowsWith(d, h)) <= Cardinality(RowsWith(db, h))
        BY <4>2, FS_Subset, FS_CardinalityType
      <4>4. CASE arg[t].h = h
        <5>1. f0 \in RowsWith(db, h) /\ f0 \notin RowsWith(d, h)
          BY <2>4, <2>5, <4>4 DEF RowsWith
        <5>2. Cardinality(RowsWith(d, h)) + 1 <= Cardinality(RowsWith(db, h))
          BY <4>2, <5>1, OneRowLess
        <5> QED
          BY <1>a, <4>1, <4>3, <4>4, <5>2
      <4> QED
        BY <1>a, <4>1, <4>3, <4>4
    <3>2. IsFiniteSet(d.files)
      BY <2>6 DEF Solid
    <3>3. \A h : RowsWith(d, h) \ {} = RowsWith(d, h) /\ Cardinality(RowsWith(d, h)) \in Nat
      BY <3>2, RowsFinite
    <3>4. Going(t)' = {} /\ \A h : Ahead(t, h)' = 0 /\ Owing(t, h)' = IF arg[t].h = h THEN 1 ELSE 0
      BY <2>2 DEF Going, Owing, Ahead
    <3> HIDE DEF d
    <3> QED
      BY <1>a, <2>2, <2>4, <3>1, <3>3, <3>4 DEF Counting
  <2>8. Losing(t)'
    BY <1>0, <2>2, <2>3, <2>4 DEF Losing
  <2>9. Sees(t)'
    BY <2>2 DEF Sees, Releases
  <2> QED
    BY <1>3, <2>1, <2>2, <2>6, <2>7, <2>8, <2>9, SerialInside DEF RemoveRow, Statement, TxLabels
<1>4. CASE RemoveCount(t)
  <2> DEFINE hs == {arg[t].h} \intersect db.blobs
             d == Dereferenced(db, hs)
  <2>1. OnlyMoves(t)
    BY <1>4, MovesAlone DEF RemoveCount, Statement
  <2>2. /\ pc[t] = "remove_count" /\ pc'[t] = "remove_last" /\ arg'[t] = arg[t]
        /\ blobFile' = blobFile /\ db' = d
    BY <1>4 DEF RemoveCount, Statement, Execute, At, Goto, Elsewhere, disk
  <2>3. durable' = durable
    BY <1>4, <2>2, Before DEF RemoveCount, Statement, Execute, TxLabels
  <2>4. /\ d.files = db.files /\ d.up = db.up /\ d.blobs = db.blobs
        /\ \A h \in Hash : d.refs[h] = IF h \in hs THEN Less1(db.refs[h]) ELSE db.refs[h]
    BY DEF Tables, Dereferenced
  <2>5. Solid(d, blobFile)
    <3>1. Thinner(d, db)
      BY <2>4 DEF Thinner
    <3> HIDE DEF d
    <3> QED
      BY <1>0, <3>1, ThinnerSolid
  <2>6. Counting(t)'
    <3>1. \A h : RowsWith(d, h) = RowsWith(db, h) /\ RowsWith(db, h) \ {} = RowsWith(db, h)
      BY <2>4 DEF RowsWith
    <3>2. ASSUME NEW h \in Hash PROVE d.refs[h] \in Nat /\ Cardinality(RowsWith(db, h)) <= d.refs[h]
      <4>1. Cardinality(RowsWith(db, h)) + (IF arg[t].h = h THEN 1 ELSE 0) <= db.refs[h]
        <5>1. Going(t) = {} /\ Ahead(t, h) = 0 /\ Owing(t, h) = IF arg[t].h = h THEN 1 ELSE 0
          BY <2>2 DEF Going, Owing, Ahead
        <5> QED
          BY <1>0, <1>a, <3>1, <5>1 DEF Counting
      <4>2. h \in hs => arg[t].h = h
        OBVIOUS
      <4>3. d.refs[h] = IF h \in hs THEN Less1(db.refs[h]) ELSE db.refs[h]
        BY <2>4
      <4> HIDE DEF d, hs
      <4> QED
        BY <1>a, <4>1, <4>2, <4>3 DEF Less1
    <3>3. Going(t)' = {} /\ \A h : Owing(t, h)' = 0 /\ Ahead(t, h)' = 0
      BY <2>2 DEF Going, Owing, Ahead
    <3> HIDE DEF d
    <3> QED
      BY <1>a, <2>2, <3>1, <3>2, <3>3 DEF Counting
  <2>7. Losing(t)'
    BY <1>0, <2>2, <2>3, <2>4 DEF Losing
  <2>8. Sees(t)'
    BY <2>2 DEF Sees, Releases
  <2> QED
    BY <1>4, <2>1, <2>2, <2>5, <2>6, <2>7, <2>8, SerialInside DEF RemoveCount, Statement, TxLabels
\* The link's state is of no account here.
<1>5. CASE RemoveLast(t)
  <2> DEFINE d == [db EXCEPT !.sh[arg[t].s] = IF @ = "none" THEN @ ELSE "revoked"]
  <2>1. OnlyMoves(t)
    BY <1>5, MovesAlone DEF RemoveLast, Statement
  <2>2. /\ pc[t] = "remove_last" /\ pc'[t] = "remove_commit" /\ arg'[t] = arg[t]
        /\ blobFile' = blobFile /\ (db' = d \/ db' = db)
    BY <1>5 DEF RemoveLast, Statement, Execute, Query, conn, At, Goto, Elsewhere, disk
  <2>3. durable' = durable
    BY <1>5, <2>2, Before DEF RemoveLast, Statement, Execute, Query, conn, TxLabels
  <2>4. db'.files = db.files /\ db'.refs = db.refs /\ db'.up = db.up /\ db'.blobs = db.blobs
    BY <2>2 DEF Tables
  <2>5. Solid(db', blobFile)
    BY <1>0, <2>4, ThinnerSolid DEF Thinner
  <2>6. Counting(t)'
    <3>1. \A h : RowsWith(db', h) = RowsWith(db, h)
      BY <2>4 DEF RowsWith
    <3>2. Going(t)' = Going(t) /\ \A h : Owing(t, h)' = Owing(t, h) /\ Ahead(t, h)' = Ahead(t, h)
      BY <2>2 DEF Going, Owing, Ahead
    <3> QED
      BY <1>0, <2>4, <3>1, <3>2 DEF Counting
  <2>7. Losing(t)'
    BY <1>0, <2>2, <2>3, <2>4 DEF Losing
  <2>8. Sees(t)'
    BY <2>2 DEF Sees, Releases
  <2> QED
    BY <2>1, <2>2, <2>3, <2>5, <2>6, <2>7, <2>8, After DEF SerialInv
<1>6. ASSUME NEW l \in {"remove_commit", "other"}, NEW m \in {"orphan", "idle"}, CommitAt(t, l, m)
      PROVE  SerialInv'
  <2>1. OnlyMoves(t)
    BY <1>6, MovesAlone DEF CommitAt
  <2>2. pc[t] = l /\ pc'[t] = m /\ blobFile' = blobFile
    BY <1>6 DEF CommitAt, At, Goto, Elsewhere, disk
  <2>3. Sees(t)'
    BY <2>2 DEF Sees, Releases
  <2> QED
    BY <1>6, <2>1, <2>2, <2>3, SerialCommit DEF CommitAt
<1>7. CASE RevokeChanges(t) \/ BeginRefused(t)
  <2>1. OnlyMoves(t)
    BY <1>7, MovesAlone DEF RevokeChanges, BeginRefused
  <2>2. /\ pc[t] \in {"revoke_changes", "add", "remove"} /\ pc'[t] = "idle"
        /\ db' = db /\ durable' = durable /\ blobFile' = blobFile
    BY <1>7 DEF RevokeChanges, BeginRefused, BeginFails, At, Return, Enter, Query, conn, Elsewhere, disk
  <2>3. Sees(t)'
    BY <2>2 DEF Sees, Releases
  <2> QED
    BY <2>1, <2>2, <2>3, SerialQuiet
<1>8. CASE OtherThrow(t)
  BY <1>8, SerialThrow DEF OtherThrow
<1> QED
  BY <1>1, <1>2, <1>3, <1>4, <1>5, <1>6, <1>7, <1>8 DEF RemoveCommit, OtherCommit

LEMMA SerialHandler ==
    ASSUME Types, Safe, SerialInv, NEW t \in Workers, Undisturbed(t), Handler(t) PROVE SerialInv'
BY SerialPromotion, SerialOrphan, SerialAttach, SerialRemoval DEF Handler, Threads

\* The sweep gives back one reference for each blob of a link, which the link
\* has one row for at least, before its rows go.
LEMMA SerialRelease ==
    ASSUME Types, Safe, SerialInv, Undisturbed(Sweeper),
           \/ SweepStart \/ \E s \in Share : ReleaseBegin(s)
           \/ ReleaseRefused \/ ReleaseCount \/ ReleaseFiles \/ ReleaseMark \/ ReleaseCommit
    PROVE  SerialInv'
<1> /\ pc \in [Threads -> Labels] /\ arg \in [Threads -> Args] /\ db \in Tables
    /\ Sweeper \in Threads
  BY DEF Types, ThreadsOK, ConnOK, Threads
<1> USE DEF Midway, Dropping
<1>0. Solid(db, blobFile) /\ Counting(Sweeper) /\ Losing(Sweeper) /\ Sees(Sweeper)
  BY DEF SerialInv
<1>a. \A h \in Hash : db.refs[h] \in Nat /\ Cardinality(RowsWith(db, h)) \in Nat
  BY <1>0, RowsFinite DEF Solid, Tables
<1>1. CASE SweepStart
  <2>1. OnlyMoves(Sweeper)
    BY <1>1, MovesAlone DEF SweepStart, Select
  <2>2. /\ pc[Sweeper] = "idle" /\ pc'[Sweeper] = "release"
        /\ db' = db /\ durable' = durable /\ blobFile' = blobFile /\ lapsed' = lapsed
        /\ \A s \in work' : s \in lapsed \/ db.sh[s] = "revoked"
    BY <1>1 DEF SweepStart, Select, Sweeping, At, Goto, Query, conn, disk, clock
  <2>3. db = durable
    BY <2>2, Before DEF TxLabels
  <2>4. Sees(Sweeper)'
    BY <2>2, <2>3 DEF Sees, Releases, Dead
  <2> QED
    BY <2>1, <2>2, <2>4, SerialQuiet
<1>2. ASSUME NEW s \in Share, ReleaseBegin(s) PROVE SerialInv'
  <2>1. OnlyMoves(Sweeper)
    BY <1>2, MovesAlone DEF ReleaseBegin, Take
  <2>2. /\ pc[Sweeper] = "release" /\ pc'[Sweeper] = "rel_count" /\ s \in work
        /\ arg'[Sweeper] = [NoArgs EXCEPT !.s = s] /\ work' = work /\ lapsed' = lapsed
        /\ db' = db /\ durable' = durable /\ blobFile' = blobFile
    BY <1>2 DEF ReleaseBegin, Sweeping, At, Take, Enter, Begin, Elsewhere, disk, clock
  <2>3. db = durable
    BY <2>2, Before DEF TxLabels
  <2>4. arg'[Sweeper].s = s
    BY <2>2 DEF NoArgs
  <2>5. Sees(Sweeper)'
    BY <1>0, <2>2, <2>3, <2>4 DEF Sees, Releases, Dead
  <2> QED
    BY <2>1, <2>2, <2>5, SerialQuiet
<1>3. CASE ReleaseRefused
  <2>1. pc[Sweeper] = "release" /\ owner # NoOwner
    BY <1>3 DEF ReleaseRefused, Sweeping, At
  <2> QED
    BY <2>1, Before DEF TxLabels
\* A statement of the release: nothing but files, counts and marks changes.
<1>4. ASSUME NEW d, NEW x, NEW l \in {"rel_count", "rel_files", "rel_mark"},
             NEW m \in {"rel_files", "rel_mark", "rel_commit"}, Statement(Sweeper, l, m, d, x),
             Thinner(d, db), d.sh = db.sh,
             \A f \in db.files \ d.files : m = "rel_mark" /\ f[1] = its.s,
             l = "rel_mark" => m = "rel_commit",
             (db' = d /\ pc[Sweeper] = l /\ pc'[Sweeper] = m /\ arg'[Sweeper] = its) => Counting(Sweeper)'
      PROVE  SerialInv'
  <2>1. OnlyMoves(Sweeper)
    BY <1>4, MovesAlone DEF Statement
  <2>2. /\ pc[Sweeper] = l /\ pc'[Sweeper] = m /\ arg'[Sweeper] = its /\ db' = d
        /\ blobFile' = blobFile /\ lapsed' = lapsed /\ work' = work
    BY <1>4 DEF Statement, Execute, At, Goto, Elsewhere, disk, clock, its
  <2>3. durable' = durable
    BY <1>4, <2>2, Before DEF Statement, Execute, TxLabels
  <2>4. Losing(Sweeper)'
    BY <1>0, <1>4, <2>2, <2>3 DEF Losing, its
  <2>5. Sees(Sweeper)'
    BY <1>0, <1>4, <2>2, <2>3 DEF Sees, Releases, Dead, its
  <2>6. Solid(d, blobFile)
    BY <1>0, <1>4, ThinnerSolid
  <2> QED
    BY <1>4, <2>1, <2>2, <2>4, <2>5, <2>6, SerialInside DEF Statement, TxLabels
<1>5. CASE ReleaseCount
  <2> DEFINE fs == FilesOf(db, its.s)
             hs == {Content[f[2]] : f \in fs} \intersect db.blobs
             d == Dereferenced(db, hs)
  <2>1. /\ d.files = db.files /\ d.up = db.up /\ d.blobs = db.blobs /\ d.sh = db.sh
        /\ \A h \in Hash : d.refs[h] = IF h \in hs THEN Less1(db.refs[h]) ELSE db.refs[h]
    BY DEF Tables, Dereferenced
  <2>2. ASSUME db' = d, pc[Sweeper] = "rel_count", pc'[Sweeper] = "rel_files", arg'[Sweeper] = its
        PROVE  Counting(Sweeper)'
    <3>1. ASSUME NEW h \in Hash PROVE d.refs[h] \in Nat /\ Cardinality(RowsWith(db, h) \ fs) <= d.refs[h]
      <4>1. Cardinality(RowsWith(db, h)) <= db.refs[h]
        BY <1>0, <2>2, NotMidway DEF Counted
      <4>2. IsFiniteSet(RowsWith(db, h)) /\ RowsWith(db, h) \ fs \subseteq RowsWith(db, h)
        <5>1. RowsWith(db, h) \subseteq db.files
          BY DEF RowsWith
        <5> QED
          BY <1>0, <5>1, FS_Subset DEF Solid
      <4>3. /\ Cardinality(RowsWith(db, h) \ fs) \in Nat
            /\ Cardinality(RowsWith(db, h) \ fs) <= Cardinality(RowsWith(db, h))
        BY <4>2, FS_Subset, FS_CardinalityType
      <4>4. CASE h \in hs
        <5>1. PICK f \in fs : Content[f[2]] = h
          BY <4>4
        <5>2. f \in RowsWith(db, h) /\ f \notin RowsWith(db, h) \ fs
          BY <5>1 DEF RowsWith, FilesOf
        <5>3. Cardinality(RowsWith(db, h) \ fs) + 1 <= Cardinality(RowsWith(db, h))
          BY <4>2, <5>2, OneRowLess
        <5> QED
          BY <1>a, <2>1, <4>1, <4>3, <4>4, <5>3 DEF Less1
      <4>5. CASE h \notin hs
        BY <1>a, <2>1, <4>1, <4>3, <4>5
      <4> QED
        BY <4>4, <4>5
    <3>2. Going(Sweeper)' = fs /\ \A h : Owing(Sweeper, h)' = 0 /\ Ahead(Sweeper, h)' = 0
      <4>1. FilesOf(d, its.s) = fs
        BY <2>1 DEF FilesOf
      <4> QED
        BY <2>2, <4>1 DEF Going, Owing, Ahead
    <3>3. \A h : RowsWith(d, h) = RowsWith(db, h) /\ Cardinality(RowsWith(db, h) \ fs) \in Nat
      <4>1. IsFiniteSet(db.files)
        BY <1>0 DEF Solid
      <4>2. \A h : Cardinality(RowsWith(db, h) \ fs) \in Nat
        BY <4>1, RowsFinite
      <4> QED
        BY <2>1, <4>2 DEF RowsWith
    <3> HIDE DEF d, fs
    <3> QED
      BY <2>2, <3>1, <3>2, <3>3 DEF Counting
  <2>3. Thinner(d, db)
    BY <2>1 DEF Thinner
  <2> HIDE DEF d
  <2>4. Statement(Sweeper, "rel_count", "rel_files", d, hs # {})
    BY <1>5 DEF ReleaseCount, d
  <2> QED
    BY <1>4, <2>1, <2>2, <2>3, <2>4
<1>6. CASE ReleaseFiles
  <2> DEFINE fs == FilesOf(db, its.s)
             d == [db EXCEPT !.files = @ \ fs]
  <2>1. d.files = db.files \ fs /\ d.up = db.up /\ d.blobs = db.blobs /\ d.sh = db.sh /\ d.refs = db.refs
    BY DEF Tables
  <2>2. ASSUME db' = d, pc[Sweeper] = "rel_files", pc'[Sweeper] = "rel_mark"
        PROVE  Counting(Sweeper)'
    <3>1. /\ Going(Sweeper) = fs /\ Going(Sweeper)' = {}
          /\ \A h : /\ Owing(Sweeper, h) = 0 /\ Ahead(Sweeper, h) = 0
                    /\ Owing(Sweeper, h)' = 0 /\ Ahead(Sweeper, h)' = 0
      BY <2>2 DEF Going, Owing, Ahead, its
    <3>2. \A h : RowsWith(d, h) \ {} = RowsWith(db, h) \ fs
      BY <2>1 DEF RowsWith
    <3> HIDE DEF d, fs
    <3> QED
      BY <1>0, <2>1, <2>2, <3>1, <3>2 DEF Counting
  <2>3. Thinner(d, db) /\ \A f \in db.files \ d.files : f[1] = its.s
    BY <2>1 DEF Thinner, FilesOf
  <2> HIDE DEF d
  <2>4. Statement(Sweeper, "rel_files", "rel_mark", d, fs # {})
    BY <1>6 DEF ReleaseFiles, d
  <2> QED
    BY <1>4, <2>1, <2>2, <2>3, <2>4
<1>7. CASE ReleaseMark
  <2> DEFINE ss == {its.s} \intersect {x \in Share : db.sh[x] # "none"}
             d == [db EXCEPT !.released = @ \union ss]
  <2>1. d.files = db.files /\ d.up = db.up /\ d.blobs = db.blobs /\ d.sh = db.sh /\ d.refs = db.refs
    BY DEF Tables
  <2>2. ASSUME db' = d, pc[Sweeper] = "rel_mark", pc'[Sweeper] = "rel_commit"
        PROVE  Counting(Sweeper)'
    <3>1. /\ Going(Sweeper) = {} /\ Going(Sweeper)' = {}
          /\ \A h : /\ Owing(Sweeper, h) = 0 /\ Ahead(Sweeper, h) = 0
                    /\ Owing(Sweeper, h)' = 0 /\ Ahead(Sweeper, h)' = 0
      BY <2>2 DEF Going, Owing, Ahead
    <3>2. \A h : RowsWith(d, h) = RowsWith(db, h)
      BY <2>1 DEF RowsWith
    <3> HIDE DEF d
    <3> QED
      BY <1>0, <2>1, <2>2, <3>1, <3>2 DEF Counting
  <2>3. Thinner(d, db)
    BY <2>1 DEF Thinner
  <2> HIDE DEF d
  <2>4. Statement(Sweeper, "rel_mark", "rel_commit", d, ss # {})
    BY <1>7 DEF ReleaseMark, d
  <2> QED
    BY <1>4, <2>1, <2>2, <2>3, <2>4
<1>8. CASE ReleaseCommit
  <2>1. OnlyMoves(Sweeper)
    BY <1>8, MovesAlone DEF ReleaseCommit, Continue, Take
  <2>2. /\ pc[Sweeper] = "rel_commit" /\ pc'[Sweeper] = "release" /\ work' \subseteq work
        /\ blobFile' = blobFile /\ lapsed' = lapsed /\ durable' = db
    BY <1>8 DEF ReleaseCommit, Sweeping, At, Continue, Take, Enter, Commit, disk, clock
  <2>3. Sees(Sweeper)'
    BY <1>0, <2>2 DEF Sees, Releases, Dead
  <2> QED
    BY <1>8, <2>1, <2>2, <2>3, SerialCommit DEF ReleaseCommit
<1> QED
  BY <1>1, <1>2, <1>3, <1>5, <1>6, <1>7, <1>8

LEMMA SerialCollect ==
    ASSUME Types, Safe, SerialInv, Undisturbed(Sweeper),
           \/ ExpireSelect \/ ExpireFile \/ \E u \in Upload : ExpireRow(u)
           \/ CollectSelect \/ CollectChanges \/ CollectFiles
           \/ \E h \in Hash : CollectRow(h)
           \/ SweepStray
    PROVE  SerialInv'
<1> /\ pc \in [Threads -> Labels] /\ arg \in [Threads -> Args] /\ db \in Tables
    /\ Sweeper \in Threads
  BY DEF Types, ThreadsOK, ConnOK, Threads
<1> USE DEF Midway, Dropping, Sweeping, At
<1>0. Solid(db, blobFile) /\ Sees(Sweeper)
  BY DEF SerialInv
<1>1. CASE ExpireSelect \/ CollectSelect \/ ExpireFile \/ SweepStray
  <2>1. OnlyMoves(Sweeper)
    BY <1>1, MovesAlone DEF ExpireSelect, CollectSelect, ExpireFile, SweepStray, Select, Continue, Take
  <2>2. /\ pc[Sweeper] \in {"release", "expire", "expire_file", "collect"}
        /\ pc'[Sweeper] \in {"expire", "collect", "idle"}
        /\ db' = db /\ durable' = durable /\ blobFile' = blobFile
    BY <1>1 DEF ExpireSelect, CollectSelect, ExpireFile, SweepStray, Select, Continue, Take,
                Goto, Return, Enter, Query, conn, disk
  <2>3. Sees(Sweeper)'
    BY <2>2 DEF Sees, Releases
  <2> QED
    BY <2>1, <2>2, <2>3, SerialQuiet
<1>2. CASE CollectChanges
  <2>1. OnlyMoves(Sweeper)
    BY <1>2, MovesAlone DEF CollectChanges, Continue, Take
  <2>2. /\ pc[Sweeper] = "collect_changes" /\ pc'[Sweeper] \in {"collect_files", "collect"}
        /\ db' = db /\ durable' = durable /\ blobFile' = blobFile
    BY <1>2 DEF CollectChanges, Continue, Take, Goto, Enter, Query, conn, disk
  <2>3. Sees(Sweeper)'
    <3>1. CASE chg
      <4>1. arg'[Sweeper] = arg[Sweeper]
        BY <1>2, <3>1 DEF CollectChanges, Goto
      <4> QED
        BY <1>0, <2>2, <3>1, <4>1 DEF Sees, Releases
    <3>2. CASE ~chg
      <4>1. pc'[Sweeper] = "collect"
        BY <1>2, <3>2 DEF CollectChanges, Continue, Take, Enter
      <4> QED
        BY <4>1 DEF Sees, Releases
    <3> QED
      BY <3>1, <3>2
  <2> QED
    BY <2>1, <2>2, <2>3, SerialQuiet
<1>3. CASE CollectFiles
  <2>1. OnlyMoves(Sweeper)
    BY <1>3, MovesAlone DEF CollectFiles, Continue, Take
  <2> QED
    BY <1>3, <2>1, SerialFilesGo DEF CollectFiles, Continue, Take, Enter, Query, conn, its
<1>4. ASSUME NEW u \in Upload, ExpireRow(u) PROVE SerialInv'
  <2> DEFINE d == WithoutUpload(db, u)
  <2>1. OnlyMoves(Sweeper)
    BY <1>4, MovesAlone DEF ExpireRow, Take
  <2>2. pc[Sweeper] = "expire" /\ pc'[Sweeper] = "expire_file" /\ blobFile' = blobFile
    BY <1>4 DEF ExpireRow, Take, Enter, Elsewhere, disk
  <2>3. d.files = db.files /\ d.refs = db.refs /\ Thinner(d, db)
    BY DEF Tables, WithoutUpload, Thinner
  <2>4. Sees(Sweeper)'
    BY <2>2 DEF Sees, Releases
  <2> HIDE DEF d
  <2>5. Execute(d, db.up[u] # "none") /\ Solid(d, blobFile)
    BY <1>0, <1>4, <2>3, ThinnerSolid DEF ExpireRow, d
  <2> QED
    BY <2>1, <2>2, <2>3, <2>4, <2>5, SerialOutside DEF TxLabels
<1>5. ASSUME NEW h \in Hash, CollectRow(h) PROVE SerialInv'
  <2> DEFINE hit == h \in db.blobs /\ db.refs[h] = 0
             d == IF hit THEN WithoutBlob(db, h) ELSE db
  <2>1. CASE Abort
    <3>1. OnlyMoves(Sweeper)
      BY <2>1, MovesAlone DEF Abort
    <3>2. /\ pc[Sweeper] = "collect" /\ pc'[Sweeper] = "idle"
          /\ db' = db /\ durable' = durable /\ blobFile' = blobFile
      BY <1>5, <2>1 DEF CollectRow, Abort, Return, Enter, Query, conn, disk
    <3>3. Sees(Sweeper)'
      BY <3>2 DEF Sees, Releases
    <3> QED
      BY <3>1, <3>2, <3>3, SerialQuiet
  <2>2. CASE ~Abort
    <3>1. OnlyMoves(Sweeper)
      BY <1>5, <2>2, MovesAlone DEF CollectRow, Take
    <3>2. /\ pc[Sweeper] = "collect" /\ pc'[Sweeper] = "collect_changes" /\ blobFile' = blobFile
          /\ arg'[Sweeper] = [NoArgs EXCEPT !.h = h] /\ db' = d /\ chg' = hit
      BY <1>5, <2>2 DEF CollectRow, Execute, Take, Enter, Elsewhere, disk
    <3>3. /\ d.files = db.files /\ d.refs = db.refs /\ Thinner(d, db)
          /\ hit => h \notin d.blobs
      BY DEF Tables, WithoutBlob, Thinner
    <3>4. arg'[Sweeper].h = h
      BY <3>2 DEF NoArgs
    <3>5. Sees(Sweeper)'
      BY <3>2, <3>3, <3>4 DEF Sees, Releases
    <3>6. Execute(d, hit)
      BY <1>5, <2>2 DEF CollectRow
    <3> HIDE DEF d, hit
    <3>7. Solid(d, blobFile)
      BY <1>0, <3>3, ThinnerSolid
    <3> QED
      BY <3>1, <3>2, <3>3, <3>5, <3>6, <3>7, SerialOutside DEF TxLabels
  <2> QED
    BY <2>1, <2>2
<1> QED
  BY <1>1, <1>2, <1>3, <1>4, <1>5

LEMMA SerialWorld == ASSUME Types, Safe, SerialInv, World PROVE SerialInv'
<1>1. ASSUME UNCHANGED <<conn, pc, arg, work, disk>>, lapsed \subseteq lapsed' PROVE SerialInv'
  <2>1. \A s : Dead(s) => Dead(s)'
    BY <1>1 DEF Dead, conn
  <2>2. \A t : Sees(t) => Sees(t)'
    BY <1>1, <2>1 DEF Sees, conn, disk
  <2>3. \A t : (Counting(t) <=> Counting(t)') /\ (Losing(t) <=> Losing(t)')
    BY <1>1 DEF Counting, Owing, Ahead, Going, Losing, conn
  <2>4. \A t : Undisturbed(t) <=> Undisturbed(t)'
    BY <1>1 DEF Undisturbed, At
  <2> QED
    BY <1>1, <2>2, <2>3, <2>4 DEF SerialInv, conn, disk
<1>2. CASE Crash
  <2>1. /\ db' = durable /\ durable' = durable /\ blobFile' = blobFile
        /\ \A t \in Threads : pc'[t] = "idle"
    BY <1>2 DEF Crash, Reopen, disk
  <2>2. \A t \in Threads : (Counting(t) /\ Losing(t) /\ Sees(t))'
    BY <2>1, DurableCounts
  <2> QED
    BY <2>1, <2>2 DEF SerialInv
<1>3. ASSUME NEW s \in Share, Lapse(s) PROVE SerialInv'
  BY <1>1, <1>3 DEF Lapse
<1>4. ASSUME NEW h \in Hash, Age(h) PROVE SerialInv'
  BY <1>1, <1>4 DEF Age
<1> QED
  BY <1>2, <1>3, <1>4 DEF World

LEMMA SerialNextInv ==
    ASSUME Types, Safe, SerialInv, [SerialNext]_vars PROVE SerialInv'
<1>1. CASE UNCHANGED vars
  <2>1. \A t : (Sees(t) <=> Sees(t)') /\ (Undisturbed(t) <=> Undisturbed(t)')
    BY <1>1 DEF vars, conn, disk, clock, Sees, Undisturbed, At, Dead
  <2>2. \A t : (Counting(t) <=> Counting(t)') /\ (Losing(t) <=> Losing(t)')
    BY <1>1 DEF vars, conn, Counting, Owing, Ahead, Going, Losing
  <2> QED
    BY <1>1, <2>1, <2>2 DEF vars, conn, disk, SerialInv
<1> QED
  BY <1>1, SerialRequest, SerialHandler, SerialRelease, SerialCollect, SerialWorld
     DEF SerialNext, Sweep

LEMMA SerialInvariance == SerialSpec => [](Types /\ Safe /\ SerialInv)
<1>1. Init => Types /\ Safe /\ SerialInv
  BY InitTypes, InitSafe, SerialInit
<1>2. (Types /\ Safe /\ SerialInv) /\ [SerialNext]_vars => (Types /\ Safe /\ SerialInv)'
  <2>1. [SerialNext]_vars => [Next]_vars
    BY DEF SerialNext, Next, Requests
  <2> QED
    BY <2>1, NextTypes, NextSafe, SerialNextInv
<1> QED
  BY <1>1, <1>2, PTL DEF SerialSpec

\* What a link or a finished upload refers to is on disk, at every statement of
\* every handler and sweep and after a crash at any of them: the file is moved
\* before its row is inserted, and removed after it is deleted.
THEOREM FilesStayOnDisk == SerialSpec => []ReferencedOnDisk
<1>1. SerialInv => ReferencedOnDisk
  BY DEF SerialInv, Solid, ReferencedOnDisk
<1> QED
  BY <1>1, SerialInvariance, PTL

\* The count of a blob is never below the number of its file rows, whatever
\* removals, releases and crashes came before.
THEOREM CountsNeverTooLow == SerialSpec => []NeverUndercounted
<1>1. Types /\ Safe /\ SerialInv => NeverUndercounted
  <2> SUFFICES ASSUME Types, Safe, SerialInv, owner = NoOwner PROVE Counted(db)
    BY DEF NeverUndercounted, Counted
  <2> QED
    BY DEF Safe, Owned, SerialInv
<1> QED
  BY <1>1, SerialInvariance, PTL


\* What a transaction of t has taken from the tables, its COMMIT takes for good.
LEMMA CommitLoses ==
    ASSUME Types, Safe, SerialInv, NEW t \in Threads, Undisturbed(t), Commit(t),
           NEW f \in durable.files \ durable'.files
    PROVE  \/ pc[t] \in {"remove_count", "remove_last", "remove_commit"} /\ f = <<arg[t].s, arg[t].u>>
           \/ pc[t] \in {"rel_mark", "rel_commit"} /\ f[1] = arg[t].s
BY DEF SerialInv, Losing, Commit

\* The forms of a step that leave every durable file row where it is.
KeepsFiles ==
    \/ durable' = durable
    \/ \E d, x : Execute(d, x) /\ d.files = db.files

LEMMA FilesKept ==
    ASSUME Types, Safe, SerialInv, KeepsFiles PROVE durable'.files = durable.files
BY DEF KeepsFiles, Execute, Safe, Owned

LEMMA SerialKeepsFiles ==
    ASSUME Types, Safe, SerialInv, [SerialNext]_vars,
           NEW f \in durable.files \ durable'.files
    PROVE  Dead(f[1]) \/ \E t \in Workers : Removes(t, f)
<1> db \in Tables /\ \A t \in Workers : t \in Threads
  BY DEF Types, ConnOK, Threads
<1>0. ~KeepsFiles
  BY FilesKept
<1>1. ASSUME NEW t \in Threads, NEW l, NEW m, NEW d, NEW x, Statement(t, l, m, d, x), l \in TxLabels
      PROVE  durable' = durable
  BY <1>1, ThreadsApart DEF Statement, Execute, At, Safe, Owned
<1>2. ASSUME NEW t \in Threads, Throw(t) PROVE FALSE
  BY <1>0, <1>2 DEF Throw, Rollback, KeepsFiles
<1>3. ~Query /\ ~BeginFails /\ \A t : ~Begin(t)
  BY <1>0 DEF Query, BeginFails, Begin, conn, KeepsFiles
<1>4. ASSUME NEW t \in Workers, Undisturbed(t), Request(t) PROVE FALSE
  <2>1. \A s \in Share : [db EXCEPT !.sh[s] = "revoked"].files = db.files
    BY DEF Tables
  <2> QED
    BY <1>0, <1>3, <1>4, <2>1
       DEF Request, Load, PatchLoad, TerminateLoad, CreateBegin, AddLoad, Revoke, RemoveLoad,
           OtherStatement, OtherBegin, BeginAt, KeepsFiles
<1>5. ASSUME NEW t \in Workers, Undisturbed(t), Handler(t)
      PROVE  \E v \in Workers : Removes(v, f)
  <2>1. CASE PatchOffset(t) \/ PromoteHash(t) \/ PromoteMove(t) \/ PromoteInsert(t) \/ PromoteComplete(t)
    <3>1. /\ [db EXCEPT !.up[arg[t].u] = IF @ = "open" THEN "full" ELSE @].files = db.files
          /\ [db EXCEPT !.blobs = @ \union {arg[t].h}].files = db.files
          /\ [db EXCEPT !.up[arg[t].u] = IF @ = "none" THEN @ ELSE "done"].files = db.files
      BY DEF Tables
    <3> QED
      BY <1>0, <1>3, <2>1, <3>1
         DEF PatchOffset, PromoteHash, PromoteMove, PromoteInsert, PromoteComplete, Statement, KeepsFiles
  <2>2. CASE OrphanDelete(t) \/ OrphanChanges(t) \/ OrphanFiles(t) \/ TerminateRow(t) \/ TerminateFile(t)
    <3>1. /\ (IF Orphaned(db, arg[t].h) THEN WithoutBlob(db, arg[t].h) ELSE db).files = db.files
          /\ WithoutUpload(db, arg[t].u).files = db.files
      BY DEF Tables, WithoutBlob, WithoutUpload
    <3> QED
      BY <1>0, <1>3, <2>2, <3>1
         DEF OrphanDelete, OrphanChanges, OrphanFiles, TerminateRow, TerminateFile, Statement, KeepsFiles
  <2>3. CASE CreateInsert(t) \/ (\E u \in Upload : AttachSelect(t, u)) \/ AttachReject(t)
                \/ AttachLink(t) \/ AttachCount(t) \/ AttachConsume(t)
    BY <1>0, <1>1, <1>2, <1>3, <2>3
       DEF CreateInsert, AttachSelect, AttachReject, AttachLink, AttachCount, AttachConsume,
           KeepsFiles, TxLabels
  <2>4. CASE AttachCommit(t) \/ OtherCommit(t)
    BY <1>5, <2>4, CommitLoses DEF AttachCommit, OtherCommit, CommitAt, At
  <2>5. CASE AddBegin(t) \/ AddCheck(t) \/ RemoveBegin(t) \/ RevokeChanges(t) \/ OtherThrow(t)
                \/ BeginRefused(t)
    BY <1>2, <1>3, <2>5 DEF AddBegin, AddCheck, RemoveBegin, RevokeChanges, OtherThrow, BeginRefused, BeginAt
  <2>6. CASE RemoveRow(t) \/ RemoveCount(t) \/ RemoveLast(t)
    BY <1>0, <1>1, <1>3, <2>6 DEF RemoveRow, RemoveCount, RemoveLast, KeepsFiles, TxLabels
  <2>7. CASE RemoveCommit(t)
    <3>1. pc[t] = "remove_commit" /\ f = <<arg[t].s, arg[t].u>>
      BY <1>5, <2>7, CommitLoses DEF RemoveCommit, CommitAt, At
    <3> QED
      BY <3>1 DEF Removes, At
  <2> QED
    BY <1>5, <2>1, <2>2, <2>3, <2>4, <2>5, <2>6, <2>7 DEF Handler
<1>6. ASSUME Undisturbed(Sweeper), Sweep PROVE Dead(f[1])
  <2> Sweeper \in Threads
    BY DEF Threads
  <2>1. CASE ReleaseCommit
    <3>1. pc[Sweeper] = "rel_commit" /\ f[1] = its.s
      BY <1>6, <2>1, CommitLoses DEF ReleaseCommit, Sweeping, At, its
    <3> QED
      BY <1>6, <3>1 DEF SerialInv, Sees, Releases, its
  <2>2. CASE ReleaseCount \/ ReleaseFiles \/ ReleaseMark
    BY <1>0, <1>1, <2>2 DEF ReleaseCount, ReleaseFiles, ReleaseMark, KeepsFiles, TxLabels
  <2>3. CASE SweepStart \/ (\E s \in Share : ReleaseBegin(s)) \/ ReleaseRefused \/ ExpireSelect
                \/ ExpireFile \/ CollectSelect \/ CollectChanges \/ CollectFiles \/ SweepStray
    BY <1>3, <2>3 DEF SweepStart, ReleaseBegin, ReleaseRefused, ExpireSelect, ExpireFile, CollectSelect,
                      CollectChanges, CollectFiles, SweepStray, Select, Abort
  <2>4. ASSUME NEW u \in Upload, ExpireRow(u) PROVE FALSE
    <3>1. WithoutUpload(db, u).files = db.files
      BY DEF Tables, WithoutUpload
    <3> QED
      BY <1>0, <2>4, <3>1 DEF ExpireRow, KeepsFiles
  <2>5. ASSUME NEW h \in Hash, CollectRow(h) PROVE FALSE
    <3>1. WithoutBlob(db, h).files = db.files
      BY DEF Tables, WithoutBlob
    <3> QED
      BY <1>0, <1>3, <2>5, <3>1 DEF CollectRow, Abort, KeepsFiles
  <2> QED
    BY <1>6, <2>1, <2>2, <2>3, <2>4, <2>5 DEF Sweep
<1>7. CASE World
  BY <1>0, <1>7 DEF World, Lapse, Age, Crash, Reopen, conn, KeepsFiles
<1>8. CASE UNCHANGED vars
  BY <1>0, <1>8 DEF vars, conn, KeepsFiles
<1> QED
  BY <1>4, <1>5, <1>6, <1>7, <1>8 DEF SerialNext

\* A working link loses a file only when its owner's removal of that file is
\* committed: not with the sweep's releases, nor another link's end, nor the
\* rollback or crash of anything.
THEOREM LinksKeepFiles == SerialSpec => WorkingLinksKeepFiles
<1> DEFINE Kept == \A f \in durable.files \ durable'.files :
                      Dead(f[1]) \/ \E t \in Workers : Removes(t, f)
<1>1. (Types /\ Safe /\ SerialInv) /\ [SerialNext]_vars => [Kept]_vars
  BY SerialKeepsFiles
<1> QED
  BY <1>1, SerialInvariance, PTL DEF SerialSpec, WorkingLinksKeepFiles

=============================================================================
