--------------------------------- MODULE Pictures --------------------------------
(***************************************************************************)
(* A member's profile picture (profiles.cc): a file avatars/<id>-<version> *)
(* and users.avatar that names it.  A new one is written under a version   *)
(* never used before, then the row is pointed at it, then the one the      *)
(* request found at its start is removed.  The sweep removes what no row   *)
(* names and is not younger than kAvatarSweepGrace.  One member, on the    *)
(* connection every other handler uses.                                    *)
(***************************************************************************)
EXTENDS Handlers

CONSTANTS Version, NoPicture

ASSUME PictureNames == NoPicture \notin Version /\ Version # {}

VARIABLES
    onDisk,     \* versions with a file in avatars/
    young,      \* of these, the ones the grace period covers
    used,       \* history: versions given out by randomToken
    looked,     \* the entry the sweep has found stale, or NoPicture
    undone      \* history: somebody's rollback, or a crash, undid a pointer

pictureVars == <<onDisk, young, used, looked, undone>>
pictures    == <<server, pictureVars>>

\* users.avatar of the member, and whether there is such a row at all.  The
\* member has a picture.
FirstPicture  == CHOOSE v \in Version : TRUE
PictureTables == [member : {TRUE}, avatar : {FirstPicture}]

PictureStart ==
    /\ onDisk = {FirstPicture} /\ young = {} /\ used = {FirstPicture}
    /\ looked = NoPicture /\ undone = FALSE

PictureInit == (\E d \in PictureTables : HandlersInit(d)) /\ PictureStart

Same       == UNCHANGED pictureVars
Pointed(v) == IF db.member THEN [db EXCEPT !.avatar = v] ELSE db

-----------------------------------------------------------------------------
\* PUT /api/me/avatar: requireUser reads the picture there is, and a version is drawn.
PutPicture(t) ==
    \E v \in Version \ used :
        /\ db.member
        /\ Load(t, "render", [previous |-> db.avatar, version |-> v])
        /\ used' = used \union {v} /\ UNCHANGED <<onDisk, young, looked, undone>>

\* renderAvatar writes the file, or the upload is no picture after all: a 422.
Render(t) ==
    /\ At(t, "render") /\ Query /\ Goto(t, "point")
    /\ onDisk' = onDisk \union {arg[t].version} /\ young' = young \union {arg[t].version}
    /\ UNCHANGED <<used, looked, undone>>

RenderFails(t) == At(t, "render") /\ Query /\ Return(t) /\ Same

Point(t) == Statement(t, "point", "remove", Pointed(arg[t].version), db.member) /\ Same

\* DELETE /api/me/avatar
DropPicture(t) ==
    /\ db.member
    /\ Load(t, "unpoint", [previous |-> db.avatar, version |-> NoPicture]) /\ Same

Unpoint(t) == Statement(t, "unpoint", "remove", Pointed(NoPicture), db.member) /\ Same

RemovePrevious(t) ==
    /\ At(t, "remove") /\ Query /\ Return(t)
    /\ onDisk' = onDisk \ {arg[t].previous} /\ UNCHANGED <<young, used, looked, undone>>

\* An administrator deletes the account; the file is the sweep's to find.
DropMember(t) == db.member /\ Request(t, [db EXCEPT !.member = FALSE, !.avatar = NoPicture], TRUE) /\ Same

\* Any other handler's transaction: what is written meanwhile goes with it.
Undoes == undone' = (undone \/ db # durable)

Beside(t) ==
    \/ Idle(t) /\ Begin(t) /\ Enter(t, "beside", NoArg) /\ Same
    \/ CommitAt(t, "beside") /\ Same
    \/ Throw(t, "beside") /\ Undoes /\ UNCHANGED <<onDisk, young, used, looked>>

\* A file is ten minutes old.  No request takes that long.
Age(v) ==
    /\ v \in young /\ \A t \in Workers : At(t, "point") => arg[t].version # v
    /\ young' = young \ {v}
    /\ UNCHANGED <<server, onDisk, used, looked, undone>>

\* Mutant: every file counts as old enough.
OldAnyhow(v) == TRUE

Old(v) == v \notin young

\* Mutant: the picture of an existing member is never stale.
StaleOfNobody(v) == ~db.member

Stale(v) == db.avatar # v

\* removeStaleAvatars: an entry is looked up, then removed.
Look ==
    /\ looked = NoPicture
    /\ \E v \in onDisk : Old(v) /\ Stale(v) /\ looked' = v
    /\ UNCHANGED <<server, onDisk, young, used, undone>>

RemoveStale ==
    /\ looked # NoPicture
    /\ onDisk' = onDisk \ {looked} /\ looked' = NoPicture
    /\ UNCHANGED <<server, young, used, undone>>

\* The process dies: the sweep runs again at the next start.
PictureRestart ==
    /\ Restart /\ Undoes
    /\ looked' = NoPicture /\ UNCHANGED <<onDisk, young, used>>

PictureStep(t) ==
    \/ PutPicture(t) \/ Render(t) \/ RenderFails(t) \/ Point(t)
    \/ DropPicture(t) \/ Unpoint(t) \/ RemovePrevious(t)

PictureNext ==
    \/ \E t \in Workers : PictureStep(t) \/ DropMember(t) \/ Beside(t)
    \/ \E v \in Version : Age(v)
    \/ Look \/ RemoveStale \/ PictureRestart

\* A handler that has begun comes to its end, time passes, and the sweep goes on:
\* it runs at every start and on its interval, and is not killed each time.
PictureFairness ==
    /\ \A t \in Workers : WF_pictures(~Idle(t) /\ PictureStep(t))
    /\ \A v \in Version : WF_pictures(Age(v))
    /\ WF_pictures(Look) /\ SF_pictures(RemoveStale)

PictureSpec == PictureInit /\ [][PictureNext]_pictures /\ PictureFairness

-----------------------------------------------------------------------------
\* The picture a member's row names is there, in every overlap of requests that
\* replace and drop it with each other and with the sweep, whose grace "can
\* never delete one between its file being written and the database pointing
\* at it" - unless another handler's rollback brings a pointer back.
PictureThere == ~undone /\ db.avatar # NoPicture => db.avatar \in onDisk

\* A picture that was replaced, or whose member is gone, does not stay: two
\* uploads that overlap both remove the same old one, and what neither removes
\* the sweep does.
StalePictureGoes == \A v \in Version : (v \in onDisk /\ db.avatar # v) ~> (v \notin onDisk \/ db.avatar = v)

=============================================================================
