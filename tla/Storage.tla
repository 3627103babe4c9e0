-------------------------------- MODULE Storage ---------------------------------
(***************************************************************************)
(* What members keep, and how much of it (quota.cc, and what tus.cc,       *)
(* shares.cc, gc.cc and admin.cc do to what it adds up): uploads, the file *)
(* rows of links they become, and the reference count of each blob, over   *)
(* several accounts.  Each transaction is one step here; ShareStore has    *)
(* their statements, of one account.  A file is the hash of its bytes.     *)
(***************************************************************************)
EXTENDS Naturals, FiniteSetsExt

CONSTANTS
    Member,        \* accounts
    Item,          \* an upload, and later the file row it is spent on
    Link, Hash,
    SizeOf,        \* blobs.size
    Limits,        \* what a member's limit can be set to
    NoLimit        \* an administrator's, and -1

ASSUME SizesNat == SizeOf \in [Hash -> Nat]
ASSUME LimitsNat == Limits \subseteq Nat \union {NoLimit} /\ IsFiniteSet(Item)
ASSUME NamesApart == "none" \notin Member /\ {"none", "sending", "ready"} \intersect Link = {}

VARIABLES
    present,    \* users
    item,       \* where an item is: an unfinished upload, a finished one, a link's file
    link,       \* whose a link is, and whether it has lapsed; released, it is forgotten
    refs,       \* blobs.refcount
    limit,      \* limitFor
    repeated    \* history: a link with two equal files was released

storageVars == <<present, item, link, refs, limit, repeated>>

NoFile == [owner |-> "none", hash |-> "none", at |-> "none"]
NoLink == [owner |-> "none", lapsed |-> FALSE]

StorageInit ==
    /\ present = Member /\ repeated = FALSE
    /\ item = [i \in Item |-> NoFile] /\ link = [l \in Link |-> NoLink]
    /\ refs = [h \in Hash |-> 0] /\ limit \in [Member -> Limits]

FilesAt(l)   == {i \in Item : item[i].at = l}
Mine(u)  == {i \in Item : item[i].owner = u}
Rows(h)  == {i \in Item : item[i].hash = h /\ item[i].at \in Link}
Usable(l) == link[l] # NoLink /\ ~link[l].lapsed

\* UPDATE blobs SET refcount = MAX(0, refcount - n), of each hash
Minus(m, n)     == IF m > n THEN m - n ELSE 0
Without(gone)   == [i \in Item |-> IF i \in gone THEN NoFile ELSE item[i]]
Hashes(files)   == {item[i].hash : i \in files}
Count(h, files) == Cardinality({i \in files : item[i].hash = h})

-----------------------------------------------------------------------------
\* usage: finished files by content, those of links that work and those not yet
\* in a link; and unfinished uploads as long as they say they will be.
Finished(u) == {i \in Mine(u) : item[i].at = "ready" \/ (item[i].at \in Link /\ Usable(item[i].at))}
Unfinished(u) == {i \in Mine(u) : item[i].at = "sending"}
Total(hashes) == MapThenSumSet(LAMBDA h : SizeOf[h], hashes)
Usage(u) ==
    Total(Hashes(Finished(u)))
        + MapThenSumSet(LAMBDA i : SizeOf[item[i].hash], Unfinished(u))

Within(n, max) == max # NoLimit => n <= max

\* Mutant: what is still being sent takes no room.
RoomFinished(u, n) == Within(Total(Hashes(Finished(u))) + n, limit[u])

\* requireRoom
Room(u, n) == Within(Usage(u) + n, limit[u])

-----------------------------------------------------------------------------
(* Uploads *)

\* POST /files
PostUpload(u, i, h) ==
    /\ u \in present /\ item[i] = NoFile /\ Room(u, SizeOf[h])
    /\ item' = [item EXCEPT ![i] = [owner |-> u, hash |-> h, at |-> "sending"]]
    /\ UNCHANGED <<present, link, refs, limit, repeated>>

\* promoteToBlob: a blob that is new starts with no references.
FinishUpload(i) ==
    /\ item[i].at = "sending"
    /\ item' = [item EXCEPT ![i].at = "ready"]
    /\ UNCHANGED <<present, link, refs, limit, repeated>>

\* DELETE /files/{id}, or it expires.
DropUpload(i) ==
    /\ item[i].at \in {"sending", "ready"}
    /\ item' = Without({i}) /\ UNCHANGED <<present, link, refs, limit, repeated>>

-----------------------------------------------------------------------------
(* Links *)

\* attachUploads: finished uploads of the link's owner become its files.
Attach(l, u, files) ==
    /\ files # {} /\ files \subseteq Mine(u) \intersect FilesAt("ready")
    /\ item' = [i \in Item |-> IF i \in files THEN [item[i] EXCEPT !.at = l] ELSE item[i]]
    /\ refs' = [h \in Hash |-> refs[h] + Count(h, files)]
    /\ UNCHANGED <<present, limit, repeated>>

\* POST /api/shares, and the link made for the photos of a message.
CreateLink(l, u, files) ==
    /\ u \in present /\ link[l] = NoLink
    /\ link' = [link EXCEPT ![l] = [owner |-> u, lapsed |-> FALSE]]
    /\ Attach(l, u, files)

\* POST /api/shares/{token}/files
AddFiles(l, files) ==
    Usable(l) /\ Attach(l, link[l].owner, files) /\ UNCHANGED link

\* DELETE /api/shares/{token}/files/{fileId}: the last one revokes the link.
RemoveFile(i) ==
    LET l == item[i].at
        h == item[i].hash IN
    /\ l \in Link /\ Usable(l)
    /\ item' = Without({i}) /\ refs' = [refs EXCEPT ![h] = Minus(@, 1)]
    /\ link' = [link EXCEPT ![l].lapsed = FilesAt(l) = {i}]
    /\ UNCHANGED <<present, limit, repeated>>

Lapse(links) ==
    /\ link' = [l \in Link |-> IF l \in links THEN [link[l] EXCEPT !.lapsed = TRUE] ELSE link[l]]
    /\ UNCHANGED <<present, item, refs, limit, repeated>>

\* A link expires, which PATCH cannot undo, or its owner revokes it.
LinkLapses(l) == Usable(l) /\ Lapse({l})

\* POST /api/admin/users/{id}/revoke
RevokeAll(u) == u \in present /\ Lapse({l \in Link : link[l].owner = u})

\* releaseLapsedShares: one reference for each blob the link refers to, however
\* many of its files are that blob's.  Bound: that makes a difference once.
ReleaseLink(l) ==
    LET files  == FilesAt(l)
        double == \E h \in Hash : Count(h, files) > 1 IN
    /\ link[l].lapsed /\ (double => ~repeated)
    /\ refs' = [h \in Hash |-> IF h \in Hashes(files) THEN Minus(refs[h], 1) ELSE refs[h]]
    /\ item' = Without(files) /\ link' = [link EXCEPT ![l] = NoLink]
    /\ repeated' = (repeated \/ double)
    /\ UNCHANGED <<present, limit>>

-----------------------------------------------------------------------------
(* Administration *)

\* Mutant: everybody's rows of the blobs are counted.
OwnedOfAnybody(u) == {i \in Item : item[i].at \in Link /\ item[i].hash \in Hashes(Mine(u))}

\* The file rows a deleted account's links hold.
Owned(u) == {i \in Mine(u) : item[i].at \in Link}

\* DELETE /api/admin/users/{id}, by somebody else: a reference for each row,
\* then the cascade takes links, file rows and uploads.
DeleteKeeper(u) ==
    /\ u \in present /\ present # {u} /\ present' = present \ {u}
    /\ refs' = [h \in Hash |-> Minus(refs[h], Count(h, Owned(u)))]
    /\ item' = Without(Mine(u))
    /\ link' = [l \in Link |-> IF link[l].owner = u THEN NoLink ELSE link[l]]
    /\ UNCHANGED <<limit, repeated>>

\* POST /api/admin/users/{id}/limit, or another role; nothing is deleted.
SetLimit(u, n) ==
    /\ u \in present /\ limit' = [limit EXCEPT ![u] = n]
    /\ UNCHANGED <<present, item, link, refs, repeated>>

StorageNext ==
    \/ \E u \in Member, i \in Item, h \in Hash : PostUpload(u, i, h)
    \/ \E i \in Item : FinishUpload(i) \/ DropUpload(i) \/ RemoveFile(i)
    \/ \E l \in Link, files \in SUBSET Item :
          AddFiles(l, files) \/ \E u \in Member : CreateLink(l, u, files)
    \/ \E l \in Link : LinkLapses(l) \/ ReleaseLink(l)
    \/ \E u \in Member : RevokeAll(u) \/ DeleteKeeper(u) \/ \E n \in Limits : SetLimit(u, n)

StorageSpec == StorageInit /\ [][StorageNext]_storageVars

-----------------------------------------------------------------------------
\* A blob that several accounts share has a reference for every file row, so
\* that no deletion, release or removal by one takes the file from another; and
\* no more than that ("without this a deleted account's files stayed on disk
\* for good"), unless a link with two equal files was released.
CountsMatch ==
    \A h \in Hash :
        /\ refs[h] >= Cardinality(Rows(h))
        /\ ~repeated => refs[h] = Cardinality(Rows(h))

\* What a member keeps grows only within the limit, whatever finishes, is put
\* in links, lapses or is removed; "lowering a limit below what someone already
\* keeps ... only stops new uploads".
GrowsWithinLimit ==
    [][\A u \in Member : Usage(u)' > Usage(u) => Within(Usage(u)', limit[u])]_storageVars

=============================================================================
