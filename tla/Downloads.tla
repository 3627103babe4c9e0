-------------------------------- MODULE Downloads --------------------------------
(***************************************************************************)
(* What a link gives out (shares.cc: /d/{token}/{fileId}, /all.zip): who   *)
(* may have it, which bytes a Range header asks for, and how often before  *)
(* max_downloads is reached.  The count is taken by a guarded UPDATE whose *)
(* outcome is read with changes() in a later call, so the other handlers   *)
(* on the connection are here too, as writers of anything.  One link, one  *)
(* file, until the link is released: what the sweep then does is           *)
(* ShareStore's.  A request that is refused before it writes is left out,  *)
(* and so are the passwords it tries (Throttle).                           *)
(***************************************************************************)
EXTENDS Handlers, Integers

CONSTANTS
    FileSize,   \* sizes of the file
    Limit,      \* values of max_downloads
    NoLimit,    \* it is NULL
    MaxByte,    \* bound: the numbers in a Range header
    MaxServed   \* bound: downloads

ASSUME DownloadBounds == {FileSize, Limit} \subseteq SUBSET Nat /\ {MaxByte, MaxServed} \subseteq Nat

VARIABLES
    fileSize,    \* fs::file_size of the blob
    served,      \* history: whole downloads answered
    told,        \* history: those the owner is to hear of
    crossed      \* history: a statement of another handler came in between

downloads == <<server, fileSize, served, told, crossed>>

\* A new link: its shares row, and how many share_downloads rows it has.
DownloadTables ==
    [link : [live : {TRUE}, public : BOOLEAN, protected : BOOLEAN,
             max : Limit \union {NoLimit}, count : {0}, records : {0}]]

DownloadHistory ==
    /\ fileSize \in FileSize /\ served = 0 /\ told = 0 /\ crossed = FALSE

DownloadInit == (\E d \in DownloadTables : HandlersInit(d)) /\ DownloadHistory

-----------------------------------------------------------------------------
\* A Range header of one range, "bytes=first-last", either of them absent; any
\* other header, or none, is NoHeader.
Absent   == -1
NoHeader == [first |-> Absent, last |-> Absent]
Header   == [first : {Absent} \union 0..MaxByte, last : {Absent} \union 0..MaxByte]

Smaller(m, n) == IF m < n THEN m ELSE n

Whole         == [result |-> "None", offset |-> 0, length |-> 0]
Unsatisfiable == [result |-> "Unsatisfiable", offset |-> 0, length |-> 0]
Bytes(at, n)  == [result |-> "Ok", offset |-> at, length |-> n]

\* The final bytes of a file of size n; those from the first to the last asked for.
Suffix(last, n) ==
    IF last = Absent \/ n = 0 THEN Whole
    ELSE IF last = 0 THEN Unsatisfiable
    ELSE Bytes(n - Smaller(last, n), Smaller(last, n))

\* Mutant: the last byte asked for may be the one behind the end.
StretchBeyond(first, last, n) ==
    LET end == IF last = Absent THEN n - 1 ELSE Smaller(last, n) IN
    IF first >= n \/ end < first THEN Unsatisfiable ELSE Bytes(first, end - first + 1)

Stretch(first, last, n) ==
    LET end == IF last = Absent THEN n - 1 ELSE Smaller(last, n - 1) IN
    IF first >= n \/ end < first THEN Unsatisfiable ELSE Bytes(first, end - first + 1)

parseRange(h, n) == IF h.first = Absent THEN Suffix(h.last, n) ELSE Stretch(h.first, h.last, n)

-----------------------------------------------------------------------------
Viewer == {"visitor", "member", "owner", "admin"}

\* authoriseShare: who is let in, with the password or without.
Authorised(link, viewer, knows) ==
    /\ link.live
    /\ link.public \/ viewer # "visitor"
    /\ ~link.protected \/ viewer \in {"owner", "admin"} \/ knows

UsedUp(link) == link.max # NoLimit /\ link.count >= link.max

\* A statement that comes between two of another handler's.
Cross(t) == crossed' = (crossed \/ \E v \in Workers \ {t} : ~Idle(v))

Quietly == UNCHANGED <<fileSize, served, told>>

\* Only a request that starts at byte zero counts.
Counts(r) == r.result = "None" \/ (r.result = "Ok" /\ r.offset = 0)

\* The link is loaded, the visitor authorised and the range read, or it is the
\* archive that is asked for.  One that does not count only reads.
Ask(t) ==
    \E viewer \in Viewer :
        /\ \A n \in {served, db.link.count, db.link.records} : n < MaxServed
        /\ \E knows \in BOOLEAN : Authorised(db.link, viewer, knows)
        /\ \E h \in Header : Counts(parseRange(h, fileSize))
        /\ Load(t, "count", [own |-> viewer = "owner"]) /\ Cross(t) /\ Quietly

\* Mutant: the condition of the UPDATE is left out.
CountAnyhow(t) ==
    /\ Statement(t, "count", "counted", [db EXCEPT !.link.count = @ + 1], TRUE)
    /\ Cross(t) /\ Quietly

\* Condition and increment in one statement.
Count(t) ==
    /\ IF UsedUp(db.link) THEN Statement(t, "count", "counted", db, FALSE)
       ELSE Statement(t, "count", "counted", [db EXCEPT !.link.count = @ + 1], TRUE)
    /\ Cross(t) /\ Quietly

\* changes() == 0 is a 410.
Counted410(t) == At(t, "counted") /\ ~chg /\ Query /\ Return(t) /\ Cross(t) /\ Quietly
CountedOk(t)  == At(t, "counted") /\ chg /\ Query /\ Goto(t, "log") /\ Cross(t) /\ Quietly

\* Mutant: the owner's downloads are recorded, and no others.
RecordOwners(t) ==
    /\ At(t, "record")
    /\ IF ~arg[t].own THEN Query /\ Goto(t, "serve")
       ELSE Statement(t, "record", "serve", [db EXCEPT !.link.records = @ + 1], TRUE)
    /\ Cross(t) /\ Quietly

\* recordDownload: in the activity log, and unless it is the owner's own, for
\* the owner to see.
LogDownload(t) == Statement(t, "log", "record", db, TRUE) /\ Cross(t) /\ Quietly
RecordDownload(t) ==
    /\ At(t, "record")
    /\ IF arg[t].own THEN Query /\ Goto(t, "serve")
       ELSE Statement(t, "record", "serve", [db EXCEPT !.link.records = @ + 1], TRUE)
    /\ Cross(t) /\ Quietly

Serve(t) ==
    /\ At(t, "serve") /\ Query /\ Return(t)
    /\ served' = served + 1
    /\ told' = told + IF arg[t].own THEN 0 ELSE 1
    /\ Cross(t) /\ UNCHANGED fileSize

\* The owner removes the link, or makes it public or private.
Revoke(t) ==
    /\ db.link.live
    /\ Request(t, [db EXCEPT !.link.live = FALSE], TRUE) /\ Cross(t) /\ Quietly
Publish(t) == Request(t, [db EXCEPT !.link.public = ~@], TRUE) /\ Cross(t) /\ Quietly

\* Any other handler: a write that hits a row or does not, or a transaction that
\* is committed or, when it throws, rolled back.
Elsewhere(t) ==
    /\ \/ \E touched \in BOOLEAN : Request(t, db, touched)
       \/ Idle(t) /\ Begin(t) /\ Enter(t, "elsewhere", NoArg)
       \/ CommitAt(t, "elsewhere")
       \/ Throw(t, "elsewhere")
    /\ Cross(t) /\ Quietly

DownloadRestart == Restart /\ Quietly /\ UNCHANGED crossed

DownloadStep(t) ==
    \/ Ask(t) \/ Count(t) \/ Counted410(t) \/ CountedOk(t) \/ LogDownload(t)
    \/ RecordDownload(t) \/ Serve(t) \/ Revoke(t) \/ Publish(t) \/ Elsewhere(t)

DownloadNext == DownloadRestart \/ \E t \in Workers : DownloadStep(t)

DownloadSpec == DownloadInit /\ [][DownloadNext]_downloads

-----------------------------------------------------------------------------
\* Whatever runs beside it, crashes or is rolled back, download_count never
\* passes max_downloads, in the tables or in what a restart finds.
CountWithinLimit ==
    \A d \in {db, durable} : d.link.max # NoLimit => d.link.count <= d.link.max

\* Unless handlers overlap, no more downloads are answered than are counted, so
\* no more than max_downloads; and the owner hears of every one that is not
\* the owner's, and of none that did not happen or was not counted.
ServedIsCounted ==
    ~crossed => served <= db.link.count /\ told <= db.link.records /\ db.link.records <= db.link.count

\* The bytes of a file of size n that a header asks for.
Asked(h, n) ==
    IF h.first = Absent THEN {i \in 0..n - 1 : i >= n - h.last}
    ELSE {i \in 0..n - 1 : i >= h.first /\ (h.last # Absent => i <= h.last)}

\* "Single-range RFC 7233 parsing": a range that is answered is the bytes asked
\* for, one that is refused asks for none, only what is no range, or the end of
\* an empty file, is answered with the whole file, and exactly what gives out the
\* first byte counts as a download.
RangeExact ==
    \A h \in Header :
        LET r == parseRange(h, fileSize)
            bytes == Asked(h, fileSize) IN
        /\ Counts(r) <=> r.result = "None" \/ 0 \in bytes
        /\ CASE r.result = "Ok"            -> r.length > 0 /\ r.offset..(r.offset + r.length - 1) = bytes
             [] r.result = "Unsatisfiable" -> bytes = {}
             [] r.result = "None"          -> h = NoHeader \/ (h.first = Absent /\ fileSize = 0)

=============================================================================
