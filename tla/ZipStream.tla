-------------------------------- MODULE ZipStream --------------------------------
(***************************************************************************)
(* zip::Streamer (zipstream.cc): an archive of stored files, produced as   *)
(* the client reads it.  Its length is announced before a byte is read,    *)
(* from the sizes of the entries; the trailer is built from what was       *)
(* written.  A step is one turn of the loop in read(), of which the caller *)
(* may ask for any number of bytes at a time.  Only lengths are modelled,  *)
(* and the numbers the central directory holds.                            *)
(***************************************************************************)
EXTENDS Integers, Sequences

CONSTANTS
    Max32,          \* kMax32: what a 32 bit field holds
    MaxEntries16,   \* kMaxEntries16
    Size,           \* sizes of files, as their rows have them
    NameLen,        \* length of a name
    MaxFiles        \* bound: files of a link

ASSUME ZipBounds ==
    /\ {Max32, MaxEntries16, MaxFiles, NameLen} \subseteq Nat /\ Size \subseteq Nat
    /\ Max32 \notin Size  \* a size that reads as the mark of a Zip64 field

VARIABLES
    entries,    \* entries_: their sizes
    index,      \* index_, from 1
    phase,      \* phase_
    pending,    \* staged bytes not yet read
    central,    \* central_: a record per entry begun, kept when the trailer takes it
    opened,     \* fd_ >= 0
    left,       \* fileRemaining_
    written,    \* written_
    began,      \* history: where each local header really starts
    short       \* history: a file could not be read to its end

zipVars == <<entries, index, phase, pending, central, opened, left, written, began, short>>

ZipInit ==
    /\ entries \in UNION {[1..n -> Size] : n \in 0..MaxFiles}
    /\ index = 1 /\ phase = "start" /\ pending = 0 /\ central = <<>> /\ opened = FALSE
    /\ left = 0 /\ written = 0 /\ began = <<>> /\ short = FALSE

Overflows(n) == n > Max32

\* localExtraLen and centralExtraLen.
LocalExtraLen(size) == IF Overflows(size) THEN 20 ELSE 0
CentralExtraLen(size, offset) ==
    IF ~Overflows(size) /\ ~Overflows(offset) THEN 0
    ELSE 4 + (IF Overflows(size) THEN 16 ELSE 0) + (IF Overflows(offset) THEN 8 ELSE 0)

\* offsets_: where each entry is to start; the last one, where they all end.
Offsets ==
    LET f[i \in 1..Len(entries) + 1] ==
            IF i = 1 THEN 0
            ELSE f[i - 1] + 30 + NameLen + LocalExtraLen(entries[i - 1]) + entries[i - 1]
    IN  f

\* centralSize, of the first i entries.
CentralSize ==
    LET f[i \in 0..Len(entries)] ==
            IF i = 0 THEN 0 ELSE f[i - 1] + 46 + NameLen + CentralExtraLen(entries[i], Offsets[i])
    IN  f[Len(entries)]

\* Mutant: that a count can overflow is forgotten when the length is computed.
TrailerWithoutCount(end) == 22 + IF Overflows(end) \/ Overflows(CentralSize) THEN 76 ELSE 0

\* The trailer's length, as the constructor expects it.
TrailerAhead(end) ==
    22 + IF Overflows(end) \/ Overflows(CentralSize) \/ Len(entries) > MaxEntries16
         THEN 56 + 20 ELSE 0

\* totalSize_
Total == LET end == Offsets[Len(entries) + 1] IN end + CentralSize + TrailerAhead(end)

\* A central record's numbers: marks for what overflows, the Zip64 field's values.
Marked(n) == IF Overflows(n) THEN Max32 ELSE n
If64(n)   == IF Overflows(n) THEN <<n>> ELSE <<>>

\* Mutant: the offset is put before the sizes.
RecordOffsetFirst(size, offset) ==
    [size |-> Marked(size), offset |-> Marked(offset), extra |-> If64(offset) \o If64(size) \o If64(size)]

Record(size, offset) ==
    [size |-> Marked(size), offset |-> Marked(offset), extra |-> If64(size) \o If64(size) \o If64(offset)]

RecordLen(r) == 46 + NameLen + IF r.extra = <<>> THEN 0 ELSE 4 + 8 * Len(r.extra)

RecordsLen(s) ==
    LET f[i \in 0..Len(s)] == IF i = 0 THEN 0 ELSE f[i - 1] + RecordLen(s[i]) IN f[Len(s)]

-----------------------------------------------------------------------------
\* beginEntry: the local header is staged, the central record built.
BeginEntry(i) ==
    /\ pending' = 30 + NameLen + IF Overflows(entries[i]) THEN 4 + 16 ELSE 0
    /\ central' = Append(central, Record(entries[i], Offsets[i]))
    /\ began' = Append(began, written)
    /\ index' = i /\ phase' = "LocalHeader"

\* buildTrailer: the central directory and what ends the archive are staged.
BuildTrailer ==
    LET directory == RecordsLen(central)
        zip64 == Overflows(written) \/ Overflows(directory) \/ Len(entries) > MaxEntries16 IN
    /\ pending' = directory + 22 + IF zip64 THEN 56 + 20 ELSE 0
    /\ index' = Len(entries) + 1 /\ phase' = "Trailer"
    /\ UNCHANGED <<central, began>>

NextEntry(i) == IF i <= Len(entries) THEN BeginEntry(i) ELSE BuildTrailer

Start ==
    /\ phase = "start"
    /\ NextEntry(1)
    /\ UNCHANGED <<entries, opened, left, written, short>>

\* As many bytes as the caller's buffer has room for, or as the read returns:
\* what there is, or (bound) half of it.
Part(n) == {(n + 1) \div 2, n}

Staged ==
    /\ pending > 0
    /\ \E take \in Part(pending) : pending' = pending - take /\ written' = written + take
    /\ UNCHANGED <<entries, index, phase, central, opened, left, began, short>>

\* openCurrentFile: the file may be gone.
OpenFile ==
    /\ phase = "LocalHeader" /\ pending = 0
    /\ opened' \in BOOLEAN
    /\ left' = entries[index] /\ phase' = "FileData"
    /\ short' = (short \/ (~opened' /\ left' > 0))
    /\ UNCHANGED <<entries, index, pending, central, written, began>>

\* A file that is at its end, or could not be opened, is done with.
FileDone ==
    /\ phase = "FileData" /\ (~opened \/ left = 0)
    /\ opened' = FALSE
    /\ NextEntry(index + 1)
    /\ UNCHANGED <<entries, left, written, short>>

ReadFile ==
    /\ phase = "FileData" /\ opened /\ left > 0
    /\ \E got \in Part(left) : left' = left - got /\ written' = written + got
    /\ UNCHANGED <<entries, index, phase, pending, central, opened, began, short>>

\* The read returns nothing: the disk fails, or the file is shorter than its row says.
ReadFails ==
    /\ phase = "FileData" /\ opened /\ left > 0
    /\ opened' = FALSE /\ left' = 0 /\ short' = TRUE
    /\ UNCHANGED <<entries, index, phase, pending, central, written, began>>

End ==
    /\ phase = "Trailer" /\ pending = 0
    /\ phase' = "Done"
    /\ UNCHANGED <<entries, index, pending, central, opened, left, written, began, short>>

ZipNext == Start \/ Staged \/ OpenFile \/ FileDone \/ ReadFile \/ ReadFails \/ End

ZipSpec == ZipInit /\ [][ZipNext]_zipVars

-----------------------------------------------------------------------------
\* zipstream.cc:89 computes ahead what :180 decides again from what was
\* written.  The body is never longer than the Content-Length announced for it,
\* whatever files fall short and whichever numbers overflow on the way, and is
\* as long exactly when it lacks nothing: else "the body then falls short of
\* the declared Content-Length, which the client detects".
LengthAnnounced ==
    /\ written + pending <= Total
    /\ phase = "Done" => (written = Total <=> ~short)

\* What a reader of the central directory takes the size and offset for: each
\* mark is replaced by the next value of the Zip64 field, if there is one.
Sizes(r) == IF r.size = Max32 /\ Len(r.extra) >= 2 THEN r.extra[1] ELSE r.size
OffsetRead(r) ==
    LET at == IF r.size = Max32 THEN 3 ELSE 1 IN
    IF r.offset = Max32 /\ Len(r.extra) >= at THEN r.extra[at] ELSE r.offset

\* In an archive that lacks nothing, a reader finds every file where its local
\* header really is, with its size, on both sides of every 32 bit limit.
ReaderFindsAll ==
    phase = "Done" /\ ~short =>
        \A i \in 1..Len(entries) :
            Sizes(central[i]) = entries[i] /\ OffsetRead(central[i]) = began[i]

=============================================================================
