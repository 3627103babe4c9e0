----------------------------- MODULE DownloadsProofs -----------------------------
(***************************************************************************)
(* The limit of downloads holds for any number of workers, any limits and  *)
(* any overlap; and as long as no handler's statement came between two of  *)
(* another's, what was answered, what was counted and what the owner hears *)
(* of agree.  The bytes of a range are those that were asked for, and an   *)
(* archive is what its announced length and its directory say, for files   *)
(* of any size and on both sides of each 32 bit limit.                     *)
(***************************************************************************)
EXTENDS Downloads, ZipStream, SequenceTheorems, WellFoundedInduction, TLAPS

-----------------------------------------------------------------------------
(* The invariant *)

LinkRow == [live : BOOLEAN, public : BOOLEAN, protected : BOOLEAN,
            max : Limit \union {NoLimit}, count : Nat, records : Nat]
Tables == [link : LinkRow]

WithinLimit(d) == d.link.max # NoLimit => d.link.count <= d.link.max

\* A handler at l has counted a download that it has not answered yet.
Coming(l, c) == l \in {"log", "record", "serve"} \/ (l = "counted" /\ c)

\* With n downloads answered, m of which the owner is to hear of, the row k is
\* right; one that is coming has its count, and its record once it is made.
Balanced(k, n, m) == n <= k.count /\ m <= k.records /\ k.records <= k.count
Ahead(l, a, k, n, m, c) ==
    /\ Coming(l, c) => n + 1 <= k.count
    /\ Coming(l, c) /\ l # "serve" => k.records + 1 <= k.count
    /\ l = "serve" /\ ~a.own => m + 1 <= k.records

\* What no overlap has disturbed.
Orderly ==
    /\ db = durable
    /\ \A t, v \in Workers : ~Idle(t) /\ ~Idle(v) => t = v
    /\ Balanced(db.link, served, told)
    /\ \A t \in Workers : Ahead(pc[t], arg[t], db.link, served, told, chg)

Inv ==
    /\ db \in Tables /\ durable \in Tables /\ WithinLimit(db) /\ WithinLimit(durable)
    /\ pc = [t \in Workers |-> pc[t]] /\ arg = [t \in Workers |-> arg[t]]
    /\ owner \in Workers \union {NoOwner} /\ chg \in BOOLEAN
    /\ \A t \in Workers : pc[t] = "elsewhere" <=> owner = t
    /\ served \in Nat /\ told \in Nat
    /\ ~crossed => Orderly

LEMMA IdleIsAhead ==
    ASSUME NEW a, NEW k, NEW n, NEW m, NEW c PROVE Ahead("idle", a, k, n, m, c)
BY DEF Ahead, Coming

LEMMA InitInv == DownloadInit => Inv
<1> SUFFICES ASSUME DownloadInit PROVE Inv
  OBVIOUS
<1>1. PICK d \in DownloadTables : HandlersInit(d)
  BY DEF DownloadInit
<1>2. /\ db = d /\ durable = d /\ owner = NoOwner /\ chg = FALSE
      /\ pc = [t \in Workers |-> "idle"] /\ arg = [t \in Workers |-> NoArg]
      /\ served = 0 /\ told = 0
  BY <1>1 DEF HandlersInit, DownloadInit, DownloadHistory
<1>3. d \in Tables /\ d.link.count = 0 /\ d.link.records = 0 /\ d.link.max \in Limit \union {NoLimit}
  <2>1. /\ d = [link |-> d.link]
        /\ d.link \in [live : {TRUE}, public : BOOLEAN, protected : BOOLEAN,
                       max : Limit \union {NoLimit}, count : {0}, records : {0}]
    BY <1>1 DEF DownloadTables
  <2>2. {TRUE} \subseteq BOOLEAN /\ {0} \subseteq Nat
    OBVIOUS
  <2>3. [live : {TRUE}, public : BOOLEAN, protected : BOOLEAN,
         max : Limit \union {NoLimit}, count : {0}, records : {0}] \subseteq LinkRow
    BY <2>2, Zenon DEF LinkRow
  <2>4. d.link \in LinkRow /\ d.link.count = 0 /\ d.link.records = 0
        /\ d.link.max \in Limit \union {NoLimit}
    BY <2>1, <2>3
  <2> QED
    BY <2>1, <2>4 DEF Tables
<1>4. WithinLimit(d)
  BY <1>3, DownloadBounds DEF WithinLimit
<1>5. Balanced(d.link, 0, 0)
  BY <1>3 DEF Balanced
<1> QED
  BY <1>2, <1>3, <1>4, <1>5, IdleIsAhead, WorkersApart DEF Inv, Orderly, Idle, At

-----------------------------------------------------------------------------
(* What has to be shown of a step of t *)

LEMMA GotoIsEnter == ASSUME Inv, NEW t \in Workers, NEW l, Goto(t, l) PROVE Enter(t, l, arg[t])
BY DEF Inv, Goto, Enter

\* Nothing has come between: t found the tables as it may rely on them.
LEMMA Undisturbed ==
    ASSUME Inv, NEW t \in Workers, Cross(t), ~crossed'
    PROVE  /\ \A v \in Workers \ {t} : Idle(v)
           /\ db = durable /\ Balanced(db.link, served, told)
           /\ Ahead(pc[t], arg[t], db.link, served, told, chg)
           /\ owner = IF pc[t] = "elsewhere" THEN t ELSE NoOwner
BY DEF Inv, Orderly, Cross, Idle, At

LEMMA StepInv ==
    ASSUME Inv, NEW t \in Workers, NEW l, NEW a, Enter(t, l, a), Cross(t),
           db' \in Tables, durable' \in Tables, WithinLimit(db)', WithinLimit(durable)',
           chg' \in BOOLEAN, served' \in Nat, told' \in Nat,
           owner' = IF l = "elsewhere" THEN t ELSE IF owner = t THEN NoOwner ELSE owner,
           l = "elsewhere" => owner = NoOwner,
           ~crossed' => /\ db' = durable' /\ Balanced(db'.link, served', told')
                        /\ Ahead(l, a, db'.link, served', told', chg')
    PROVE  Inv'
<1>1. /\ pc' = [v \in Workers |-> pc'[v]] /\ arg' = [v \in Workers |-> arg'[v]]
      /\ pc'[t] = l /\ arg'[t] = a /\ \A v \in Workers \ {t} : pc'[v] = pc[v] /\ arg'[v] = arg[v]
  BY DEF Inv, Enter
<1>2. owner' \in Workers \union {NoOwner} /\ \A v \in Workers : pc'[v] = "elsewhere" <=> owner' = v
  BY <1>1, WorkersApart DEF Inv
<1>3. ASSUME ~crossed' PROVE Orderly'
  <2>1. \A v \in Workers \ {t} : pc'[v] = "idle"
    BY <1>1, <1>3, Undisturbed DEF Idle, At
  <2> QED
    BY <1>1, <1>3, <2>1, IdleIsAhead DEF Orderly, Idle, At
<1> QED
  BY <1>1, <1>2, <1>3 DEF Inv

\* A step that leaves the row as it is.
LEMMA QuietInv ==
    ASSUME Inv, NEW t \in Workers, NEW l, NEW a, Enter(t, l, a), Cross(t), Query,
           served' \in Nat, told' \in Nat, pc[t] # "elsewhere", l # "elsewhere",
           ~crossed' => Balanced(db.link, served', told') /\ Ahead(l, a, db.link, served', told', chg)
    PROVE  Inv'
<1>1. db' = db /\ durable' = durable /\ owner' = owner /\ chg' = chg /\ owner # t
  BY DEF Query, conn, Inv
<1>2. db \in Tables /\ durable \in Tables /\ WithinLimit(db) /\ WithinLimit(durable) /\ chg \in BOOLEAN
  BY DEF Inv
<1>3. WithinLimit(db)' /\ WithinLimit(durable)'
  BY <1>1, <1>2 DEF WithinLimit
<1> QED
  BY <1>1, <1>2, <1>3, Undisturbed, StepInv

\* A write statement that makes the tables d.
LEMMA WriteInv ==
    ASSUME Inv, NEW t \in Workers, NEW l, Enter(t, l, arg[t]), Cross(t), Quietly,
           NEW d \in Tables, WithinLimit(d), NEW touched \in BOOLEAN, Execute(d, touched),
           pc[t] # "elsewhere", l # "elsewhere",
           ~crossed' => Balanced(d.link, served, told) /\ Ahead(l, arg[t], d.link, served, told, touched)
    PROVE  Inv'
<1>1. /\ db' = d /\ durable' = (IF owner = NoOwner THEN d ELSE durable) /\ owner' = owner
      /\ chg' = touched /\ owner # t /\ served' = served /\ told' = told
  BY DEF Execute, Quietly, Inv
<1>2. durable \in Tables /\ WithinLimit(durable) /\ served \in Nat /\ told \in Nat
  BY DEF Inv
<1>3. durable' \in Tables /\ WithinLimit(db)' /\ WithinLimit(durable)'
  BY <1>1, <1>2 DEF WithinLimit
<1> QED
  BY <1>1, <1>2, <1>3, Undisturbed, StepInv

-----------------------------------------------------------------------------
(* What the statements make of the row *)

LEMMA CountedRow ==
    ASSUME NEW d \in Tables
    PROVE  LET e == [d EXCEPT !.link.count = @ + 1] IN
           /\ e \in Tables /\ e.link.count = d.link.count + 1
           /\ e.link.max = d.link.max /\ e.link.records = d.link.records
BY DEF Tables, LinkRow

LEMMA RecordedRow ==
    ASSUME NEW d \in Tables
    PROVE  LET e == [d EXCEPT !.link.records = @ + 1] IN
           /\ e \in Tables /\ e.link.count = d.link.count
           /\ e.link.max = d.link.max /\ e.link.records = d.link.records + 1
BY DEF Tables, LinkRow

\* Removed, or made public or private.
LEMMA ChangedRow ==
    ASSUME NEW d \in Tables, NEW e, e \in {[d EXCEPT !.link.live = FALSE], [d EXCEPT !.link.public = ~@]}
    PROVE  /\ e \in Tables /\ e.link.count = d.link.count
           /\ e.link.max = d.link.max /\ e.link.records = d.link.records
<1>1. /\ d = [link |-> d.link] /\ d.link \in LinkRow
      /\ (~d.link.public) \in BOOLEAN
  BY DEF Tables
<1>2. \/ e = [link |-> [d.link EXCEPT !.live = FALSE]]
      \/ e = [link |-> [d.link EXCEPT !.public = ~d.link.public]]
  BY DEF Tables
<1>3. \A b \in BOOLEAN :
         /\ [d.link EXCEPT !.live = b] \in LinkRow
         /\ [d.link EXCEPT !.public = b] \in LinkRow
  BY <1>1 DEF LinkRow
<1>4. \A b \in BOOLEAN : \A k \in {[d.link EXCEPT !.live = b], [d.link EXCEPT !.public = b]} :
         k.count = d.link.count /\ k.max = d.link.max /\ k.records = d.link.records
  BY <1>1 DEF LinkRow
<1> QED
  BY <1>1, <1>2, <1>3, <1>4 DEF Tables

LEMMA CountFits ==
    ASSUME NEW d \in Tables, WithinLimit(d), ~UsedUp(d.link)
    PROVE  WithinLimit([d EXCEPT !.link.count = @ + 1])
<1> DEFINE e == [d EXCEPT !.link.count = @ + 1]
<1>1. /\ d.link.count \in Nat
      /\ d.link.max # NoLimit => d.link.max \in Nat
  BY DownloadBounds DEF Tables, LinkRow
<1>2. e.link.count = d.link.count + 1 /\ e.link.max = d.link.max
  BY CountedRow
<1> HIDE DEF e
<1>3. WithinLimit(e)
  BY <1>1, <1>2 DEF WithinLimit, UsedUp
<1> QED
  BY <1>3 DEF e

LEMMA RowNumbers == Inv => /\ db.link.count \in Nat /\ db.link.records \in Nat
                           /\ served \in Nat /\ told \in Nat
BY DEF Inv, Tables, LinkRow

-----------------------------------------------------------------------------
(* The actions *)

LEMMA RequestInv ==
    ASSUME Inv, NEW t \in Workers, NEW d \in Tables, NEW touched \in BOOLEAN,
           Request(t, d, touched), Cross(t), Quietly,
           d.link.count = db.link.count, d.link.max = db.link.max, d.link.records = db.link.records
    PROVE  Inv'
<1>1. pc[t] = "idle" /\ Execute(d, touched) /\ pc' = pc /\ arg' = arg
  BY DEF Request, Idle, At
<1>2. Enter(t, "idle", arg[t])
  BY <1>1 DEF Enter, Inv
<1>3. WithinLimit(d)
  BY DEF Inv, WithinLimit
<1>4. ~crossed' => Balanced(d.link, served, told)
  BY Undisturbed DEF Balanced
<1> QED
  BY <1>1, <1>2, <1>3, <1>4, IdleIsAhead, WriteInv

LEMMA AskInv == ASSUME Inv, NEW t \in Workers, Ask(t) PROVE Inv'
<1>1. PICK viewer \in Viewer : Load(t, "count", [own |-> viewer = "owner"]) /\ Cross(t) /\ Quietly
  BY DEF Ask
<1>2. /\ pc[t] = "idle" /\ Query /\ Enter(t, "count", [own |-> viewer = "owner"])
      /\ served' = served /\ told' = told /\ served \in Nat /\ told \in Nat
  BY <1>1 DEF Load, Quietly, Inv, Idle, At
<1>3. \A a, k, c : Ahead("count", a, k, served, told, c)
  BY DEF Ahead, Coming
<1> QED
  BY <1>1, <1>2, <1>3, Undisturbed, QuietInv

LEMMA CountInv == ASSUME Inv, NEW t \in Workers, Count(t) PROVE Inv'
<1>0. pc[t] = "count" /\ Cross(t) /\ Quietly
  BY DEF Count, Statement, At
<1>1. CASE UsedUp(db.link)
  <2>1. Execute(db, FALSE) /\ Enter(t, "counted", arg[t])
    BY <1>1, GotoIsEnter DEF Count, Statement
  <2>2. ASSUME ~crossed'
        PROVE  Balanced(db.link, served, told) /\ Ahead("counted", arg[t], db.link, served, told, FALSE)
    BY <1>0, <2>2, Undisturbed DEF Ahead, Coming
  <2>3. db \in Tables /\ WithinLimit(db)
    BY DEF Inv
  <2> QED
    BY <1>0, <2>1, <2>2, <2>3, WriteInv
<1>2. CASE ~UsedUp(db.link)
  <2> DEFINE d == [db EXCEPT !.link.count = @ + 1]
  <2>1. Execute(d, TRUE) /\ Enter(t, "counted", arg[t])
    BY <1>2, GotoIsEnter DEF Count, Statement
  <2>2. /\ d \in Tables /\ d.link.count = db.link.count + 1 /\ d.link.records = db.link.records
        /\ WithinLimit(d)
    BY <1>2, CountedRow, CountFits DEF Inv
  <2> HIDE DEF d
  <2>3. ASSUME ~crossed'
        PROVE  Balanced(d.link, served, told) /\ Ahead("counted", arg[t], d.link, served, told, TRUE)
    BY <1>0, <2>2, <2>3, Undisturbed, RowNumbers DEF Balanced, Ahead, Coming
  <2> QED
    BY <1>0, <2>1, <2>2, <2>3, WriteInv
<1> QED
  BY <1>1, <1>2

LEMMA CountedInv == ASSUME Inv, NEW t \in Workers, Counted410(t) \/ CountedOk(t) PROVE Inv'
<1>0. /\ pc[t] = "counted" /\ Query /\ Cross(t)
      /\ served' = served /\ told' = told /\ served \in Nat /\ told \in Nat
  BY DEF Counted410, CountedOk, At, Quietly, Inv
<1>1. CASE Counted410(t)
  BY <1>0, <1>1, IdleIsAhead, Undisturbed, QuietInv DEF Counted410, Return
<1>2. CASE CountedOk(t)
  <2>1. Enter(t, "log", arg[t]) /\ chg
    BY <1>2, GotoIsEnter DEF CountedOk
  <2>2. ASSUME ~crossed' PROVE Ahead("log", arg[t], db.link, served, told, chg)
    BY <1>0, <2>1, <2>2, Undisturbed DEF Ahead, Coming
  <2> QED
    BY <1>0, <2>1, <2>2, Undisturbed, QuietInv
<1> QED
  BY <1>1, <1>2

LEMMA LogInv == ASSUME Inv, NEW t \in Workers, LogDownload(t) PROVE Inv'
<1>1. pc[t] = "log" /\ Execute(db, TRUE) /\ Enter(t, "record", arg[t]) /\ Cross(t) /\ Quietly
  BY GotoIsEnter DEF LogDownload, Statement, At
<1>2. db \in Tables /\ WithinLimit(db)
  BY DEF Inv
<1>3. ASSUME ~crossed'
      PROVE  Balanced(db.link, served, told) /\ Ahead("record", arg[t], db.link, served, told, TRUE)
  BY <1>1, <1>3, Undisturbed DEF Ahead, Coming
<1> QED
  BY <1>1, <1>2, <1>3, WriteInv

LEMMA RecordInv == ASSUME Inv, NEW t \in Workers, RecordDownload(t) PROVE Inv'
<1>0. /\ pc[t] = "record" /\ Cross(t) /\ Quietly
      /\ served' = served /\ told' = told /\ served \in Nat /\ told \in Nat
  BY DEF RecordDownload, At, Quietly, Inv
<1>1. CASE arg[t].own
  <2>1. Query /\ Enter(t, "serve", arg[t])
    BY <1>1, GotoIsEnter DEF RecordDownload
  <2>2. ASSUME ~crossed' PROVE Ahead("serve", arg[t], db.link, served, told, chg)
    BY <1>0, <1>1, <2>2, Undisturbed DEF Ahead, Coming
  <2> QED
    BY <1>0, <2>1, <2>2, Undisturbed, QuietInv
<1>2. CASE ~arg[t].own
  <2> DEFINE d == [db EXCEPT !.link.records = @ + 1]
  <2>1. Execute(d, TRUE) /\ Enter(t, "serve", arg[t])
    BY <1>2, GotoIsEnter DEF RecordDownload, Statement
  <2>2. /\ d \in Tables /\ d.link.count = db.link.count /\ d.link.max = db.link.max
        /\ d.link.records = db.link.records + 1
    BY RecordedRow DEF Inv
  <2> HIDE DEF d
  <2>3. WithinLimit(d)
    BY <2>2 DEF Inv, WithinLimit
  <2>4. ASSUME ~crossed'
        PROVE  Balanced(d.link, served, told) /\ Ahead("serve", arg[t], d.link, served, told, TRUE)
    BY <1>0, <2>2, <2>4, Undisturbed, RowNumbers DEF Balanced, Ahead, Coming
  <2> QED
    BY <1>0, <2>1, <2>2, <2>3, <2>4, WriteInv
<1> QED
  BY <1>1, <1>2

LEMMA ServeInv == ASSUME Inv, NEW t \in Workers, Serve(t) PROVE Inv'
<1>1. /\ pc[t] = "serve" /\ Query /\ Enter(t, "idle", NoArg) /\ Cross(t)
      /\ served' = served + 1 /\ told' = told + IF arg[t].own THEN 0 ELSE 1
  BY DEF Serve, At, Return
<1>2. served' \in Nat /\ told' \in Nat
  BY <1>1, RowNumbers
<1>3. ASSUME ~crossed' PROVE Balanced(db.link, served', told')
  BY <1>1, <1>3, Undisturbed, RowNumbers DEF Balanced, Ahead, Coming
<1> QED
  BY <1>1, <1>2, <1>3, IdleIsAhead, QuietInv

\* The owner's request, or any other handler's single statement.
LEMMA OtherRequestInv ==
    ASSUME Inv, NEW t \in Workers,
           \/ Revoke(t) \/ Publish(t)
           \/ (\E touched \in BOOLEAN : Request(t, db, touched)) /\ Cross(t) /\ Quietly
    PROVE  Inv'
<1>0. db \in Tables
  BY DEF Inv
<1>1. CASE Revoke(t)
  BY <1>0, <1>1, ChangedRow, RequestInv DEF Revoke
<1>2. CASE Publish(t)
  BY <1>0, <1>2, ChangedRow, RequestInv DEF Publish
<1>3. CASE (\E touched \in BOOLEAN : Request(t, db, touched)) /\ Cross(t) /\ Quietly
  BY <1>0, <1>3, RequestInv
<1> QED
  BY <1>1, <1>2, <1>3

LEMMA ElsewhereInv == ASSUME Inv, NEW t \in Workers, Elsewhere(t) PROVE Inv'
<1>0. /\ Cross(t) /\ served' = served /\ told' = told /\ served \in Nat /\ told \in Nat
      /\ db \in Tables /\ durable \in Tables /\ WithinLimit(db) /\ WithinLimit(durable)
      /\ chg \in BOOLEAN
  BY DEF Elsewhere, Quietly, Inv
<1>1. CASE \E touched \in BOOLEAN : Request(t, db, touched)
  BY <1>0, <1>1, OtherRequestInv DEF Elsewhere
<1>2. CASE Idle(t) /\ Begin(t) /\ Enter(t, "elsewhere", NoArg)
  <2>1. db' = db /\ durable' = durable /\ chg' = chg /\ owner' = t /\ owner = NoOwner
    BY <1>2 DEF Begin
  <2>2. WithinLimit(db)' /\ WithinLimit(durable)'
    BY <1>0, <2>1 DEF WithinLimit
  <2>3. Ahead("elsewhere", NoArg, db.link, served, told, chg)
    BY DEF Ahead, Coming
  <2> QED
    BY <1>0, <1>2, <2>1, <2>2, <2>3, Undisturbed, StepInv
<1>3. CASE CommitAt(t, "elsewhere") \/ Throw(t, "elsewhere")
  <2>1. /\ owner = t /\ owner' = NoOwner /\ Enter(t, "idle", NoArg) /\ chg' = chg
        /\ \/ db' = db /\ durable' = db
           \/ db' = durable /\ durable' = durable
    BY <1>3 DEF CommitAt, Throw, Commit, Rollback, Return
  <2>2. WithinLimit(db)' /\ WithinLimit(durable)'
    BY <1>0, <2>1 DEF WithinLimit
  <2>3. db' \in Tables /\ durable' \in Tables
    BY <1>0, <2>1
  <2> QED
    BY <1>0, <2>1, <2>2, <2>3, IdleIsAhead, Undisturbed, StepInv
<1> QED
  BY <1>1, <1>2, <1>3 DEF Elsewhere

LEMMA RestartInv == ASSUME Inv, DownloadRestart PROVE Inv'
<1>1. /\ db' = durable /\ durable' = durable /\ owner' = NoOwner /\ chg' = FALSE
      /\ pc' = [t \in Workers |-> "idle"] /\ arg' = [t \in Workers |-> NoArg]
      /\ served' = served /\ told' = told /\ crossed' = crossed
  BY DEF DownloadRestart, Restart, Reopen, Quietly
<1>2. WithinLimit(db)' /\ WithinLimit(durable)'
  BY <1>1 DEF Inv, WithinLimit
<1>3. ~crossed => Balanced(durable.link, served, told)
  BY DEF Inv, Orderly
<1> QED
  BY <1>1, <1>2, <1>3, IdleIsAhead, WorkersApart DEF Inv, Orderly, Idle, At

LEMMA NextInv == Inv /\ [DownloadNext]_downloads => Inv'
<1> SUFFICES ASSUME Inv, [DownloadNext]_downloads PROVE Inv'
  OBVIOUS
<1>1. CASE UNCHANGED downloads
  BY <1>1 DEF downloads, server, conn, Inv, Orderly, WithinLimit, Idle, At
<1>2. CASE DownloadRestart
  BY <1>2, RestartInv
<1>3. ASSUME NEW t \in Workers, DownloadStep(t) PROVE Inv'
  BY <1>3, AskInv, CountInv, CountedInv, LogInv, RecordInv, ServeInv, OtherRequestInv,
     ElsewhereInv DEF DownloadStep
<1> QED
  BY <1>1, <1>2, <1>3 DEF DownloadNext

-----------------------------------------------------------------------------
THEOREM Invariant == DownloadSpec => []Inv
BY InitInv, NextInv, PTL DEF DownloadSpec

\* download_count never passes max_downloads, in the tables or in what a restart
\* finds, whatever runs beside the handler that counts.
THEOREM LimitKept == DownloadSpec => []CountWithinLimit
<1>1. Inv => CountWithinLimit
  BY DEF Inv, CountWithinLimit, WithinLimit
<1> QED
  BY <1>1, Invariant, PTL

\* Unless handlers overlapped, every download that was answered was counted, and
\* the owner hears of exactly those that are not the owner's.
THEOREM AnsweredIsCounted == DownloadSpec => []ServedIsCounted
<1>1. Inv => ServedIsCounted
  BY DEF Inv, Orderly, Balanced, ServedIsCounted
<1> QED
  BY <1>1, Invariant, PTL

-----------------------------------------------------------------------------
(* Ranges *)

\* What RangeExact says of one header and a file of size n.
Exact(h, n) ==
    LET r == parseRange(h, n)
        bytes == Asked(h, n) IN
    /\ Counts(r) <=> r.result = "None" \/ 0 \in bytes
    /\ CASE r.result = "Ok"            -> r.length > 0 /\ r.offset..(r.offset + r.length - 1) = bytes
         [] r.result = "Unsatisfiable" -> bytes = {}
         [] r.result = "None"          -> h = NoHeader \/ (h.first = Absent /\ n = 0)

LEMMA HeaderParts ==
    ASSUME NEW h \in Header
    PROVE  /\ h.first \in Int /\ h.last \in Int /\ h.first >= -1 /\ h.last >= -1
           /\ (h.first = Absent /\ h.last = Absent => h = NoHeader)
BY DownloadBounds DEF Header, Absent, NoHeader

LEMMA BytesExact ==
    ASSUME NEW h \in Header, NEW n \in Nat, NEW at \in Nat, NEW k \in Nat, k > 0,
           parseRange(h, n) = Bytes(at, k), Asked(h, n) = at..(at + k - 1)
    PROVE  Exact(h, n)
<1>1. 0 \in at..(at + k - 1) <=> at = 0
  OBVIOUS
<1> QED
  BY <1>1 DEF Exact, Bytes, Counts

LEMMA NothingExact ==
    ASSUME NEW h \in Header, NEW n \in Nat, parseRange(h, n) = Unsatisfiable, Asked(h, n) = {}
    PROVE  Exact(h, n)
BY DEF Exact, Unsatisfiable, Counts

LEMMA SuffixExact == ASSUME NEW h \in Header, NEW n \in Nat, h.first = Absent PROVE Exact(h, n)
<1>1. /\ h.last \in Int /\ h.last >= -1 /\ (h.last = Absent => h = NoHeader)
      /\ parseRange(h, n) = Suffix(h.last, n) /\ Asked(h, n) = {i \in 0..n - 1 : i >= n - h.last}
  BY HeaderParts DEF parseRange, Asked
<1>2. CASE h.last = Absent \/ n = 0
  <2>1. parseRange(h, n) = Whole /\ (h = NoHeader \/ n = 0)
    BY <1>1, <1>2 DEF Suffix
  <2> QED
    BY <2>1 DEF Exact, Whole, Counts
<1>3. CASE h.last = 0 /\ n # 0
  BY <1>1, <1>3, NothingExact DEF Suffix, Absent
<1>4. CASE h.last > 0 /\ n # 0
  <2> DEFINE k == Smaller(h.last, n)
  <2>1. k \in Nat /\ k > 0 /\ k <= n /\ n - k \in Nat /\ \A i \in 0..n - 1 : i >= n - h.last <=> i >= n - k
    BY <1>1, <1>4 DEF Smaller
  <2>2. parseRange(h, n) = Bytes(n - k, k)
    BY <1>1, <1>4 DEF Suffix, Absent
  <2> HIDE DEF k
  <2>3. Asked(h, n) = (n - k)..(n - k + k - 1)
    BY <1>1, <2>1
  <2> QED
    BY <2>1, <2>2, <2>3, BytesExact
<1> QED
  BY <1>1, <1>2, <1>3, <1>4 DEF Absent

LEMMA StretchExact == ASSUME NEW h \in Header, NEW n \in Nat, h.first # Absent PROVE Exact(h, n)
<1> DEFINE first == h.first
           last == h.last
           end == IF last = Absent THEN n - 1 ELSE Smaller(last, n - 1)
<1>1. /\ first \in Nat /\ last \in Int /\ (last # Absent => last \in Nat)
      /\ parseRange(h, n) = Stretch(first, last, n)
      /\ Asked(h, n) = {i \in 0..n - 1 : i >= first /\ (last # Absent => i <= last)}
  BY HeaderParts DEF parseRange, Asked, Absent
<1>2. end \in Int /\ end <= n - 1 /\ \A i \in 0..n - 1 : (last # Absent => i <= last) <=> i <= end
  BY <1>1 DEF Smaller
<1>3. Stretch(first, last, n) = IF first >= n \/ end < first THEN Unsatisfiable
                                ELSE Bytes(first, end - first + 1)
  BY DEF Stretch
<1> HIDE DEF first, last, end
<1>4. CASE first >= n \/ end < first
  <2>1. Asked(h, n) = {}
    BY <1>1, <1>2, <1>4
  <2> QED
    BY <1>1, <1>3, <1>4, <2>1, NothingExact
<1>5. CASE first < n /\ first <= end
  <2>1. end - first + 1 \in Nat /\ end - first + 1 > 0
    BY <1>1, <1>2, <1>5
  <2>2. Asked(h, n) = first..(first + (end - first + 1) - 1)
    BY <1>1, <1>2, <1>5
  <2>3. parseRange(h, n) = Bytes(first, end - first + 1)
    BY <1>1, <1>2, <1>3, <1>5
  <2> QED
    BY <1>1, <2>1, <2>2, <2>3, BytesExact
<1> QED
  BY <1>1, <1>2, <1>4, <1>5

LEMMA SizeInv == DownloadSpec => [](fileSize \in Nat)
<1>1. DownloadInit => fileSize \in Nat
  BY DownloadBounds DEF DownloadInit, DownloadHistory
<1>2. DownloadNext => UNCHANGED fileSize
  BY DEF DownloadNext, DownloadRestart, DownloadStep, Ask, Count, Counted410, CountedOk, LogDownload,
         RecordDownload, Serve, Revoke, Publish, Elsewhere, Quietly
<1>3. fileSize \in Nat /\ [DownloadNext]_downloads => (fileSize \in Nat)'
  BY <1>2 DEF downloads
<1> QED
  BY <1>1, <1>3, PTL DEF DownloadSpec

\* Whatever the size of the file and the numbers of a Range header, a reply of
\* part of it is the bytes asked for, a 416 asks for none, and exactly the
\* replies that give out the first byte count as downloads.
THEOREM RangesAreExact == DownloadSpec => []RangeExact
<1>1. fileSize \in Nat => RangeExact
  <2> SUFFICES ASSUME fileSize \in Nat, NEW h \in Header PROVE Exact(h, fileSize)
    BY DEF RangeExact, Exact
  <2> QED
    BY SuffixExact, StretchExact
<1> QED
  BY <1>1, SizeInv, PTL

-----------------------------------------------------------------------------
(* Archives: sums along a sequence *)

\* Induction, stated of a set: no theorem with an operator for its parameter is
\* needed to use it.
LEMMA SetInduction ==
    ASSUME NEW S, 0 \in S, \A n \in Nat : n \in S => n + 1 \in S
    PROVE  Nat \subseteq S
<1> DEFINE R == OpToRel(<, Nat)
           T == Nat \ S
<1>1. \A x, y \in Nat : <<x, y>> \in R <=> x < y
  BY DEF OpToRel
<1> SUFFICES ASSUME T # {} PROVE FALSE
  OBVIOUS
<1>2. IsWellFoundedOn(R, Nat)
  BY NatLessThanWellFounded
<1> HIDE DEF R
<1>3. PICK x \in T : \A y \in T : ~(<<y, x>> \in R)
  <2>1. T \subseteq Nat
    OBVIOUS
  <2> HIDE DEF T
  <2> QED
    BY <1>2, <2>1, WFMin
<1>4. x \in Nat /\ x \notin S /\ x # 0 /\ x - 1 \in Nat
  BY <1>3
<1>5. x - 1 \in T
  BY <1>3, <1>4
<1>6. <<x - 1, x>> \in R
  BY <1>1, <1>4
<1> QED
  BY <1>3, <1>5, <1>6

Adds(g, s, m) == g[0] = 0 /\ \A i \in 1..m : g[i] = g[i - 1] + s[i]

\* The running sum of natural numbers exists.
LEMMA RunningSum ==
    ASSUME NEW m \in Nat, NEW s, \A i \in 1..m : s[i] \in Nat
    PROVE  \E g \in [0..m -> Nat] : Adds(g, s, m)
<1> DEFINE S == {k \in Nat : k <= m => \E g \in [0..k -> Nat] : Adds(g, s, k)}
<1>1. 0 \in S
  <2>1. [i \in 0..0 |-> 0] \in [0..0 -> Nat] /\ Adds([i \in 0..0 |-> 0], s, 0)
    BY DEF Adds
  <2> QED
    BY <2>1
<1>2. ASSUME NEW k \in Nat, k \in S PROVE k + 1 \in S
  <2> SUFFICES ASSUME k + 1 <= m PROVE \E g \in [0..k + 1 -> Nat] : Adds(g, s, k + 1)
    OBVIOUS
  <2>1. PICK g \in [0..k -> Nat] : Adds(g, s, k)
    BY <1>2
  <2>2. PICK h : h = [i \in 0..k + 1 |-> IF i = k + 1 THEN g[k] + s[k + 1] ELSE g[i]]
    OBVIOUS
  <2>3. h \in [0..k + 1 -> Nat]
    BY <2>1, <2>2
  <2>4. h[0] = 0 /\ h[k + 1] = h[k] + s[k + 1]
    BY <2>1, <2>2 DEF Adds
  <2>5. ASSUME NEW i \in 1..k PROVE h[i] = h[i - 1] + s[i]
    BY <2>1, <2>2, <2>5 DEF Adds
  <2>6. ASSUME NEW i \in 1..k + 1 PROVE h[i] = h[i - 1] + s[i]
    <3>1. i \in 1..k \/ (i = k + 1 /\ i - 1 = k)
      OBVIOUS
    <3> QED
      BY <2>4, <2>5, <3>1
  <2>7. Adds(h, s, k + 1)
    BY <2>4, <2>6 DEF Adds
  <2> QED
    BY <2>3, <2>7
<1> HIDE DEF S
<1>3. m \in S
  BY <1>1, <1>2, SetInduction
<1> QED
  BY <1>3 DEF S

\* What starts at 0 and rises at every step is at no place more than at the end.
LEMMA Rises ==
    ASSUME NEW m \in Nat, NEW g, g[0] = 0,
           \A i \in 1..m : g[i - 1] \in Nat => g[i] \in Nat /\ g[i - 1] <= g[i]
    PROVE  \A i \in 0..m : g[i] \in Nat /\ g[i] <= g[m]
<1> DEFINE S == {k \in Nat : k <= m => \A i \in 0..k : g[i] \in Nat /\ g[i] <= g[k]}
<1>1. 0 \in S
  OBVIOUS
<1>2. ASSUME NEW k \in Nat, k \in S PROVE k + 1 \in S
  <2> SUFFICES ASSUME k + 1 <= m PROVE \A i \in 0..k + 1 : g[i] \in Nat /\ g[i] <= g[k + 1]
    OBVIOUS
  <2>1. \A i \in 0..k : g[i] \in Nat /\ g[i] <= g[k]
    BY <1>2
  <2>2. k + 1 \in 1..m /\ k + 1 - 1 = k /\ g[k] \in Nat
    BY <2>1
  <2>3. g[k + 1] \in Nat /\ g[k] <= g[k + 1]
    BY <2>2
  <2>4. \A i \in 0..k + 1 : i \in 0..k \/ i = k + 1
    OBVIOUS
  <2>5. \A i \in 0..k : g[i] <= g[k + 1]
    BY <2>1, <2>2, <2>3
  <2> QED
    BY <2>1, <2>3, <2>4, <2>5
<1> HIDE DEF S
<1>3. m \in S
  BY <1>1, <1>2, SetInduction
<1> QED
  BY <1>3 DEF S

\* Two sums of the same numbers are the same.
LEMMA SumsAgree ==
    ASSUME NEW m \in Nat, NEW g, NEW h, g[0] = h[0],
           \A i \in 1..m : g[i - 1] = h[i - 1] => g[i] = h[i]
    PROVE  g[m] = h[m]
<1> DEFINE S == {k \in Nat : k <= m => g[k] = h[k]}
<1>1. 0 \in S
  OBVIOUS
<1>2. ASSUME NEW k \in Nat, k \in S PROVE k + 1 \in S
  <2>1. k + 1 - 1 = k /\ (k + 1 <= m => k + 1 \in 1..m)
    OBVIOUS
  <2> QED
    BY <1>2, <2>1
<1> HIDE DEF S
<1>3. m \in S
  BY <1>1, <1>2, SetInduction
<1> QED
  BY <1>3 DEF S

-----------------------------------------------------------------------------
(* The constructor's arithmetic *)

Listed == entries \in Seq(Size)
HeaderLen(i) == 30 + NameLen + LocalExtraLen(entries[i])

LEMMA Lengths ==
    ASSUME Listed
    PROVE  /\ Len(entries) \in Nat
           /\ \A i \in 1..Len(entries) :
                /\ entries[i] \in Size /\ entries[i] \in Nat /\ entries[i] # Max32
                /\ HeaderLen(i) \in Nat /\ HeaderLen(i) > 0
<1>1. NameLen \in Nat /\ Max32 \in Nat
  BY ZipBounds
<1>2. Len(entries) \in Nat /\ \A i \in 1..Len(entries) : entries[i] \in Size
  BY DEF Listed
<1>3. \A n \in Size : n \in Nat /\ n # Max32 /\ LocalExtraLen(n) \in {0, 20}
  BY ZipBounds DEF LocalExtraLen
<1> QED
  BY <1>1, <1>2, <1>3 DEF HeaderLen

\* The recursion of offsets_ has a solution, so that Offsets is one.
LEMMA OffsetsSolve ==
    ASSUME Listed
    PROVE  Offsets = [i \in 1..Len(entries) + 1 |->
               IF i = 1 THEN 0
               ELSE Offsets[i - 1] + 30 + NameLen + LocalExtraLen(entries[i - 1]) + entries[i - 1]]
<1> DEFINE n == Len(entries)
           s == [i \in 1..n |-> HeaderLen(i) + entries[i]]
<1>1. n \in Nat /\ \A i \in 1..n : s[i] \in Nat
  BY Lengths
<1>2. PICK g \in [0..n -> Nat] : Adds(g, s, n)
  <2> HIDE DEF n, s
  <2> QED
    BY <1>1, RunningSum
<1>3. PICK f : f = [i \in 1..n + 1 |-> g[i - 1]]
  OBVIOUS
<1>4. ASSUME NEW i \in 1..n + 1, i # 1
      PROVE  f[i] = f[i - 1] + 30 + NameLen + LocalExtraLen(entries[i - 1]) + entries[i - 1]
  <2>1. i - 1 \in 1..n /\ i - 1 - 1 \in 0..n /\ i - 1 \in 1..n + 1
    BY <1>1, <1>4
  <2>2. f[i] = g[i - 1] /\ f[i - 1] = g[i - 1 - 1] /\ g[i - 1 - 1] \in Nat
    BY <1>2, <1>3, <2>1
  <2>3. g[i - 1] = g[i - 1 - 1] + (HeaderLen(i - 1) + entries[i - 1])
    BY <1>2, <2>1 DEF Adds
  <2>4. LocalExtraLen(entries[i - 1]) \in Nat /\ entries[i - 1] \in Nat /\ NameLen \in Nat
    BY <2>1, Lengths, ZipBounds DEF LocalExtraLen
  <2>5. PICK a \in Nat, l \in Nat, e \in Nat :
          a = g[i - 1 - 1] /\ l = LocalExtraLen(entries[i - 1]) /\ e = entries[i - 1]
    BY <2>2, <2>4
  <2>6. f[i] = a + (30 + NameLen + l + e) /\ f[i - 1] = a
    BY <2>2, <2>3, <2>5 DEF HeaderLen
  <2>7. a + (30 + NameLen + l + e) = a + 30 + NameLen + l + e
    BY <2>4
  <2> QED
    BY <2>5, <2>6, <2>7
<1>5. f[1] = 0
  BY <1>1, <1>2, <1>3 DEF Adds
<1>6. f = [i \in 1..Len(entries) + 1 |->
               IF i = 1 THEN 0
               ELSE f[i - 1] + 30 + NameLen + LocalExtraLen(entries[i - 1]) + entries[i - 1]]
  BY <1>3, <1>4, <1>5
<1>7. \E k : k = [i \in 1..Len(entries) + 1 |->
               IF i = 1 THEN 0
               ELSE k[i - 1] + 30 + NameLen + LocalExtraLen(entries[i - 1]) + entries[i - 1]]
  BY <1>6
<1> QED
  BY <1>7, Zenon DEF Offsets

LEMMA OffsetsAre ==
    ASSUME Listed
    PROVE  /\ Offsets[1] = 0
           /\ \A i \in 1..Len(entries) + 1 : Offsets[i] \in Nat /\ Offsets[i] <= Offsets[Len(entries) + 1]
           /\ \A i \in 1..Len(entries) : Offsets[i + 1] = Offsets[i] + HeaderLen(i) + entries[i]
<1> DEFINE n == Len(entries)
<1>1. n \in Nat
  BY Lengths
<1>2. Offsets[1] = 0
  BY <1>1, OffsetsSolve
<1>3. ASSUME NEW i \in 1..n
      PROVE  Offsets[i + 1] = Offsets[i] + 30 + NameLen + LocalExtraLen(entries[i]) + entries[i]
  <2>1. i + 1 \in 1..n + 1 /\ i + 1 # 1 /\ i + 1 - 1 = i
    BY <1>1
  <2> QED
    BY <2>1, OffsetsSolve
<1>4. PICK g : g = [i \in 0..n |-> Offsets[i + 1]]
  OBVIOUS
<1>5. ASSUME NEW i \in 1..n, g[i - 1] \in Nat
      PROVE  g[i] \in Nat /\ g[i - 1] <= g[i] /\ g[i] = g[i - 1] + HeaderLen(i) + entries[i]
  <2>1. i - 1 \in 0..n /\ i \in 0..n /\ i - 1 + 1 = i
    BY <1>1
  <2>2. g[i] = Offsets[i + 1] /\ g[i - 1] = Offsets[i]
    BY <1>4, <2>1
  <2>3. entries[i] \in Nat /\ LocalExtraLen(entries[i]) \in Nat /\ NameLen \in Nat
    BY Lengths, ZipBounds DEF LocalExtraLen
  <2>4. PICK a \in Nat, l \in Nat, e \in Nat :
          a = g[i - 1] /\ l = LocalExtraLen(entries[i]) /\ e = entries[i]
    BY <1>5, <2>3
  <2>5. g[i] = a + 30 + NameLen + l + e /\ HeaderLen(i) = 30 + NameLen + l
    BY <1>3, <2>2, <2>4 DEF HeaderLen
  <2>6. /\ a + 30 + NameLen + l + e \in Nat /\ a <= a + 30 + NameLen + l + e
        /\ a + 30 + NameLen + l + e = a + (30 + NameLen + l) + e
    BY <2>3
  <2> QED
    BY <2>4, <2>5, <2>6
<1>6. g[0] = 0
  BY <1>1, <1>2, <1>4
<1>7. \A i \in 0..n : g[i] \in Nat /\ g[i] <= g[n]
  <2> HIDE DEF n
  <2> QED
    BY <1>1, <1>5, <1>6, Rises
<1>8. \A i \in 1..n + 1 : i - 1 \in 0..n /\ g[i - 1] = Offsets[i]
  BY <1>1, <1>4
<1>9. \A i \in 1..n + 1 : Offsets[i] \in Nat /\ Offsets[i] <= Offsets[n + 1]
  <2>1. n + 1 \in 1..n + 1 /\ n + 1 - 1 = n
    BY <1>1
  <2> HIDE DEF n
  <2>2. g[n] = Offsets[n + 1]
    BY <1>1, <1>4
  <2>3. \A j \in 0..n : g[j] \in Nat /\ g[j] <= Offsets[n + 1]
    BY <1>7, <2>2
  <2> QED
    BY <1>8, <2>3
<1>10. ASSUME NEW i \in 1..n PROVE Offsets[i + 1] = Offsets[i] + HeaderLen(i) + entries[i]
  <2>1. i - 1 \in 0..n /\ i + 1 \in 1..n + 1 /\ i + 1 - 1 = i /\ i \in 1..n + 1
    BY <1>1
  <2>2. g[i - 1] \in Nat /\ g[i] = Offsets[i + 1] /\ g[i - 1] = Offsets[i]
    BY <1>7, <1>8, <2>1
  <2> QED
    BY <1>5, <2>2
<1> QED
  BY <1>2, <1>9, <1>10

LEMMA PairIs == ASSUME NEW m \in Nat, NEW n \in Nat PROVE <<m>> \o <<n>> = <<m, n>>
<1> DEFINE s == <<m>> \o <<n>>
<1>1. <<m>> \in Seq(Nat) /\ <<n>> \in Seq(Nat) /\ Len(<<m>>) = 1 /\ Len(<<n>>) = 1
  OBVIOUS
<1>2. s \in Seq(Nat) /\ Len(s) = 2 /\ s[1] = m /\ s[2] = n
  BY <1>1, ConcatProperties
<1>3. <<m, n>> \in Seq(Nat) /\ Len(<<m, n>>) = 2
  OBVIOUS
<1> HIDE DEF s
<1>4. \A i \in 1..2 : s[i] = <<m, n>>[i]
  BY <1>2
<1>5. s = <<m, n>>
  BY <1>2, <1>3, <1>4, SeqEqual
<1> QED
  BY <1>5 DEF s

LEMMA TripleIs == ASSUME NEW m \in Nat, NEW n \in Nat PROVE <<m, m>> \o <<n>> = <<m, m, n>>
<1> DEFINE s == <<m, m>> \o <<n>>
<1>1. <<m, m>> \in Seq(Nat) /\ <<n>> \in Seq(Nat) /\ Len(<<m, m>>) = 2 /\ Len(<<n>>) = 1
  OBVIOUS
<1>2. s \in Seq(Nat) /\ Len(s) = 3 /\ s[1] = m /\ s[2] = m /\ s[3] = n
  BY <1>1, ConcatProperties
<1>3. <<m, m, n>> \in Seq(Nat) /\ Len(<<m, m, n>>) = 3
  OBVIOUS
<1> HIDE DEF s
<1>4. \A i \in 1..3 : s[i] = <<m, m, n>>[i]
  BY <1>2
<1>5. s = <<m, m, n>>
  BY <1>2, <1>3, <1>4, SeqEqual
<1> QED
  BY <1>5 DEF s

\* What the directory has for an entry is as long as centralExtraLen expects, and
\* a reader gets the entry's size and offset back from it.
LEMMA RecordRead ==
    ASSUME NEW size \in Nat, NEW at \in Nat, size # Max32
    PROVE  LET r == Record(size, at) IN
           /\ RecordLen(r) = 46 + NameLen + CentralExtraLen(size, at)
           /\ Sizes(r) = size /\ OffsetRead(r) = at
<1> DEFINE r == Record(size, at)
<1>1. r.size = Marked(size) /\ r.offset = Marked(at)
      /\ r.extra = If64(size) \o If64(size) \o If64(at)
  BY DEF Record
<1>2. Max32 \in Nat
  BY ZipBounds
<1> DEFINE twice == <<size>> \o <<size>>
<1>7. \A x : x \o <<>> = x \/ x \notin Seq(Nat)
  OBVIOUS
<1>8. twice = <<size, size>> /\ twice \in Seq(Nat) /\ twice \o <<at>> = <<size, size, at>>
  <2>1. twice = <<size, size>>
    BY PairIs
  <2>2. <<size, size>> \o <<at>> = <<size, size, at>>
    BY TripleIs
  <2>3. <<size, size>> \in Seq(Nat)
    OBVIOUS
  <2> QED
    BY <2>1, <2>2, <2>3
<1>3. CASE ~Overflows(size) /\ ~Overflows(at)
  <2>1. r.size = size /\ r.offset = at /\ r.extra = <<>>
    BY <1>1, <1>3 DEF Marked, If64
  <2> HIDE DEF r
  <2> QED
    BY <1>2, <1>3, <2>1 DEF r, RecordLen, CentralExtraLen, Sizes, OffsetRead
<1>4. CASE ~Overflows(size) /\ Overflows(at)
  <2>1. r.size = size /\ r.offset = Max32 /\ r.extra = <<at>>
    BY <1>1, <1>4 DEF Marked, If64
  <2> QED
    BY <1>2, <1>4, <2>1 DEF RecordLen, CentralExtraLen, Sizes, OffsetRead
<1>5. CASE Overflows(size) /\ ~Overflows(at)
  <2>1. If64(size) = <<size>> /\ If64(at) = <<>>
    BY <1>5 DEF If64
  <2>2. r.extra = <<size, size>>
    BY <1>1, <1>7, <1>8, <2>1
  <2>3. r.size = Max32 /\ r.offset = at
    BY <1>1, <1>5 DEF Marked
  <2> QED
    BY <1>2, <1>5, <2>2, <2>3 DEF RecordLen, CentralExtraLen, Sizes, OffsetRead
<1>6. CASE Overflows(size) /\ Overflows(at)
  <2>1. If64(size) = <<size>> /\ If64(at) = <<at>>
    BY <1>6 DEF If64
  <2>2. r.extra = <<size, size, at>>
    BY <1>1, <1>8, <2>1
  <2>3. r.size = Max32 /\ r.offset = Max32
    BY <1>1, <1>6 DEF Marked
  <2> QED
    BY <1>2, <1>6, <2>2, <2>3 DEF RecordLen, CentralExtraLen, Sizes, OffsetRead
<1> QED
  BY <1>3, <1>4, <1>5, <1>6

\* The recursions of centralSize and of the directory's length have solutions too.
LEMMA CentralSolves ==
    ASSUME Listed
    PROVE  \E f : /\ f = [i \in 0..Len(entries) |-> IF i = 0 THEN 0
                        ELSE f[i - 1] + 46 + NameLen + CentralExtraLen(entries[i], Offsets[i])]
                 /\ CentralSize = f[Len(entries)]
<1> DEFINE n == Len(entries)
           s == [i \in 1..n |-> 46 + NameLen + CentralExtraLen(entries[i], Offsets[i])]
<1>1. n \in Nat /\ NameLen \in Nat /\ \A i \in 1..n : CentralExtraLen(entries[i], Offsets[i]) \in Nat
  BY Lengths, ZipBounds DEF CentralExtraLen
<1>2. \A i \in 1..n : s[i] \in Nat
  BY <1>1
<1>3. PICK f \in [0..n -> Nat] : Adds(f, s, n)
  <2> HIDE DEF n, s
  <2> QED
    BY <1>1, <1>2, RunningSum
<1>4. ASSUME NEW i \in 0..n, i # 0
      PROVE  f[i] = f[i - 1] + 46 + NameLen + CentralExtraLen(entries[i], Offsets[i])
  <2>1. i \in 1..n /\ i - 1 \in 0..n
    BY <1>1, <1>4
  <2>3. f[i - 1] \in Nat
    BY <1>3, <2>1
  <2>2. f[i] = f[i - 1] + (46 + NameLen + CentralExtraLen(entries[i], Offsets[i]))
    BY <1>3, <2>1 DEF Adds
  <2> QED
    BY <1>1, <2>1, <2>2, <2>3
<1>5. f = [i \in 0..Len(entries) |-> IF i = 0 THEN 0
                 ELSE f[i - 1] + 46 + NameLen + CentralExtraLen(entries[i], Offsets[i])]
  BY <1>3, <1>4 DEF Adds
<1>6. \E k : k = [i \in 0..Len(entries) |-> IF i = 0 THEN 0
                 ELSE k[i - 1] + 46 + NameLen + CentralExtraLen(entries[i], Offsets[i])]
  BY <1>5
<1> QED
  BY <1>6, Zenon DEF CentralSize

LEMMA RecordsSolve ==
    ASSUME NEW r, Len(r) \in Nat, \A i \in 1..Len(r) : RecordLen(r[i]) \in Nat
    PROVE  \E f : /\ f = [i \in 0..Len(r) |-> IF i = 0 THEN 0 ELSE f[i - 1] + RecordLen(r[i])]
                 /\ RecordsLen(r) = f[Len(r)]
<1> DEFINE n == Len(r)
           s == [i \in 1..n |-> RecordLen(r[i])]
<1>1. \A i \in 1..n : s[i] \in Nat
  OBVIOUS
<1>2. PICK f \in [0..n -> Nat] : Adds(f, s, n)
  <2> HIDE DEF n, s
  <2> QED
    BY <1>1, RunningSum DEF n
<1>3. \A i \in 1..n : f[i] = f[i - 1] + RecordLen(r[i])
  BY <1>2 DEF Adds
<1>4. f = [i \in 0..Len(r) |-> IF i = 0 THEN 0 ELSE f[i - 1] + RecordLen(r[i])]
  BY <1>2, <1>3 DEF Adds
<1>5. \E k : k = [i \in 0..Len(r) |-> IF i = 0 THEN 0 ELSE k[i - 1] + RecordLen(r[i])]
  BY <1>4
<1> QED
  BY <1>5, Zenon DEF RecordsLen

LEMMA CentralIs ==
    ASSUME Listed
    PROVE  \E f : /\ f[0] = 0 /\ \A i \in 0..Len(entries) : f[i] \in Nat
                 /\ CentralSize = f[Len(entries)]
                 /\ \A i \in 1..Len(entries) :
                       f[i] = f[i - 1] + 46 + NameLen + CentralExtraLen(entries[i], Offsets[i])
<1> DEFINE n == Len(entries)
<1>1. n \in Nat /\ NameLen \in Nat
  BY Lengths, ZipBounds
<1>2. \A size, at : CentralExtraLen(size, at) \in Nat
  BY DEF CentralExtraLen
<1>3. PICK f : /\ f = [i \in 0..n |-> IF i = 0 THEN 0
                       ELSE f[i - 1] + 46 + NameLen + CentralExtraLen(entries[i], Offsets[i])]
              /\ CentralSize = f[n]
  BY CentralSolves
<1>4. f[0] = 0
  BY <1>1, <1>3
<1>5. ASSUME NEW i \in 1..n
      PROVE  f[i] = f[i - 1] + 46 + NameLen + CentralExtraLen(entries[i], Offsets[i])
  <2>1. i \in 0..n /\ i # 0
    BY <1>1
  <2> QED
    BY <1>3, <2>1
<1>6. ASSUME NEW i \in 1..n, f[i - 1] \in Nat PROVE f[i] \in Nat /\ f[i - 1] <= f[i]
  <2>1. PICK e \in Nat : e = CentralExtraLen(entries[i], Offsets[i])
    BY <1>2
  <2>2. PICK a \in Nat : a = f[i - 1]
    BY <1>6
  <2>3. f[i] = a + 46 + NameLen + e
    BY <1>5, <2>1, <2>2
  <2>4. NameLen \in Nat
    BY <1>1
  <2>5. a + 46 + NameLen + e \in Nat /\ a <= a + 46 + NameLen + e
    BY <2>4
  <2> QED
    BY <2>2, <2>3, <2>5
<1>7. \A i \in 0..n : f[i] \in Nat
  <2> HIDE DEF n
  <2> QED
    BY <1>1, <1>4, <1>6, Rises
<1> QED
  BY <1>3, <1>4, <1>5, <1>7

\* The directory comes out as long as the constructor expects.
LEMMA DirectoryLen ==
    ASSUME Listed, central \in Seq([size : Nat, offset : Nat, extra : Seq(Nat)]),
           Len(central) = Len(entries),
           \A i \in 1..Len(entries) : central[i] = Record(entries[i], Offsets[i])
    PROVE  RecordsLen(central) = CentralSize /\ CentralSize \in Nat
<1> DEFINE n == Len(entries)
<1>1. n \in Nat /\ NameLen \in Nat
  BY Lengths, ZipBounds
<1>2. \A size, at : CentralExtraLen(size, at) \in Nat
  BY DEF CentralExtraLen
<1>3. ASSUME NEW i \in 1..n
      PROVE  RecordLen(central[i]) = 46 + NameLen + CentralExtraLen(entries[i], Offsets[i])
  <2>1. entries[i] \in Nat /\ entries[i] # Max32 /\ Offsets[i] \in Nat
    BY <1>1, Lengths, OffsetsAre
  <2> QED
    BY <2>1, RecordRead
<1>4. \A i \in 1..n : RecordLen(central[i]) \in Nat
  BY <1>1, <1>2, <1>3
<1>5. PICK f : /\ f[0] = 0 /\ \A i \in 0..n : f[i] \in Nat
              /\ CentralSize = f[n]
              /\ \A i \in 1..n : f[i] = f[i - 1] + 46 + NameLen + CentralExtraLen(entries[i], Offsets[i])
  BY CentralIs
<1>6. PICK g : /\ g = [i \in 0..n |-> IF i = 0 THEN 0 ELSE g[i - 1] + RecordLen(central[i])]
              /\ RecordsLen(central) = g[n]
  BY <1>1, <1>4, RecordsSolve
<1>7. g[0] = 0
  BY <1>1, <1>6
<1>8. ASSUME NEW i \in 1..n PROVE g[i] = g[i - 1] + RecordLen(central[i])
  <2>1. i \in 0..n /\ i # 0
    BY <1>1
  <2> QED
    BY <1>6, <2>1
<1>9. ASSUME NEW i \in 1..n, f[i - 1] = g[i - 1] PROVE f[i] = g[i]
  <2>1. i - 1 \in 0..n /\ f[i - 1] \in Nat
    BY <1>1, <1>5
  <2>2. PICK e \in Nat : e = CentralExtraLen(entries[i], Offsets[i])
    BY <1>2
  <2>3. PICK a \in Nat : a = f[i - 1]
    BY <2>1
  <2>4. f[i] = a + 46 + NameLen + e /\ g[i] = a + (46 + NameLen + e)
    BY <1>3, <1>5, <1>8, <1>9, <2>2, <2>3
  <2> QED
    BY <1>1, <2>4
<1>10. f[n] = g[n]
  <2>1. n \in Nat /\ f[0] = g[0]
    BY <1>1, <1>5, <1>7
  <2> HIDE DEF n
  <2> QED
    BY <1>9, <2>1, SumsAgree, Zenon
<1> QED
  BY <1>1, <1>5, <1>6, <1>10

-----------------------------------------------------------------------------
(* The archive as it is read *)

Phases == {"start", "LocalHeader", "FileData", "Trailer", "Done"}
Records == [size : Nat, offset : Nat, extra : Seq(Nat)]

ZipTyped ==
    /\ Listed /\ phase \in Phases /\ index \in 1..Len(entries) + 1
    /\ {pending, left, written} \subseteq Nat /\ opened \in BOOLEAN /\ short \in BOOLEAN
    /\ central \in Seq(Records) /\ began \in Seq(Nat)

\* Where the reader is, and what is staged or open there.
Placed ==
    /\ phase = "start" => index = 1 /\ central = <<>> /\ began = <<>>
    /\ phase \in {"start", "FileData", "Done"} => pending = 0
    /\ phase \in {"LocalHeader", "FileData"} => index <= Len(entries) /\ Len(central) = index
    /\ phase \in {"Trailer", "Done"} => Len(central) = Len(entries)
    /\ phase # "FileData" => opened = FALSE

\* How far the stream is to be when what is staged and what is open are read.
Due ==
    IF phase = "start" THEN 0
    ELSE IF phase = "LocalHeader" THEN Offsets[index] + HeaderLen(index)
    ELSE IF phase = "FileData" THEN Offsets[index + 1]
    ELSE Total
Sent == written + pending + IF opened THEN left ELSE 0

\* It gets there unless a file fell short, and then not as far; and as long as
\* none did, every header begins where its record says.
OnCourse ==
    /\ short => Sent < Due
    /\ ~short => Sent = Due
    /\ Len(began) = Len(central) /\ Len(central) <= Len(entries)
    /\ \A i \in 1..Len(central) : central[i] = Record(entries[i], Offsets[i])
    /\ ~short => \A i \in 1..Len(began) : began[i] = Offsets[i]

ZipInv == ZipTyped /\ Placed /\ OnCourse

LEMMA RecordIn == ASSUME NEW size \in Nat, NEW at \in Nat PROVE Record(size, at) \in Records
<1>1. Marked(size) \in Nat /\ Marked(at) \in Nat
  BY ZipBounds DEF Marked
<1>2. If64(size) \in Seq(Nat) /\ If64(at) \in Seq(Nat)
  BY DEF If64
<1>3. If64(size) \o If64(size) \in Seq(Nat)
  BY <1>2, ConcatProperties
<1>4. If64(size) \o If64(size) \o If64(at) \in Seq(Nat)
  BY <1>2, <1>3, ConcatProperties
<1> QED
  BY <1>1, <1>4 DEF Record, Records

\* What the constructor computes depends on the entries only.
LEMMA Fixed ==
    entries' = entries => /\ Offsets' = Offsets /\ CentralSize' = CentralSize
                         /\ Total' = Total /\ \A i : HeaderLen(i)' = HeaderLen(i)
BY DEF Offsets, CentralSize, Total, TrailerAhead, HeaderLen

LEMMA ZipInitInv == ZipInit => ZipInv
<1> SUFFICES ASSUME ZipInit PROVE ZipInv
  OBVIOUS
<1>1. Listed
  BY ZipBounds DEF ZipInit, Listed
<1>2. Len(entries) \in Nat
  BY <1>1, Lengths
<1>3. ZipTyped
  <2>1. index \in 1..Len(entries) + 1
    BY <1>2 DEF ZipInit
  <2>2. central \in Seq(Records) /\ began \in Seq(Nat)
    BY DEF ZipInit
  <2>3. phase \in Phases /\ {pending, left, written} \subseteq Nat
    BY DEF ZipInit, Phases
  <2>4. opened \in BOOLEAN /\ short \in BOOLEAN
    BY DEF ZipInit
  <2> QED
    BY <1>1, <2>1, <2>2, <2>3, <2>4 DEF ZipTyped
<1>4. Placed
  BY DEF ZipInit, Placed
<1>5. OnCourse
  <2>1. Len(central) = 0 /\ Len(began) = 0
    BY DEF ZipInit
  <2>2. Sent = 0 /\ Due = 0 /\ short = FALSE
    BY DEF ZipInit, Sent, Due
  <2> QED
    BY <1>2, <2>1, <2>2 DEF OnCourse
<1> QED
  BY <1>3, <1>4, <1>5 DEF ZipInv

\* A step that leaves the entries, the records and the place alone has only to
\* keep count.
LEMMA CourseKept ==
    ASSUME ZipInv, UNCHANGED <<entries, index, central, began>>, short => short',
           short' => Sent' < Due', ~short' => Sent' = Due'
    PROVE  OnCourse'
<1>1. Offsets' = Offsets
  BY Fixed
<1> QED
  BY <1>1 DEF ZipInv, OnCourse, ZipTyped, Record, Marked, If64, Overflows

LEMMA StagedInv == ZipInv /\ Staged => ZipInv'
<1> SUFFICES ASSUME ZipInv, Staged PROVE ZipInv'
  OBVIOUS
<1>1. PICK take \in Part(pending) : pending' = pending - take /\ written' = written + take
  BY DEF Staged
<1>2. /\ UNCHANGED <<entries, index, phase, central, opened, left, began, short>>
      /\ pending \in Nat /\ pending > 0 /\ written \in Nat /\ left \in Nat
  BY DEF Staged, ZipInv, ZipTyped
<1>3. take \in Nat /\ take <= pending
  BY <1>2 DEF Part
<1>4. ZipTyped'
  BY <1>1, <1>2, <1>3 DEF ZipInv, ZipTyped, Listed
<1>5. Placed'
  BY <1>1, <1>2 DEF ZipInv, Placed
<1>6. Sent' = Sent
  BY <1>1, <1>2, <1>3 DEF Sent
<1>7. Due' = Due
  BY <1>2, Fixed DEF Due
<1>8. OnCourse'
  BY <1>2, <1>6, <1>7, CourseKept DEF ZipInv, OnCourse
<1> QED
  BY <1>4, <1>5, <1>8 DEF ZipInv

LEMMA OpenFileInv == ZipInv /\ OpenFile => ZipInv'
<1> SUFFICES ASSUME ZipInv, OpenFile PROVE ZipInv'
  OBVIOUS
<1>1. /\ UNCHANGED <<entries, index, pending, central, written, began>>
      /\ phase = "LocalHeader" /\ phase' = "FileData" /\ pending = 0 /\ opened' \in BOOLEAN
      /\ left' = entries[index] /\ short' = (short \/ (~opened' /\ left' > 0))
  BY DEF OpenFile
<1>2. index \in 1..Len(entries) /\ written \in Nat /\ opened = FALSE /\ short \in BOOLEAN
  BY <1>1, Lengths DEF ZipInv, ZipTyped, Placed
<1>3. /\ left' \in Nat /\ HeaderLen(index) \in Nat /\ Offsets[index] \in Nat
      /\ Offsets[index + 1] = Offsets[index] + HeaderLen(index) + left'
  BY <1>1, <1>2, Lengths, OffsetsAre DEF ZipInv, ZipTyped
<1>4. ZipTyped'
  BY <1>1, <1>3 DEF ZipInv, ZipTyped, Listed, Phases
<1>5. Placed'
  BY <1>1 DEF ZipInv, Placed
<1>6. Sent = written /\ Due = Offsets[index] + HeaderLen(index)
  BY <1>1, <1>2 DEF Sent, Due
<1>7. Sent' = written + (IF opened' THEN left' ELSE 0) /\ Due' = Offsets[index + 1]
  BY <1>1, <1>2, Fixed DEF Sent, Due
<1>8. (short' => Sent' < Due') /\ (~short' => Sent' = Due')
  <2>1. short => written < Offsets[index] + HeaderLen(index)
    BY <1>6 DEF ZipInv, OnCourse
  <2>2. ~short => written = Offsets[index] + HeaderLen(index)
    BY <1>6 DEF ZipInv, OnCourse
  <2>3. PICK o \in Nat, h \in Nat, l \in Nat : o = Offsets[index] /\ h = HeaderLen(index) /\ l = left'
    BY <1>3
  <2>4. Due' = o + h + l /\ (opened' => Sent' = written + l) /\ (~opened' => Sent' = written)
    <3>1. Due' = o + h + l
      BY <1>3, <1>7, <2>3
    <3>2. opened' => Sent' = written + l
      BY <1>7, <2>3
    <3>3. ~opened' => Sent' = written
      BY <1>2, <1>7
    <3> QED
      BY <3>1, <3>2, <3>3
  <2>5. CASE short
    <3>1. short' /\ written < o + h
      BY <1>1, <2>1, <2>3, <2>5
    <3> QED
      BY <1>2, <2>4, <3>1
  <2>6. CASE ~short /\ opened'
    <3>1. ~short' /\ written = o + h
      BY <1>1, <2>2, <2>3, <2>6
    <3> QED
      BY <2>4, <2>6, <3>1
  <2>7. CASE ~short /\ ~opened'
    <3>1. (short' <=> l > 0) /\ written = o + h
      BY <1>1, <2>2, <2>3, <2>7
    <3> QED
      BY <2>4, <2>7, <3>1
  <2> QED
    BY <2>5, <2>6, <2>7
<1>9. OnCourse'
  BY <1>1, <1>8, CourseKept
<1> QED
  BY <1>4, <1>5, <1>9 DEF ZipInv

LEMMA ReadFileInv == ZipInv /\ ReadFile => ZipInv'
<1> SUFFICES ASSUME ZipInv, ReadFile PROVE ZipInv'
  OBVIOUS
<1>1. PICK got \in Part(left) : left' = left - got /\ written' = written + got
  BY DEF ReadFile
<1>2. /\ UNCHANGED <<entries, index, phase, pending, central, opened, began, short>>
      /\ opened /\ {pending, left, written} \subseteq Nat /\ left > 0
  BY DEF ReadFile, ZipInv, ZipTyped
<1>3. got \in Nat /\ got <= left
  BY <1>2 DEF Part
<1>4. ZipTyped'
  BY <1>1, <1>2, <1>3 DEF ZipInv, ZipTyped, Listed
<1>5. Placed'
  BY <1>2 DEF ZipInv, Placed
<1>6. Sent' = Sent
  BY <1>1, <1>2, <1>3 DEF Sent
<1>7. Due' = Due
  BY <1>2, Fixed DEF Due
<1>8. OnCourse'
  BY <1>2, <1>6, <1>7, CourseKept DEF ZipInv, OnCourse
<1> QED
  BY <1>4, <1>5, <1>8 DEF ZipInv

LEMMA Less ==
    ASSUME NEW a \in Nat, NEW b \in Nat, NEW c \in Nat, b > 0, a + b <= c
    PROVE  a < c
OBVIOUS

LEMMA ReadFailsInv == ZipInv /\ ReadFails => ZipInv'
<1> SUFFICES ASSUME ZipInv, ReadFails PROVE ZipInv'
  OBVIOUS
<1>1. /\ UNCHANGED <<entries, index, phase, pending, central, written, began>>
      /\ opened /\ left > 0 /\ opened' = FALSE /\ left' = 0 /\ short' = TRUE
  BY DEF ReadFails
<1>2. {pending, left, written} \subseteq Nat
  BY DEF ZipInv, ZipTyped
<1>3. ZipTyped'
  <2>1. opened' \in BOOLEAN /\ short' \in BOOLEAN
    BY <1>1
  <2>2. phase' \in Phases
    BY DEF ReadFails, ZipInv, ZipTyped
  <2>3. pending' \in Nat /\ left' \in Nat /\ written' \in Nat
    BY <1>1, <1>2
  <2> QED
    BY <1>1, <2>1, <2>2, <2>3 DEF ZipInv, ZipTyped, Listed
<1>4. Placed'
  BY <1>1 DEF ZipInv, Placed
<1>5. Sent = Sent' + left /\ Sent' \in Nat
  BY <1>1, <1>2 DEF Sent
<1>6. Due' = Due
  BY <1>1, Fixed DEF Due
<1>7. phase = "FileData" /\ index + 1 \in 1..Len(entries) + 1
  BY <1>1, Lengths DEF ReadFails, ZipInv, ZipTyped, Placed
<1>8. Due \in Nat
  BY <1>7, OffsetsAre DEF Due, ZipInv, ZipTyped
<1>9. Sent' < Due'
  <2>1. Sent <= Due
    BY <1>1, <1>2, <1>5, <1>8 DEF ZipInv, OnCourse
  <2>2. left \in Nat
    BY <1>2
  <2> QED
    BY <1>1, <1>5, <1>6, <1>8, <2>1, <2>2, Less
<1>10. OnCourse'
  BY <1>1, <1>9, CourseKept
<1> QED
  BY <1>3, <1>4, <1>10 DEF ZipInv

LEMMA EndInv == ZipInv /\ End => ZipInv'
<1> SUFFICES ASSUME ZipInv, End PROVE ZipInv'
  OBVIOUS
<1>1. /\ UNCHANGED <<entries, index, pending, central, opened, left, written, began, short>>
      /\ phase = "Trailer" /\ pending = 0 /\ phase' = "Done"
  BY DEF End
<1>2. ZipTyped'
  BY <1>1 DEF ZipInv, ZipTyped, Listed, Phases
<1>3. Placed'
  BY <1>1 DEF ZipInv, Placed
<1>4. Sent' = Sent
  BY <1>1 DEF Sent
<1>5. Due' = Due
  BY <1>1, Fixed DEF Due
<1>6. OnCourse'
  BY <1>1, <1>4, <1>5, CourseKept DEF ZipInv, OnCourse
<1> QED
  BY <1>2, <1>3, <1>6 DEF ZipInv

\* beginEntry, when what came before it is read: the header is staged where the
\* offset says, or short of it.
LEMMA BeginEntryInv ==
    ASSUME ZipInv, NEW i \in 1..Len(entries), BeginEntry(i), UNCHANGED <<entries, left, written, short>>,
           Len(central) = i - 1, pending = 0, opened' = FALSE,
           short => written < Offsets[i], ~short => written = Offsets[i]
    PROVE  ZipInv'
<1>1. /\ pending' = 30 + NameLen + IF Overflows(entries[i]) THEN 4 + 16 ELSE 0
      /\ central' = Append(central, Record(entries[i], Offsets[i]))
      /\ began' = Append(began, written) /\ index' = i /\ phase' = "LocalHeader"
  BY DEF BeginEntry
<1>2. /\ Listed /\ written \in Nat /\ Len(entries) \in Nat /\ i \in 1..Len(entries) + 1
      /\ central \in Seq(Records) /\ began \in Seq(Nat) /\ NameLen \in Nat
  BY Lengths, ZipBounds DEF ZipInv, ZipTyped
<1>3. /\ pending' = HeaderLen(i) /\ HeaderLen(i) \in Nat /\ entries[i] \in Nat /\ Offsets[i] \in Nat
  <2>1. pending' = HeaderLen(i)
    BY <1>1 DEF HeaderLen, LocalExtraLen
  <2>2. HeaderLen(i) \in Nat /\ entries[i] \in Nat
    BY <1>2, Lengths
  <2>3. Offsets[i] \in Nat
    BY <1>2, OffsetsAre
  <2> QED
    BY <2>1, <2>2, <2>3
<1>4. Record(entries[i], Offsets[i]) \in Records
  BY <1>3, RecordIn
<1>5. /\ central' \in Seq(Records) /\ Len(central') = i /\ central'[i] = Record(entries[i], Offsets[i])
      /\ \A j \in 1..i - 1 : central'[j] = central[j]
  <2> HIDE DEF Records
  <2> QED
    BY <1>1, <1>2, <1>4
<1>6. /\ began' \in Seq(Nat) /\ Len(began') = i /\ began'[i] = written
      /\ \A j \in 1..i - 1 : began'[j] = began[j]
  <2>1. Len(began) = i - 1
    BY DEF ZipInv, OnCourse
  <2> QED
    BY <1>1, <1>2, <2>1
<1>7. ZipTyped'
  <2>1. {pending, left, written}' \subseteq Nat /\ opened' \in BOOLEAN /\ short' \in BOOLEAN
    BY <1>3 DEF ZipInv, ZipTyped
  <2>2. Listed' /\ phase' \in Phases /\ index' \in 1..Len(entries') + 1
    BY <1>1, <1>2 DEF Listed, Phases
  <2> QED
    BY <1>5, <1>6, <2>1, <2>2 DEF ZipTyped, Records
<1>8. Placed'
  BY <1>1, <1>2, <1>5 DEF Placed
<1>9. Offsets' = Offsets /\ HeaderLen(i)' = HeaderLen(i)
  BY Fixed
<1>10. Sent' = written + HeaderLen(i) /\ Due' = Offsets[i] + HeaderLen(i)
  <2>1. Sent' = written' + pending' + 0
    BY DEF Sent
  <2>2. Due' = Offsets'[i] + HeaderLen(i)'
    BY <1>1 DEF Due, HeaderLen
  <2> QED
    BY <1>2, <1>3, <1>9, <2>1, <2>2
<1>11. \A j \in 1..i : j \in 1..i - 1 \/ j = i
  OBVIOUS
<1>12. ASSUME NEW j \in 1..i PROVE central'[j] = Record(entries'[j], Offsets'[j])
  <2>1. \A k \in 1..i - 1 : central[k] = Record(entries[k], Offsets[k])
    BY DEF ZipInv, OnCourse
  <2> QED
    BY <1>5, <1>9, <1>11, <2>1
<1>13. ASSUME ~short', NEW j \in 1..i PROVE began'[j] = Offsets'[j]
  <2>1. \A k \in 1..i - 1 : began[k] = Offsets[k]
    BY <1>13 DEF ZipInv, OnCourse
  <2> QED
    BY <1>6, <1>9, <1>11, <1>13, <2>1
<1>14. (short' => Sent' < Due') /\ (~short' => Sent' = Due')
  BY <1>2, <1>3, <1>10
<1>15. Len(began') = i /\ Len(central') = i /\ i <= Len(entries')
  BY <1>2, <1>5, <1>6
<1>16. OnCourse'
  BY <1>12, <1>13, <1>14, <1>15 DEF OnCourse, Record, Marked, If64, Overflows
<1> QED
  BY <1>7, <1>8, <1>16 DEF ZipInv

LEMMA TotalNat == ASSUME Listed PROVE Total \in Nat /\ Offsets[Len(entries) + 1] <= Total
<1>1. Offsets[Len(entries) + 1] \in Nat
  BY Lengths, OffsetsAre
<1>2. CentralSize \in Nat
  <2>1. Len(entries) \in 0..Len(entries)
    BY Lengths
  <2> QED
    BY <2>1, CentralIs
<1>3. TrailerAhead(Offsets[Len(entries) + 1]) \in Nat
  BY DEF TrailerAhead
<1> QED
  BY <1>1, <1>2, <1>3 DEF Total

\* buildTrailer, when every entry is behind: it decides again whether Zip64 is
\* needed, from what was written, and comes to what the constructor expected,
\* or to less when less was written.
LEMMA BuildTrailerInv ==
    ASSUME ZipInv, BuildTrailer, UNCHANGED <<entries, left, written, short>>,
           Len(central) = Len(entries), pending = 0, opened' = FALSE,
           short => written < Offsets[Len(entries) + 1], ~short => written = Offsets[Len(entries) + 1]
    PROVE  ZipInv'
<1> DEFINE end == Offsets[Len(entries) + 1]
           needed(at) == Overflows(at) \/ Overflows(CentralSize) \/ Len(entries) > MaxEntries16
           tail(at) == 22 + IF needed(at) THEN 56 + 20 ELSE 0
<1>1. /\ Listed /\ written \in Nat /\ Len(entries) \in Nat /\ end \in Nat /\ Max32 \in Nat
      /\ Len(entries) + 1 \in 1..Len(entries) + 1
  BY Lengths, OffsetsAre, ZipBounds DEF ZipInv, ZipTyped
<1>2. RecordsLen(central) = CentralSize /\ CentralSize \in Nat
  BY DirectoryLen DEF ZipInv, ZipTyped, OnCourse, Records
<1>3. /\ pending' = CentralSize + tail(written) /\ index' = Len(entries) + 1 /\ phase' = "Trailer"
      /\ UNCHANGED <<central, began>>
  <2>1. /\ pending' = RecordsLen(central) + 22
             + IF Overflows(written) \/ Overflows(RecordsLen(central)) \/ Len(entries) > MaxEntries16
               THEN 56 + 20 ELSE 0
        /\ index' = Len(entries) + 1 /\ phase' = "Trailer" /\ UNCHANGED <<central, began>>
    BY DEF BuildTrailer
  <2> QED
    BY <1>2, <2>1
<1>4. Total = end + CentralSize + tail(end)
  BY DEF Total, TrailerAhead
<1>5. tail(written) \in Nat /\ tail(end) \in Nat /\ (written <= end => tail(written) <= tail(end))
  BY <1>1 DEF Overflows
<1> HIDE DEF end, tail, needed
<1>6. pending' \in Nat
  BY <1>2, <1>3, <1>5
<1>7. ZipTyped'
  <2>1. {pending, left, written}' \subseteq Nat /\ opened' \in BOOLEAN /\ short' \in BOOLEAN
    BY <1>6 DEF ZipInv, ZipTyped
  <2>2. Listed' /\ phase' \in Phases /\ index' \in 1..Len(entries') + 1
    BY <1>1, <1>3 DEF Listed, Phases
  <2> QED
    BY <1>3, <2>1, <2>2 DEF ZipInv, ZipTyped
<1>8. Placed'
  BY <1>3 DEF Placed
<1>9. Total' = Total /\ Offsets' = Offsets
  BY Fixed
<1>10. Sent' = written + (CentralSize + tail(written)) /\ Due' = Total
  BY <1>1, <1>2, <1>3, <1>5, <1>9 DEF Sent, Due
<1>11. (short' => Sent' < Due') /\ (~short' => Sent' = Due')
  <2>1. CASE short
    <3>1. written < end
      BY <2>1 DEF end
    <3> QED
      BY <1>1, <1>2, <1>4, <1>5, <1>10, <2>1, <3>1
  <2>2. CASE ~short
    <3>1. written = end
      BY <2>2 DEF end
    <3> QED
      BY <1>1, <1>2, <1>4, <1>5, <1>10, <2>2, <3>1
  <2> QED
    BY <2>1, <2>2
<1>12. OnCourse'
  BY <1>3, <1>9, <1>11 DEF ZipInv, OnCourse, Record, Marked, If64, Overflows
<1> QED
  BY <1>7, <1>8, <1>12 DEF ZipInv

LEMMA NextEntryInv ==
    ASSUME ZipInv, NEW i \in 1..Len(entries) + 1, NextEntry(i), UNCHANGED <<entries, left, written, short>>,
           Len(central) = i - 1, pending = 0, opened' = FALSE,
           short => written < Offsets[i], ~short => written = Offsets[i]
    PROVE  ZipInv'
<1>1. Len(entries) \in Nat
  BY Lengths DEF ZipInv, ZipTyped
<1>2. CASE i <= Len(entries)
  <2>1. i \in 1..Len(entries) /\ BeginEntry(i)
    BY <1>1, <1>2 DEF NextEntry
  <2> QED
    BY <2>1, BeginEntryInv
<1>3. CASE ~(i <= Len(entries))
  <2>1. i = Len(entries) + 1 /\ Len(central) = Len(entries)
    BY <1>1, <1>3
  <2> QED
    BY <1>3, <2>1, BuildTrailerInv DEF NextEntry
<1> QED
  BY <1>2, <1>3

LEMMA StartInv == ZipInv /\ Start => ZipInv'
<1> SUFFICES ASSUME ZipInv, Start PROVE ZipInv'
  OBVIOUS
<1>1. /\ phase = "start" /\ NextEntry(1) /\ UNCHANGED <<entries, left, written, short>> /\ opened' = opened
  BY DEF Start
<1>2. /\ Len(entries) \in Nat /\ Offsets[1] = 0 /\ 1 \in 1..Len(entries) + 1
      /\ pending = 0 /\ opened = FALSE /\ Len(central) = 0 /\ written \in Nat
  BY <1>1, Lengths, OffsetsAre DEF ZipInv, ZipTyped, Placed
<1>3. Sent = written /\ Due = 0
  BY <1>1, <1>2 DEF Sent, Due
<1>4. (short => written < Offsets[1]) /\ (~short => written = Offsets[1])
  BY <1>2, <1>3 DEF ZipInv, OnCourse
<1>5. Len(central) = 1 - 1 /\ opened' = FALSE
  BY <1>1, <1>2
<1> QED
  BY <1>1, <1>2, <1>4, <1>5, NextEntryInv, Zenon

LEMMA FileDoneInv == ZipInv /\ FileDone => ZipInv'
<1> SUFFICES ASSUME ZipInv, FileDone PROVE ZipInv'
  OBVIOUS
<1>1. /\ phase = "FileData" /\ (~opened \/ left = 0) /\ NextEntry(index + 1)
      /\ UNCHANGED <<entries, left, written, short>> /\ opened' = FALSE
  BY DEF FileDone
<1>2. /\ Len(entries) \in Nat /\ index + 1 \in 1..Len(entries) + 1 /\ index + 1 - 1 = index
      /\ pending = 0 /\ Len(central) = index /\ written \in Nat
  BY <1>1, Lengths DEF ZipInv, ZipTyped, Placed
<1>3. Sent = written /\ Due = Offsets[index + 1]
  BY <1>1, <1>2 DEF Sent, Due
<1>4. (short => written < Offsets[index + 1]) /\ (~short => written = Offsets[index + 1])
  BY <1>3 DEF ZipInv, OnCourse
<1>5. PICK i \in 1..Len(entries) + 1 : i = index + 1
  BY <1>2
<1>6. Len(central) = i - 1 /\ NextEntry(i)
  BY <1>1, <1>2, <1>5
<1>7. (short => written < Offsets[i]) /\ (~short => written = Offsets[i])
  BY <1>4, <1>5
<1> QED
  BY <1>1, <1>2, <1>6, <1>7, NextEntryInv, Zenon

LEMMA ZipAlways == ZipSpec => []ZipInv
<1>1. ZipInv /\ UNCHANGED zipVars => ZipInv'
  <2> SUFFICES ASSUME ZipInv, UNCHANGED zipVars PROVE ZipInv'
    OBVIOUS
  <2>1. ZipTyped' /\ Placed'
    BY DEF ZipInv, ZipTyped, Placed, Listed, zipVars
  <2>2. Sent' = Sent /\ Due' = Due
    BY Fixed DEF Sent, Due, zipVars
  <2>3. OnCourse'
    BY <2>2, CourseKept DEF ZipInv, OnCourse, zipVars
  <2> QED
    BY <2>1, <2>3 DEF ZipInv
<1>2. ZipInv /\ [ZipNext]_zipVars => ZipInv'
  BY <1>1, StartInv, StagedInv, OpenFileInv, FileDoneInv, ReadFileInv, ReadFailsInv, EndInv DEF ZipNext
<1> QED
  BY <1>2, ZipInitInv, PTL DEF ZipSpec

\* An archive is never longer than announced, and as long exactly when no file
\* fell short: for any number of entries of any sizes, wherever the 32 bit and
\* 16 bit limits lie, however the client reads it.
THEOREM ArchiveAsAnnounced == ZipSpec => []LengthAnnounced
<1>1. ZipInv => LengthAnnounced
  <2> SUFFICES ASSUME ZipInv PROVE LengthAnnounced
    OBVIOUS
  <2>1. /\ Listed /\ {pending, left, written} \subseteq Nat /\ Len(entries) \in Nat
        /\ index \in 1..Len(entries) + 1 /\ Offsets[Len(entries) + 1] \in Nat
    BY Lengths, OffsetsAre DEF ZipInv, ZipTyped
  <2>2. Total \in Nat /\ Offsets[Len(entries) + 1] <= Total
    BY <2>1, TotalNat
  <2>3. Due \in Nat /\ Due <= Total
    <3>1. CASE phase = "LocalHeader"
      <4>1. index \in 1..Len(entries) /\ index + 1 \in 1..Len(entries) + 1
        BY <2>1, <3>1 DEF ZipInv, Placed
      <4>2. /\ Offsets[index + 1] = Offsets[index] + HeaderLen(index) + entries[index]
            /\ Offsets[index] \in Nat /\ HeaderLen(index) \in Nat /\ entries[index] \in Nat
            /\ Offsets[index + 1] <= Offsets[Len(entries) + 1]
        BY <2>1, <4>1, Lengths, OffsetsAre
      <4>3. PICK o \in Nat, h \in Nat, e \in Nat :
              o = Offsets[index] /\ h = HeaderLen(index) /\ e = entries[index]
        BY <4>2
      <4>4. Due = o + h /\ Offsets[index + 1] = o + h + e
        BY <3>1, <4>2, <4>3 DEF Due
      <4>5. PICK end \in Nat : end = Offsets[Len(entries) + 1] /\ o + h + e <= end
        BY <2>1, <4>2, <4>4
      <4>6. Due \in Nat /\ Due <= end /\ end <= Total
        BY <2>2, <4>4, <4>5
      <4> QED
        BY <2>2, <4>6
    <3>2. CASE phase = "FileData"
      <4>1. index + 1 \in 1..Len(entries) + 1
        BY <2>1, <3>2 DEF ZipInv, Placed
      <4>2. Offsets[index + 1] \in Nat /\ Offsets[index + 1] <= Offsets[Len(entries) + 1]
        BY <2>1, <4>1, OffsetsAre
      <4> QED
        BY <2>1, <2>2, <3>2, <4>2 DEF Due
    <3> QED
      BY <2>2, <3>1, <3>2 DEF Due
  <2>4. Sent \in Nat /\ Sent <= Due /\ written + pending <= Sent
    BY <2>1, <2>3 DEF Sent, ZipInv, OnCourse
  <2>5. phase = "Done" => Due = Total /\ Sent = written
    BY <2>1 DEF Due, Sent, ZipInv, Placed
  <2>6. phase = "Done" => (written = Total <=> ~short)
    BY <2>1, <2>2, <2>5 DEF ZipInv, OnCourse
  <2> QED
    BY <2>1, <2>2, <2>3, <2>4, <2>6 DEF LengthAnnounced
<1> QED
  BY <1>1, ZipAlways, PTL

\* A reader of the directory of a whole archive finds every file where its
\* header really is, and its size.
THEOREM ReaderFindsFiles == ZipSpec => []ReaderFindsAll
<1>1. ZipInv => ReaderFindsAll
  <2> SUFFICES ASSUME ZipInv, phase = "Done", ~short, NEW i \in 1..Len(entries)
               PROVE  Sizes(central[i]) = entries[i] /\ OffsetRead(central[i]) = began[i]
    BY DEF ReaderFindsAll
  <2>1. /\ Len(central) = Len(entries) /\ Len(began) = Len(entries)
        /\ central[i] = Record(entries[i], Offsets[i]) /\ began[i] = Offsets[i]
    BY DEF ZipInv, Placed, OnCourse
  <2>2. entries[i] \in Nat /\ entries[i] # Max32 /\ Offsets[i] \in Nat
    BY Lengths, OffsetsAre DEF ZipInv, ZipTyped
  <2> QED
    BY <2>1, <2>2, RecordRead
<1> QED
  BY <1>1, ZipAlways, PTL

=============================================================================
