----------------------------- MODULE MessagesProofs -----------------------------
(***************************************************************************)
(* What holds of Messages for any number of workers, members, texts and    *)
(* messages, however requests overlap on the connection, roll each other   *)
(* back and crash, and what holds until two of them overlap; and of Feed,  *)
(* for any number of polls, what a client of the room is shown.            *)
(***************************************************************************)
EXTENDS Messages, Feed, FiniteSetTheorems, TLAPS

-----------------------------------------------------------------------------
(* Types *)

Row == [st : {"none", "live", "removed"}, author : User \union {NoArg},
        body : Text \union {NoText}, pinned : BOOLEAN, cleared : BOOLEAN,
        mentions : SUBSET User, reactions : SUBSET User, photo : BOOLEAN]

Tables == [msg : [Id -> Row], link : [Id -> BOOLEAN], read : [User -> 0..MaxMsg]]

\* What a handler holds at the steps that use it.
HoldsUser == {"post_begin", "post_insert", "post_mentions", "post_photo", "post_read",
              "react_begin", "react_write"}
HoldsBody == {"post_begin", "post_insert", "post_mentions",
              "edit_begin", "edit_update", "edit_clear", "edit_mentions"}
HoldsId   == {"post_mentions", "post_photo", "post_read",
              "edit_begin", "edit_update", "edit_clear", "edit_mentions",
              "remove_begin", "remove_update", "remove_changes", "remove_mentions",
              "remove_photo", "remove_links", "remove_reactions",
              "react_begin", "react_write", "react_touch", "pin_count", "pin_update", "unpin"}

Fits(l, a) ==
    /\ l \in HoldsUser => a.u \in User
    /\ l \in HoldsBody => a.body \in Text \union {NoText}
    /\ l \in HoldsId => a.i \in Id

Types ==
    /\ db \in Tables /\ durable \in Tables /\ owner \in Workers \union {NoOwner}
    /\ pc = [t \in Workers |-> pc[t]] /\ arg = [t \in Workers |-> arg[t]]

-----------------------------------------------------------------------------
(* The invariant *)

\* Steps inside the thread's own transaction.
Within == {"post_insert", "post_mentions", "post_photo", "post_read", "post_commit",
           "edit_update", "edit_clear", "edit_mentions", "edit_commit",
           "remove_update", "remove_changes", "remove_mentions", "remove_photo",
           "remove_links", "remove_reactions", "remove_commit",
           "react_write", "react_touch", "react_commit"}

\* Those of a removal that has erased the text and not yet the photo.
Erasing == {"remove_changes", "remove_mentions", "remove_photo", "remove_links"}

\* Those between a message's INSERT and its photo's.
Posting == {"post_mentions", "post_photo"}

\* What is promised of message i in the tables d.
Sound(d, i) ==
    /\ d.msg[i].st = "removed" => d.msg[i].body = NoText /\ ~d.msg[i].photo
    /\ d.link[i] <=> d.msg[i].st = "live" /\ d.msg[i].photo

\* What is left of the promise while a removal of i is at step l.
Halfway(d, i, l) ==
    /\ d.msg[i].st # "live"
    /\ d.msg[i].st = "removed" => d.msg[i].body = NoText
    /\ d.link[i] => d.msg[i].photo /\ l # "remove_links"

\* What thread t knows.
Knows(t) ==
    /\ Fits(pc[t], arg[t])
    /\ pc[t] \in Within => owner = t
    /\ pc[t] \in Erasing => Halfway(db, arg[t].i, pc[t])
    /\ pc[t] \in Posting => db.msg[arg[t].i].st = "live"

Erased(i) == \E t \in Workers : pc[t] \in Erasing /\ arg[t].i = i

Inv ==
    /\ Types
    /\ \A t \in Workers : Knows(t)
    /\ \A i \in Id : Sound(durable, i)
    /\ \A i \in Id : Sound(db, i) \/ Erased(i)
    /\ \A u \in User : durable.read[u] <= db.read[u]

\* A marker in what is committed does not move backwards.
Onwards == \A u \in User : durable.read[u] <= durable'.read[u]

\* d and e say the same of message i, as far as the promise goes.
Agree(d, e, i) ==
    /\ d.msg[i].st = e.msg[i].st /\ d.msg[i].body = e.msg[i].body
    /\ d.msg[i].photo = e.msg[i].photo /\ d.link[i] = e.link[i]

LEMMA Labelled ==
    /\ Erasing \subseteq Within /\ Posting \subseteq Within
    /\ Erasing \intersect Posting = {} /\ "idle" \notin Within
    /\ \A a : Fits("idle", a)
BY DEF Erasing, Posting, Within, Fits, HoldsUser, HoldsBody, HoldsId

LEMMA InitInv == Init => Inv
<1> SUFFICES ASSUME Init PROVE Inv
  OBVIOUS
<1> DEFINE empty == [msg |-> [i \in Id |-> NoRow], link |-> [i \in Id |-> FALSE],
                     read |-> [u \in User |-> 0]]
<1>1. NoRow \in Row
  BY DEF NoRow, Row
<1>2. empty \in Tables
  BY <1>1, BoundsNat DEF Tables
<1>3. Types
  BY <1>2 DEF Init, HandlersInit, Types
<1>4. ASSUME NEW t \in Workers PROVE Knows(t)
  BY Labelled DEF Init, HandlersInit, Knows
<1>5. ASSUME NEW i \in Id PROVE Sound(empty, i)
  BY DEF Sound, NoRow
<1>6. \A u \in User : empty.read[u] <= empty.read[u]
  OBVIOUS
<1> QED
  BY <1>3, <1>4, <1>5, <1>6 DEF Init, HandlersInit, Inv

-----------------------------------------------------------------------------
(* The kinds of step there are *)

LEMMA GotoIsEnter ==
    ASSUME Types, NEW t \in Workers, NEW l, Goto(t, l) PROVE Enter(t, l, arg[t])
BY DEF Types, Goto, Enter

\* A statement of t that makes the tables d; it alters what is promised of k
\* at most, and that inside its own transaction only.
LEMMA WriteStep ==
    ASSUME Inv, NEW t \in Workers, NEW l, NEW a, NEW d \in Tables, NEW x, NEW k,
           Execute(d, x), Enter(t, l, a), Fits(l, a), l \in Within => owner = t,
           l \in Erasing => Halfway(d, a.i, l),
           l \in Posting => d.msg[a.i].st = "live",
           \A i \in Id \ {k} : Agree(d, db, i), k \in Id => Agree(d, db, k) \/ owner = t,
           pc[t] \in Erasing => (l \in Erasing /\ a.i = arg[t].i) \/ Sound(d, arg[t].i),
           k \in Id => Sound(d, k) \/ Agree(d, db, k) \/ (l \in Erasing /\ a.i = k),
           \A u \in User : db.read[u] <= d.read[u]
    PROVE  Inv' /\ Onwards
<1>1. Types'
  BY DEF Inv, Types, Execute, Enter
<1>2. pc'[t] = l /\ arg'[t] = a /\ \A v \in Workers \ {t} : pc'[v] = pc[v] /\ arg'[v] = arg[v]
  BY DEF Inv, Types, Enter
<1>3. db' = d /\ owner' = owner
  BY DEF Execute
<1>4. ASSUME NEW v \in Workers PROVE Knows(v)'
  <2>1. CASE v = t
    BY <1>2, <1>3, <2>1 DEF Knows
  <2>2. CASE v # t
    <3>1. pc'[v] = pc[v] /\ arg'[v] = arg[v] /\ Knows(v)
      BY <1>2, <2>2 DEF Inv
    <3>2. CASE pc[v] \in Within
      <4>1. owner = v /\ (k \in Id => Agree(d, db, k))
        BY <2>2, <3>1, <3>2 DEF Knows
      <4>2. \A i \in Id : Agree(d, db, i)
        BY <4>1
      <4>3. pc[v] \in Erasing \union Posting => arg[v].i \in Id
        BY <3>1 DEF Knows, Fits, Erasing, Posting, HoldsId
      <4> QED
        BY <1>3, <3>1, <4>2, <4>3 DEF Knows, Halfway, Agree
    <3>3. CASE pc[v] \notin Within
      BY <3>1, <3>3, Labelled DEF Knows
    <3> QED
      BY <3>2, <3>3
  <2> QED
    BY <2>1, <2>2
<1>5. ASSUME NEW i \in Id PROVE Sound(d, i) \/ Erased(i)'
  <2>1. CASE Agree(d, db, i)
    <3>1. Sound(db, i) => Sound(d, i)
      BY <2>1 DEF Sound, Agree
    <3>2. ASSUME NEW v \in Workers, pc[v] \in Erasing, arg[v].i = i PROVE Sound(d, i) \/ Erased(i)'
      <4>1. CASE v = t
        BY <1>2, <3>2, <4>1 DEF Erased
      <4>2. CASE v # t
        BY <1>2, <3>2, <4>2 DEF Erased
      <4> QED
        BY <4>1, <4>2
    <3> QED
      BY <3>1, <3>2 DEF Inv, Erased
  <2>2. CASE i = k /\ ~Agree(d, db, k)
    BY <1>2, <2>2 DEF Erased
  <2> QED
    BY <2>1, <2>2
<1>6. ASSUME NEW i \in Id PROVE Sound(durable, i)'
  <2>1. CASE owner = NoOwner
    <3>1. \A v \in Workers : pc[v] \notin Within
      BY <2>1, WorkersApart DEF Inv, Knows
    <3>2. Sound(db, i) /\ Agree(d, db, i)
      BY <2>1, <3>1, Labelled, WorkersApart DEF Inv, Erased
    <3>3. durable' = d
      BY <2>1 DEF Execute
    <3> QED
      BY <3>2, <3>3 DEF Sound, Agree
  <2>2. CASE owner # NoOwner
    BY <2>2 DEF Execute, Inv, Sound
  <2> QED
    BY <2>1, <2>2
<1>7. \A u \in User : durable.read[u] <= durable'.read[u] /\ durable'.read[u] <= d.read[u]
  <2>1. \A u \in User : durable.read[u] \in Nat /\ db.read[u] \in Nat /\ d.read[u] \in Nat
    BY BoundsNat DEF Inv, Types, Tables
  <2> QED
    BY <2>1 DEF Inv, Execute
<1> QED
  BY <1>1, <1>3, <1>4, <1>5, <1>6, <1>7 DEF Inv, Onwards

\* A step of t that writes nothing.
LEMMA QuietStep ==
    ASSUME Inv, NEW t \in Workers, NEW l, NEW a, Query, Enter(t, l, a), Fits(l, a),
           l \in Within => owner = t, l \notin Posting,
           pc[t] \in Erasing <=> l \in Erasing,
           l \in Erasing => a.i = arg[t].i /\ l # "remove_links"
    PROVE  Inv' /\ Onwards
<1>1. Types' /\ db' = db /\ durable' = durable /\ owner' = owner
  BY DEF Inv, Types, Query, conn, Enter
<1>2. pc'[t] = l /\ arg'[t] = a /\ \A v \in Workers \ {t} : pc'[v] = pc[v] /\ arg'[v] = arg[v]
  BY DEF Inv, Types, Enter
<1>3. ASSUME NEW v \in Workers PROVE Knows(v)'
  BY <1>1, <1>2 DEF Inv, Knows, Halfway
<1>4. ASSUME NEW i \in Id PROVE Erased(i) => Erased(i)'
  BY <1>2 DEF Erased
<1>5. Onwards
  BY <1>1, BoundsNat DEF Inv, Types, Tables, Onwards
<1> QED
  BY <1>1, <1>3, <1>4, <1>5 DEF Inv

\* BEGIN.
LEMMA BeginStep ==
    ASSUME Inv, NEW t \in Workers, NEW l, NEW m, BeginAt(t, l, m), Fits(l, arg[t]) => Fits(m, arg[t]),
           l \notin Within, m \notin Erasing, m \notin Posting
    PROVE  Inv' /\ Onwards
<1>1. Types' /\ db' = db /\ durable' = durable /\ owner' = t /\ owner = NoOwner
  BY DEF Inv, Types, BeginAt, Begin, Goto
<1>2. arg' = arg /\ pc'[t] = m /\ pc[t] = l /\ \A v \in Workers \ {t} : pc'[v] = pc[v]
  BY DEF Inv, Types, BeginAt, Goto, At
<1>3. \A v \in Workers : pc[v] \notin Within
  BY <1>1, WorkersApart DEF Inv, Knows
<1>4. ASSUME NEW v \in Workers PROVE Knows(v)'
  BY <1>1, <1>2, <1>3, Labelled DEF Inv, Knows
<1>5. ASSUME NEW i \in Id PROVE ~Erased(i)
  BY <1>3, Labelled DEF Erased
<1>6. Onwards
  BY <1>1, BoundsNat DEF Inv, Types, Tables, Onwards
<1> QED
  BY <1>1, <1>4, <1>5, <1>6 DEF Inv

\* COMMIT and the end of the handler.
LEMMA CommitStep ==
    ASSUME Inv, NEW t \in Workers, NEW l, CommitAt(t, l), l \notin Erasing
    PROVE  Inv' /\ Onwards
<1>1. Types' /\ db' = db /\ durable' = db /\ owner' = NoOwner /\ owner = t
  BY DEF Inv, Types, CommitAt, Commit, Return, Enter
<1>2. pc[t] = l /\ pc'[t] = "idle" /\ \A v \in Workers \ {t} : pc'[v] = pc[v] /\ arg'[v] = arg[v]
  BY DEF Inv, Types, CommitAt, Return, Enter, At
<1>3. \A v \in Workers \ {t} : pc[v] \notin Within
  BY <1>1 DEF Inv, Knows
<1>4. ASSUME NEW v \in Workers PROVE Knows(v)'
  BY <1>2, <1>3, Labelled DEF Inv, Knows
<1>5. ASSUME NEW i \in Id PROVE Sound(db, i)
  BY <1>2, <1>3, Labelled DEF Inv, Erased
<1>6. \A u \in User : db.read[u] <= db.read[u]
  BY BoundsNat DEF Inv, Types, Tables
<1> QED
  BY <1>1, <1>4, <1>5, <1>6 DEF Inv, Onwards

\* ROLLBACK, of an exception or of a crash: what is committed is all there is.
LEMMA UndoStep ==
    ASSUME Inv, Types', db' = durable, durable' = durable,
           \A v \in Workers : pc'[v] = "idle" \/ (pc'[v] = pc[v] /\ arg'[v] = arg[v] /\ owner # v)
    PROVE  Inv' /\ Onwards
<1>1. ASSUME NEW v \in Workers PROVE Knows(v)' 
  BY Labelled DEF Inv, Knows
<1>2. \A u \in User : durable.read[u] <= durable.read[u]
  BY BoundsNat DEF Inv, Types, Tables
<1> QED
  BY <1>1, <1>2 DEF Inv, Onwards, Sound

LEMMA ThrowStep ==
    ASSUME Inv, NEW t \in Workers, NEW l, Throw(t, l) PROVE Inv' /\ Onwards
<1>1. Types' /\ db' = durable /\ durable' = durable /\ owner = t
  BY DEF Inv, Types, Throw, Rollback, Return, Enter
<1>2. \A v \in Workers : pc'[v] = "idle" \/ (pc'[v] = pc[v] /\ arg'[v] = arg[v] /\ owner # v)
  BY <1>1 DEF Inv, Types, Throw, Return, Enter
<1> QED
  BY <1>1, <1>2, UndoStep

LEMMA RestartStep == ASSUME Inv, Restart PROVE Inv' /\ Onwards
<1>1. Types' /\ db' = durable /\ durable' = durable
  BY DEF Inv, Types, Restart, Reopen
<1>2. \A v \in Workers : pc'[v] = "idle"
  BY DEF Restart
<1> QED
  BY <1>1, <1>2, UndoStep

\* A statement of t that alters nothing of what is promised.
LEMMA SameStep ==
    ASSUME Inv, NEW t \in Workers, NEW l, NEW a, NEW d \in Tables, NEW x,
           Execute(d, x), Enter(t, l, a), Fits(l, a), l \in Within => owner = t,
           \A i \in Id : Agree(d, db, i),
           l \in Posting => pc[t] \in Posting /\ a.i = arg[t].i,
           pc[t] \in Erasing <=> l \in Erasing,
           l \in Erasing => a.i = arg[t].i /\ l # "remove_links",
           \A u \in User : db.read[u] <= d.read[u]
    PROVE  Inv' /\ Onwards
<1>1. l \in Erasing \union Posting => a.i \in Id
  BY DEF Fits, Erasing, Posting, HoldsId
<1>2. l \in Erasing => Halfway(d, a.i, l)
  BY <1>1 DEF Inv, Knows, Halfway, Agree
<1>3. l \in Posting => d.msg[a.i].st = "live"
  BY <1>1 DEF Inv, Knows, Agree
<1> QED
  BY <1>2, <1>3, WriteStep

-----------------------------------------------------------------------------
(* What the statements make of the tables *)

LEMMA ReadsGrow == ASSUME Inv PROVE \A u \in User : db.read[u] \in 0..MaxMsg /\ db.read[u] <= db.read[u]
BY BoundsNat DEF Inv, Types, Tables

LEMMA ReadUpToTables ==
    ASSUME Inv, NEW u \in User, NEW i \in Id
    PROVE  /\ ReadUpTo(u, i) \in Tables
           /\ \A v \in User : db.read[v] <= ReadUpTo(u, i).read[v]
           /\ \A j \in Id : Agree(ReadUpTo(u, i), db, j)
<1>1. i \in 0..MaxMsg
  BY BoundsNat DEF Id
<1> QED
  BY <1>1, BoundsNat DEF Inv, Types, Tables, ReadUpTo, Agree

LEMMA RowTables ==
    ASSUME Inv, NEW i \in Id, NEW row \in Row
    PROVE  LET d == [db EXCEPT !.msg[i] = row] IN
           /\ d \in Tables /\ d.read = db.read /\ d.link = db.link /\ d.msg[i] = row
           /\ \A j \in Id \ {i} : Agree(d, db, j)
BY DEF Inv, Types, Tables, Agree

LEMMA Rows == ASSUME Inv, NEW i \in Id PROVE db.msg[i] \in Row
BY DEF Inv, Types, Tables

\* What an UPDATE makes of the row r.
LEMMA MentionsEdit ==
    ASSUME NEW r \in Row, NEW m \in SUBSET User
    PROVE  LET s == [r EXCEPT !.mentions = @ \union m] IN
           s \in Row /\ s.st = r.st /\ s.body = r.body /\ s.photo = r.photo
BY DEF Row

LEMMA BodyEdit ==
    ASSUME NEW r \in Row, NEW b \in Text \union {NoText}
    PROVE  LET s == [r EXCEPT !.body = b] IN s \in Row /\ s.st = r.st /\ s.photo = r.photo
BY DEF Row

LEMMA PhotoEdit ==
    ASSUME NEW r \in Row, NEW p \in BOOLEAN
    PROVE  LET s == [r EXCEPT !.photo = p] IN
           s \in Row /\ s.st = r.st /\ s.body = r.body /\ s.photo = p
BY DEF Row

LEMMA RemovedEdit ==
    ASSUME NEW r \in Row
    PROVE  LET s == [r EXCEPT !.st = "removed", !.body = NoText, !.pinned = FALSE] IN
           s \in Row /\ s.st = "removed" /\ s.body = NoText /\ s.photo = r.photo
BY DEF Row

\* An UPDATE that leaves state, text and photo of its message alone.
LEMMA UpdateStep ==
    ASSUME Inv, NEW t \in Workers, NEW l, NEW m, NEW i \in Id, NEW found, NEW row \in Row,
           Update(t, l, m, i, found, row),
           Fits(l, arg[t]) => Fits(m, arg[t]), l \in Within, m \notin Posting,
           m # "remove_links", l \in Erasing <=> m \in Erasing,
           row.st = db.msg[i].st, row.body = db.msg[i].body, row.photo = db.msg[i].photo
    PROVE  Inv' /\ Onwards
<1> DEFINE d == IF found THEN [db EXCEPT !.msg[i] = row] ELSE db
<1>1. pc[t] = l /\ Execute(d, found) /\ Enter(t, m, arg[t])
  BY GotoIsEnter DEF Update, Statement, At, Inv
<1>2. owner = t /\ Fits(m, arg[t])
  BY <1>1 DEF Inv, Knows
<1>3. d \in Tables /\ d.read = db.read /\ \A j \in Id : Agree(d, db, j)
  BY RowTables DEF Inv, Types, Agree
<1> HIDE DEF d
<1> QED
  BY <1>1, <1>2, <1>3, ReadsGrow, SameStep

\* What a thread at l may rely on.
LEMMA Standing ==
    ASSUME Inv, NEW t \in Workers, NEW l, At(t, l)
    PROVE  /\ pc[t] = l /\ Fits(l, arg[t]) /\ (l \in Within => owner = t)
           /\ l \in Erasing => Halfway(db, arg[t].i, l)
           /\ l \in Posting => db.msg[arg[t].i].st = "live"
           /\ l \in Within \ Erasing => \A i \in Id : Sound(db, i)
<1>1. pc[t] = l /\ Knows(t)
  BY DEF Inv, At
<1>2. ASSUME l \in Within \ Erasing, NEW i \in Id PROVE ~Erased(i)
  <2>1. owner = t
    BY <1>1, <1>2 DEF Knows
  <2> QED
    BY <1>1, <1>2, <2>1, Labelled DEF Inv, Knows, Erased
<1> QED
  BY <1>1, <1>2 DEF Inv, Knows

-----------------------------------------------------------------------------
(* One lemma for each kind of request *)

USE DEF HoldsUser, HoldsBody, HoldsId

LEMMA LoadStep ==
    ASSUME Inv, NEW t \in Workers, NEW l, NEW a, Load(t, l, a), Fits(l, a),
           l \notin Within
    PROVE  Inv' /\ Onwards
<1>1. pc[t] \notin Erasing /\ l \notin Erasing /\ l \notin Posting
  BY Labelled DEF Load, Idle, At
<1>2. Query /\ Enter(t, l, a)
  BY DEF Load
<1> QED
  BY <1>1, <1>2, QuietStep

LEMMA RequestsStep == ASSUME Inv, NEW t \in Workers, Requests(t) PROVE Inv' /\ Onwards
<1>1. ASSUME NEW u \in User, NEW body \in Text \union {NoText}, NEW photo \in BOOLEAN,
             Post(t, u, body, photo)
      PROVE  Inv' /\ Onwards
  <2>1. Fits("post_begin", [u |-> u, body |-> body, photo |-> photo])
    BY DEF Fits
  <2> QED
    BY <1>1, <2>1, LoadStep DEF Post, Within
<1>2. ASSUME NEW u \in User, NEW i \in Id, NEW body \in Text \union {NoText}, Edit(t, u, i, body)
      PROVE  Inv' /\ Onwards
  <2>1. Fits("edit_begin", [i |-> i, body |-> body])
    BY DEF Fits
  <2> QED
    BY <1>2, <2>1, LoadStep DEF Edit, Within
<1>3. ASSUME NEW u \in User, NEW i \in Id, Remove(t, u, i) PROVE Inv' /\ Onwards
  <2>1. Fits("remove_begin", [i |-> i])
    BY DEF Fits
  <2> QED
    BY <1>3, <2>1, LoadStep DEF Remove, Within
<1>4. ASSUME NEW u \in User, NEW i \in Id, NEW on \in BOOLEAN, React(t, u, i, on)
      PROVE  Inv' /\ Onwards
  <2>1. Fits("react_begin", [i |-> i, u |-> u, on |-> on])
    BY DEF Fits
  <2> QED
    BY <1>4, <2>1, LoadStep DEF React, Within
<1>5. ASSUME NEW i \in Id, Pin(t, i) \/ Unpin(t, i) PROVE Inv' /\ Onwards
  <2>1. Fits("pin_count", [i |-> i]) /\ Fits("unpin", [i |-> i])
    BY DEF Fits
  <2> QED
    BY <1>5, <2>1, LoadStep DEF Pin, Unpin, Within
<1>6. ASSUME NEW d \in Tables, NEW x, Request(t, d, x), \A i \in Id : Agree(d, db, i),
             \A u \in User : db.read[u] <= d.read[u]
      PROVE  Inv' /\ Onwards
  <2>1. pc[t] = "idle" /\ Execute(d, x) /\ Enter(t, "idle", arg[t])
    BY <1>6 DEF Request, Idle, At, Enter, Inv, Types
  <2> QED
    BY <1>6, <2>1, Labelled, SameStep
<1>7. ASSUME NEW u \in User, NEW i \in Id, MarkRead(t, u, i) PROVE Inv' /\ Onwards
  BY <1>6, <1>7, ReadUpToTables DEF MarkRead
<1>8. ASSUME NEW i \in Id, Clear(t, i) PROVE Inv' /\ Onwards
  <2> DEFINE d == [db EXCEPT !.msg[i].cleared = TRUE]
             row == [db.msg[i] EXCEPT !.cleared = TRUE]
  <2>1. d = [db EXCEPT !.msg[i] = row]
    OBVIOUS
  <2>2. row \in Row
    BY Rows DEF Row
  <2>3. row.st = db.msg[i].st /\ row.body = db.msg[i].body /\ row.photo = db.msg[i].photo
    BY Rows DEF Row
  <2> HIDE DEF row
  <2>4. d \in Tables /\ d.read = db.read /\ \A j \in Id : Agree(d, db, j)
    BY <2>1, <2>2, <2>3, RowTables DEF Agree
  <2> HIDE DEF d
  <2> QED
    BY <1>6, <1>8, <2>4, ReadsGrow DEF Clear, d
<1> QED
  BY <1>1, <1>2, <1>3, <1>4, <1>5, <1>7, <1>8 DEF Requests

LEMMA BeginsStep ==
    ASSUME Inv, NEW t \in Workers, PostBegin(t) \/ EditBegin(t) \/ RemoveBegin(t) \/ ReactBegin(t)
    PROVE  Inv' /\ Onwards
<1>1. CASE PostBegin(t)
  BY <1>1, BeginStep DEF PostBegin, Fits, Within, Erasing, Posting
<1>2. CASE EditBegin(t)
  BY <1>2, BeginStep DEF EditBegin, Fits, Within, Erasing, Posting
<1>3. CASE RemoveBegin(t)
  BY <1>3, BeginStep DEF RemoveBegin, Fits, Within, Erasing, Posting
<1>4. CASE ReactBegin(t)
  BY <1>4, BeginStep DEF ReactBegin, Fits, Within, Erasing, Posting
<1> QED
  BY <1>1, <1>2, <1>3, <1>4

LEMMA CommitsStep ==
    ASSUME Inv, NEW t \in Workers,
           PostCommit(t) \/ EditCommit(t) \/ RemoveCommit(t) \/ ReactCommit(t)
    PROVE  Inv' /\ Onwards
BY CommitStep DEF PostCommit, EditCommit, RemoveCommit, ReactCommit, Erasing

LEMMA RefusedStep == ASSUME Inv, NEW t \in Workers, Refused(t) PROVE Inv' /\ Onwards
<1>1. pc[t] \notin Erasing /\ Query /\ Enter(t, "idle", NoArg)
  BY DEF Refused, BeginRefused, BeginFails, Return, Erasing
<1> QED
  BY <1>1, QuietStep, Labelled

LEMMA BodiesName == ASSUME NEW b \in Text \union {NoText} PROVE Names[b] \subseteq User
BY TextNamesUsers

\* The steps that rewrite mentions or reactions of a message.
LEMMA UpdatesStep ==
    ASSUME Inv, NEW t \in Workers,
           EditClear(t) \/ EditMentions(t) \/ RemoveMentions(t) \/ RemoveReactions(t) \/ ReactWrite(t)
    PROVE  Inv' /\ Onwards
<1> DEFINE i == arg[t].i
           named(m) == [db.msg[i] EXCEPT !.mentions = m]
           felt(r) == [db.msg[i] EXCEPT !.reactions = r]
           same(row) == /\ row \in Row /\ row.st = db.msg[i].st
                        /\ row.body = db.msg[i].body /\ row.photo = db.msg[i].photo
<1>1. ASSUME i \in Id, NEW m \in SUBSET User PROVE same(named(m)) /\ same(felt(m))
  BY <1>1, Rows DEF Row
<1>2. ASSUME NEW l, NEW m, i \in Id, NEW found, NEW row, same(row), Update(t, l, m, i, found, row),
             <<l, m>> \in {<<"edit_clear", "edit_mentions">>, <<"edit_mentions", "edit_commit">>,
                           <<"remove_mentions", "remove_photo">>,
                           <<"remove_reactions", "remove_commit">>, <<"react_write", "react_touch">>}
      PROVE  Inv' /\ Onwards
  <2>1. /\ Fits(l, arg[t]) => Fits(m, arg[t])
        /\ l \in Within /\ m \notin Posting /\ m # "remove_links"
        /\ l \in Erasing <=> m \in Erasing
    BY <1>2 DEF Fits, Within, Erasing, Posting
  <2> QED
    BY <1>2, <2>1, UpdateStep
<1>3. CASE EditClear(t)
  <2>1. i \in Id
    BY <1>3, Standing DEF EditClear, Update, Statement, Fits
  <2>2. same(named({}))
    BY <1>1, <2>1
  <2> QED
    BY <1>3, <1>2, <2>1, <2>2 DEF EditClear
<1>4. CASE EditMentions(t)
  <2>1. i \in Id /\ arg[t].body \in Text \union {NoText}
    BY <1>4, Standing DEF EditMentions, Fits
  <2>2. db.msg[i].mentions \union Names[arg[t].body] \in SUBSET User
    BY <2>1, BodiesName, Rows DEF Row
  <2>3. same(named(db.msg[i].mentions \union Names[arg[t].body]))
    BY <1>1, <2>1, <2>2
  <2>4. CASE Throw(t, "edit_mentions")
    BY <2>4, ThrowStep
  <2> QED
    BY <1>4, <1>2, <2>1, <2>3, <2>4 DEF EditMentions
<1>5. CASE RemoveMentions(t)
  <2>1. i \in Id
    BY <1>5, Standing DEF RemoveMentions, Update, Statement, Fits
  <2>2. same(named({}))
    BY <1>1, <2>1
  <2> QED
    BY <1>5, <1>2, <2>1, <2>2 DEF RemoveMentions
<1>6. CASE RemoveReactions(t)
  <2>1. i \in Id
    BY <1>6, Standing DEF RemoveReactions, Update, Statement, Fits
  <2>2. same(felt({}))
    BY <1>1, <2>1
  <2> QED
    BY <1>6, <1>2, <2>1, <2>2 DEF RemoveReactions
<1>7. CASE ReactWrite(t)
  <2> DEFINE was == db.msg[i].reactions
             next == IF arg[t].on THEN was \union {arg[t].u} ELSE was \ {arg[t].u}
  <2>1. i \in Id /\ arg[t].u \in User
    BY <1>7, Standing DEF ReactWrite, Fits
  <2>2. next \in SUBSET User
    BY <2>1, Rows DEF Row
  <2>3. same(felt(next))
    BY <1>1, <2>1, <2>2
  <2>4. CASE Throw(t, "react_write")
    BY <2>4, ThrowStep
  <2>5. CASE Update(t, "react_write", "react_touch", i, next # was, felt(next))
    <3> HIDE DEF next
    <3> QED
      BY <1>2, <2>1, <2>3, <2>5
  <2> QED
    BY <1>7, <2>4, <2>5 DEF ReactWrite
<1> QED
  BY <1>3, <1>4, <1>5, <1>6, <1>7

\* A step inside t's transaction that alters nothing of what is promised.
LEMMA SameStatement ==
    ASSUME Inv, NEW t \in Workers, NEW l, NEW m, NEW d \in Tables, NEW x,
           Statement(t, l, m, d, x), Fits(l, arg[t]) => Fits(m, arg[t]), l \in Within,
           \A i \in Id : Agree(d, db, i), m \in Posting => l \in Posting,
           l \notin Erasing, m \notin Erasing, \A u \in User : db.read[u] <= d.read[u]
    PROVE  Inv' /\ Onwards
<1>1. Execute(d, x) /\ Enter(t, m, arg[t])
  BY GotoIsEnter DEF Statement, Inv
<1>2. pc[t] = l /\ owner = t /\ Fits(m, arg[t])
  BY Standing DEF Statement
<1> QED
  BY <1>1, <1>2, SameStep

LEMMA SameRow ==
    ASSUME Inv, NEW i \in Id, NEW row \in Row,
           row.st = db.msg[i].st, row.body = db.msg[i].body, row.photo = db.msg[i].photo
    PROVE  LET d == [db EXCEPT !.msg[i] = row] IN
           /\ d \in Tables /\ \A j \in Id : Agree(d, db, j)
           /\ \A u \in User : db.read[u] <= d.read[u]
BY RowTables, ReadsGrow DEF Agree

LEMMA SamesStep ==
    ASSUME Inv, NEW t \in Workers, ReactTouch(t) \/ PostMentions(t) \/ PostRead(t)
    PROVE  Inv' /\ Onwards
<1>1. CASE ReactTouch(t)
  <2>1. db \in Tables /\ \A i \in Id : Agree(db, db, i)
    BY DEF Inv, Types, Agree
  <2> QED
    BY <1>1, <2>1, ReadsGrow, SameStatement DEF ReactTouch, Fits, Within, Erasing, Posting
<1>2. CASE PostMentions(t)
  <2> DEFINE a == arg[t]
             row == [db.msg[a.i] EXCEPT !.mentions = @ \union Names[a.body]]
             d == [db EXCEPT !.msg[a.i].mentions = @ \union Names[a.body]]
             m == IF a.photo THEN "post_photo" ELSE "post_read"
  <2>1. a.i \in Id /\ a.body \in Text \union {NoText} /\ Statement(t, "post_mentions", m, d, Names[a.body] # {})
    BY <1>2, Standing DEF PostMentions, Statement, Fits
  <2>2. d = [db EXCEPT !.msg[a.i] = row]
    OBVIOUS
  <2>3. row \in Row /\ row.st = db.msg[a.i].st /\ row.body = db.msg[a.i].body
        /\ row.photo = db.msg[a.i].photo
    <3>1. db.msg[a.i] \in Row /\ Names[a.body] \in SUBSET User
      BY <2>1, Rows, BodiesName
    <3> HIDE DEF d, m
    <3> QED
      BY <3>1, MentionsEdit
  <2> HIDE DEF row
  <2>4. /\ d \in Tables /\ \A j \in Id : Agree(d, db, j)
        /\ \A u \in User : db.read[u] <= d.read[u]
    BY <2>1, <2>2, <2>3, SameRow
  <2>5. Fits("post_mentions", a) => Fits(m, a)
    BY DEF Fits
  <2> HIDE DEF d
  <2> QED
    BY <2>1, <2>4, <2>5, SameStatement DEF Within, Erasing, Posting
<1>3. CASE PostRead(t)
  <2>1. arg[t].u \in User /\ arg[t].i \in Id
    BY <1>3, Standing DEF PostRead, Statement, Fits
  <2> QED
    BY <1>3, <2>1, ReadUpToTables, SameStatement DEF PostRead, Fits, Within, Erasing, Posting
<1> QED
  BY <1>1, <1>2, <1>3

LEMMA PinsStep ==
    ASSUME Inv, NEW t \in Workers, PinCount(t) \/ PinUpdate(t) \/ UnpinUpdate(t)
    PROVE  Inv' /\ Onwards
<1>1. CASE PinCount(t)
  <2>1. PICK l, a : l \in {"idle", "pin_update"} /\ Query /\ Enter(t, l, a) /\ Fits(l, a)
    <3>1. CASE Return(t)
      BY <1>1, <3>1, Labelled DEF PinCount, Return
    <3>2. CASE Goto(t, "pin_update")
      BY <1>1, <3>2, GotoIsEnter, Standing DEF PinCount, Fits, Inv
    <3> QED
      BY <1>1, <3>1, <3>2 DEF PinCount
  <2>2. pc[t] = "pin_count"
    BY <1>1 DEF PinCount, At
  <2> QED
    BY <2>1, <2>2, QuietStep DEF Within, Erasing, Posting
<1>2. ASSUME NEW l \in {"pin_update", "unpin"}, NEW d \in Tables, NEW x, Finish(t, l, d, x),
             \A i \in Id : Agree(d, db, i), \A u \in User : db.read[u] <= d.read[u]
      PROVE  Inv' /\ Onwards
  <2>1. pc[t] = l /\ Execute(d, x) /\ Enter(t, "idle", NoArg)
    BY <1>2 DEF Finish, At, Return
  <2> QED
    BY <1>2, <2>1, Labelled, SameStep DEF Erasing
<1> DEFINE i == arg[t].i
           set(p) == [db EXCEPT !.msg[i].pinned = p]
           row(p) == [db.msg[i] EXCEPT !.pinned = p]
<1>3. ASSUME i \in Id, NEW p \in BOOLEAN
      PROVE  /\ set(p) \in Tables /\ \A j \in Id : Agree(set(p), db, j)
             /\ \A u \in User : db.read[u] <= set(p).read[u]
  <2>1. set(p) = [db EXCEPT !.msg[i] = row(p)]
    OBVIOUS
  <2>2. row(p) \in Row /\ row(p).st = db.msg[i].st /\ row(p).body = db.msg[i].body
        /\ row(p).photo = db.msg[i].photo
    BY <1>3, Rows DEF Row
  <2> HIDE DEF row
  <2> QED
    BY <1>3, <2>1, <2>2, SameRow
<1>4. db \in Tables /\ \A j \in Id : Agree(db, db, j)
  BY DEF Inv, Types, Agree
<1>5. CASE PinUpdate(t)
  <2>1. i \in Id
    BY <1>5, Standing DEF PinUpdate, Finish, Fits
  <2>2. (\E x : Finish(t, "pin_update", db, x)) \/ (\E x : Finish(t, "pin_update", set(TRUE), x))
    <3>1. CASE ~db.msg[i].pinned /\ ~Gone(i)
      BY <1>5, <3>1 DEF PinUpdate
    <3>2. CASE ~(~db.msg[i].pinned /\ ~Gone(i))
      BY <1>5, <3>2 DEF PinUpdate
    <3> QED
      BY <3>1, <3>2
  <2> HIDE DEF set
  <2> QED
    BY <1>2, <1>3, <1>4, <2>1, <2>2, ReadsGrow
<1>6. CASE UnpinUpdate(t)
  <2>1. i \in Id
    BY <1>6, Standing DEF UnpinUpdate, Finish, Fits
  <2>2. PICK x : Finish(t, "unpin", set(FALSE), x)
    BY <1>6 DEF UnpinUpdate
  <2> HIDE DEF set
  <2> QED
    BY <1>2, <1>3, <2>1, <2>2
<1> QED
  BY <1>1, <1>5, <1>6

-----------------------------------------------------------------------------
(* The statements that do alter what is promised *)

\* A statement of t, in its transaction, that may alter what is promised of k.
LEMMA OwnStatement ==
    ASSUME Inv, NEW t \in Workers, NEW l, NEW m, NEW a, NEW d \in Tables, NEW x, NEW k \in Id,
           At(t, l), Execute(d, x), Enter(t, m, a), Fits(m, a), l \in Within,
           l \in Erasing => arg[t].i = k, m \in Erasing \union Posting => a.i = k,
           m \in Erasing => Halfway(d, k, m), m \in Posting => d.msg[k].st = "live",
           Sound(d, k) \/ m \in Erasing,
           \A i \in Id \ {k} : Agree(d, db, i), d.read = db.read
    PROVE  Inv' /\ Onwards
<1>1. pc[t] = l /\ owner = t
  BY Standing
<1> QED
  BY <1>1, Labelled, ReadsGrow, WriteStep

LEMMA PostInsertStep == ASSUME Inv, NEW t \in Workers, PostInsert(t) PROVE Inv' /\ Onwards
<1> DEFINE b == arg[t]
           row == [NoRow EXCEPT !.st = "live", !.author = b.u, !.body = b.body]
           a(i) == [i |-> i, u |-> b.u, body |-> b.body, photo |-> b.photo]
<1>1. PICK i \in Id : /\ db.msg[i].st = "none" /\ Execute([db EXCEPT !.msg[i] = row], TRUE)
                      /\ Enter(t, "post_mentions", a(i))
  BY DEF PostInsert
<1>2. b.u \in User /\ b.body \in Text \union {NoText} /\ Sound(db, i)
  BY Standing DEF PostInsert, Fits, Within, Erasing
<1>3. row \in Row /\ row.st = "live" /\ ~row.photo
  BY <1>2 DEF Row, NoRow
<1> DEFINE d == [db EXCEPT !.msg[i] = row]
<1> HIDE DEF row
<1>4. /\ d \in Tables /\ d.read = db.read /\ d.link = db.link /\ d.msg[i] = row
      /\ \A j \in Id \ {i} : Agree(d, db, j)
  BY <1>3, RowTables
<1>5. Sound(d, i) /\ d.msg[i].st = "live"
  BY <1>1, <1>2, <1>3, <1>4 DEF Sound
<1>6. Fits("post_mentions", a(i)) /\ a(i).i = i
  BY <1>2 DEF Fits
<1>7. At(t, "post_insert") /\ Execute(d, TRUE)
  BY <1>1 DEF PostInsert
<1>8. "post_insert" \in Within \ Erasing /\ "post_mentions" \notin Erasing
  BY DEF Within, Erasing
<1> HIDE DEF d, a
<1> QED
  BY <1>1, <1>4, <1>5, <1>6, <1>7, <1>8, OwnStatement

LEMMA PostPhotoStep == ASSUME Inv, NEW t \in Workers, PostPhoto(t) PROVE Inv' /\ Onwards
<1> DEFINE i == arg[t].i
           row == [db.msg[i] EXCEPT !.photo = TRUE]
           d == [db EXCEPT !.msg[i].photo = TRUE, !.link[i] = TRUE]
<1>1. CASE Throw(t, "post_photo")
  BY <1>1, ThrowStep
<1>2. CASE Statement(t, "post_photo", "post_read", d, TRUE)
  <2>1. i \in Id /\ db.msg[i].st = "live" /\ Fits("post_photo", arg[t])
    BY Standing DEF PostPhoto, Fits, Posting
  <2>2. row \in Row /\ row.st = db.msg[i].st /\ row.photo
    BY <2>1, Rows, PhotoEdit
  <2> DEFINE e == [db EXCEPT !.msg[i] = row]
  <2>3. d = [e EXCEPT !.link[i] = TRUE]
    BY DEF Inv, Types, Tables
  <2> HIDE DEF row
  <2>4. /\ e \in Tables /\ e.read = db.read /\ e.msg[i] = row
        /\ \A j \in Id \ {i} : Agree(e, db, j)
    BY <2>1, <2>2, RowTables
  <2> HIDE DEF e
  <2> DEFINE link == [db.link EXCEPT ![i] = TRUE]
  <2>5. /\ d \in Tables /\ d.read = db.read /\ d.msg[i] = row /\ d.link[i] = TRUE
        /\ \A j \in Id \ {i} : Agree(d, db, j)
    <3>1. link \in [Id -> BOOLEAN] /\ link[i] = TRUE /\ \A j \in Id \ {i} : link[j] = db.link[j]
      BY <2>1 DEF Inv, Types, Tables
    <3>2. e.link = db.link
      BY <2>1, <2>2, RowTables DEF e
    <3>3. d \in Tables /\ d.msg = e.msg /\ d.read = e.read /\ d.link = link
      BY <2>3, <2>4, <3>1, <3>2 DEF Tables
    <3> HIDE DEF d, link
    <3> QED
      BY <2>4, <3>1, <3>3 DEF Agree
  <2> HIDE DEF d
  <2>6. Sound(d, i)
    BY <2>1, <2>2, <2>5 DEF Sound
  <2>7. Fits("post_read", arg[t])
    BY <2>1 DEF Fits
  <2>8. At(t, "post_photo") /\ Execute(d, TRUE) /\ Enter(t, "post_read", arg[t])
    BY <1>2, GotoIsEnter DEF Statement, Inv
  <2> QED
    BY <2>1, <2>5, <2>6, <2>7, <2>8, OwnStatement DEF Within, Erasing, Posting
<1> QED
  BY <1>1, <1>2 DEF PostPhoto

\* An UPDATE that alters what is promised of its message.
LEMMA OwnUpdate ==
    ASSUME Inv, NEW t \in Workers, NEW l, NEW m, NEW found, NEW row \in Row,
           Update(t, l, m, arg[t].i, found, row), l \in HoldsId,
           Fits(l, arg[t]) => Fits(m, arg[t]), l \in Within, m \notin Posting,
           \/ ~found /\ IF m \in Erasing THEN Halfway(db, arg[t].i, m) ELSE Sound(db, arg[t].i)
           \/ LET d == [db EXCEPT !.msg[arg[t].i] = row] IN
              found /\ IF m \in Erasing THEN Halfway(d, arg[t].i, m) ELSE Sound(d, arg[t].i)
    PROVE  Inv' /\ Onwards
<1> DEFINE i == arg[t].i
           d == IF found THEN [db EXCEPT !.msg[i] = row] ELSE db
<1>1. At(t, l) /\ Execute(d, found) /\ Enter(t, m, arg[t])
  BY GotoIsEnter DEF Update, Statement, Inv
<1>2. Fits(m, arg[t]) /\ i \in Id
  BY <1>1, Standing DEF Fits
<1>3. d \in Tables /\ d.read = db.read /\ \A j \in Id \ {i} : Agree(d, db, j)
  BY <1>2, RowTables DEF Inv, Types, Agree
<1>4. IF m \in Erasing THEN Halfway(d, i, m) ELSE Sound(d, i)
  OBVIOUS
<1> HIDE DEF d
<1> QED
  BY <1>1, <1>2, <1>3, <1>4, OwnStatement

LEMMA EditUpdateStep == ASSUME Inv, NEW t \in Workers, EditUpdate(t) PROVE Inv' /\ Onwards
<1> DEFINE i == arg[t].i
           row == [db.msg[i] EXCEPT !.body = arg[t].body]
<1>1. i \in Id /\ arg[t].body \in Text \union {NoText} /\ Sound(db, i)
  BY Standing DEF EditUpdate, Update, Statement, Fits, Within, Erasing
<1>2. row \in Row /\ row.st = db.msg[i].st /\ row.photo = db.msg[i].photo
  <2>1. db.msg[i] \in Row
    BY <1>1, Rows
  <2> QED
    BY <1>1, <2>1, BodyEdit
<1>3. Update(t, "edit_update", "edit_clear", i, Live(i), row)
  BY DEF EditUpdate
<1> HIDE DEF row
<1>4. Live(i) => Sound([db EXCEPT !.msg[i] = row], i)
  BY <1>1, <1>2, RowTables DEF Sound, Live
<1>5. /\ Fits("edit_update", arg[t]) => Fits("edit_clear", arg[t])
      /\ "edit_update" \in HoldsId \intersect Within
      /\ "edit_clear" \notin Posting /\ "edit_clear" \notin Erasing
  BY DEF Fits, Within, Erasing, Posting
<1> QED
  BY <1>1, <1>2, <1>3, <1>4, <1>5, OwnUpdate

LEMMA RemoveUpdateStep == ASSUME Inv, NEW t \in Workers, RemoveUpdate(t) PROVE Inv' /\ Onwards
<1> DEFINE i == arg[t].i
           row == [db.msg[i] EXCEPT !.st = "removed", !.body = NoText, !.pinned = FALSE]
<1>1. i \in Id /\ Sound(db, i)
  BY Standing DEF RemoveUpdate, Update, Statement, Fits, Within, Erasing
<1>2. row \in Row /\ row.st = "removed" /\ row.body = NoText /\ row.photo = db.msg[i].photo
  BY <1>1, Rows, RemovedEdit
<1>3. Update(t, "remove_update", "remove_changes", i, Live(i), row)
  BY DEF RemoveUpdate
<1> HIDE DEF row
<1>4. Live(i) => Halfway([db EXCEPT !.msg[i] = row], i, "remove_changes")
  BY <1>1, <1>2, RowTables DEF Sound, Halfway, Live
<1>5. ~Live(i) => Halfway(db, i, "remove_changes")
  BY <1>1 DEF Sound, Halfway, Live
<1>6. /\ Fits("remove_update", arg[t]) => Fits("remove_changes", arg[t])
      /\ "remove_update" \in HoldsId \intersect Within
      /\ "remove_changes" \notin Posting /\ "remove_changes" \in Erasing
  BY DEF Fits, Within, Erasing, Posting
<1> QED
  BY <1>1, <1>2, <1>3, <1>4, <1>5, <1>6, OwnUpdate

LEMMA RemoveChangesStep == ASSUME Inv, NEW t \in Workers, RemoveChanges(t) PROVE Inv' /\ Onwards
<1>1. CASE Throw(t, "remove_changes")
  BY <1>1, ThrowStep
<1>2. CASE Query /\ Goto(t, "remove_mentions")
  <2>1. pc[t] = "remove_changes" /\ owner = t /\ Fits("remove_mentions", arg[t])
    BY Standing DEF RemoveChanges, Fits, Within
  <2>2. Enter(t, "remove_mentions", arg[t])
    BY <1>2, GotoIsEnter DEF Inv
  <2> QED
    BY <1>2, <2>1, <2>2, QuietStep DEF Within, Erasing, Posting
<1> QED
  BY <1>1, <1>2 DEF RemoveChanges

LEMMA RemovePhotoStep == ASSUME Inv, NEW t \in Workers, RemovePhoto(t) PROVE Inv' /\ Onwards
<1> DEFINE i == arg[t].i
           hit == db.msg[i].photo /\ db.link[i]
           d == IF hit THEN [db EXCEPT !.link[i] = FALSE] ELSE db
<1>1. /\ At(t, "remove_photo") /\ Execute(d, hit) /\ Enter(t, "remove_links", arg[t])
  BY GotoIsEnter DEF RemovePhoto, Statement, Inv
<1>2. i \in Id /\ Halfway(db, i, "remove_photo") /\ Fits("remove_links", arg[t])
  BY <1>1, Standing DEF Fits, Erasing
<1>3. d \in Tables /\ d.read = db.read /\ \A j \in Id \ {i} : Agree(d, db, j)
  BY <1>2 DEF Inv, Types, Tables, Agree
<1>4. Halfway(d, i, "remove_links")
  BY <1>2 DEF Inv, Types, Tables, Halfway
<1> HIDE DEF d, hit
<1> QED
  BY <1>1, <1>2, <1>3, <1>4, OwnStatement DEF Within, Erasing, Posting

LEMMA RemoveLinksStep == ASSUME Inv, NEW t \in Workers, RemoveLinks(t) PROVE Inv' /\ Onwards
<1> DEFINE i == arg[t].i
           row == [db.msg[i] EXCEPT !.photo = FALSE]
<1>1. i \in Id /\ Halfway(db, i, "remove_links")
  BY Standing DEF RemoveLinks, Update, Statement, Fits, Erasing
<1>2. row \in Row /\ row.st = db.msg[i].st /\ row.body = db.msg[i].body /\ ~row.photo
  BY <1>1, Rows, PhotoEdit
<1>3. Update(t, "remove_links", "remove_reactions", i, db.msg[i].photo, row)
  BY DEF RemoveLinks
<1> HIDE DEF row
<1>4. Sound([db EXCEPT !.msg[i] = row], i) /\ (~db.msg[i].photo => Sound(db, i))
  BY <1>1, <1>2, RowTables DEF Sound, Halfway
<1>5. /\ Fits("remove_links", arg[t]) => Fits("remove_reactions", arg[t])
      /\ "remove_links" \in HoldsId \intersect Within
      /\ "remove_reactions" \notin Posting /\ "remove_reactions" \notin Erasing
  BY DEF Fits, Within, Erasing, Posting
<1> QED
  BY <1>1, <1>2, <1>3, <1>4, <1>5, OwnUpdate

-----------------------------------------------------------------------------
(* The specification *)

LEMMA NextStep == ASSUME Inv, Next PROVE Inv' /\ Onwards
<1>1. CASE Restart
  BY <1>1, RestartStep
<1>2. ASSUME NEW t \in Workers, Requests(t) PROVE Inv' /\ Onwards
  BY <1>2, RequestsStep
<1>3. ASSUME NEW t \in Workers, Steps(t) PROVE Inv' /\ Onwards
  BY <1>3, BeginsStep, CommitsStep, RefusedStep, UpdatesStep, SamesStep, PinsStep,
     PostInsertStep, PostPhotoStep, EditUpdateStep, RemoveUpdateStep, RemoveChangesStep,
     RemovePhotoStep, RemoveLinksStep DEF Steps
<1> QED
  BY <1>1, <1>2, <1>3 DEF Next

LEMMA StutterStep == ASSUME Inv, UNCHANGED vars PROVE Inv' /\ Onwards
<1>1. UNCHANGED <<db, durable, owner, chg, pc, arg>>
  BY DEF vars, server, conn
<1>2. Onwards
  BY <1>1, BoundsNat DEF Inv, Types, Tables, Onwards
<1> QED
  BY <1>1, <1>2 DEF Inv, Types, Knows, Halfway, Sound, Erased

\* The invariant: every thread holds what its step needs, a removal half done
\* is inside its transaction, and everything else keeps the promise.
THEOREM Invariant == Spec => []Inv
<1>1. Init => Inv
  BY InitInv
<1>2. Inv /\ [Next]_vars => Inv'
  BY NextStep, StutterStep
<1> QED
  BY <1>1, <1>2, PTL DEF Spec

\* "Its text is overwritten": no edit, however it overlaps the removal, leaves
\* text or a photo on a message whose removal is committed.
THEOREM RemovalErases == Spec => []RemovedIsErased
<1>1. Inv => RemovedIsErased
  BY DEF Inv, Sound, RemovedIsErased
<1> QED
  BY <1>1, Invariant, PTL

\* "Photos posted with it were made for it": the link made for a message's
\* photo is good exactly while the message carries it.
THEOREM LinksFollowPhotos == Spec => []PhotoLinkFollows
<1>1. Inv => PhotoLinkFollows
  BY DEF Inv, Sound, PhotoLinkFollows
<1> QED
  BY <1>1, Invariant, PTL

\* "Never moves backwards": no step, rollback or restart takes a committed
\* read marker back.
THEOREM MarkersAdvance == Spec => ReadNeverBack
<1>1. Inv /\ [Next]_vars => [\A u \in User : durable'.read[u] >= durable.read[u]]_vars
  <2>1. ASSUME Inv, Next PROVE \A u \in User : durable'.read[u] >= durable.read[u]
    <3>1. Inv' /\ Onwards
      BY <2>1, NextStep
    <3>2. \A u \in User : durable.read[u] \in Nat /\ durable'.read[u] \in Nat
      BY <2>1, <3>1, BoundsNat DEF Inv, Types, Tables
    <3> QED
      BY <3>1, <3>2 DEF Onwards
  <2> QED
    BY <2>1
<1> QED
  BY <1>1, Invariant, PTL DEF Spec, ReadNeverBack

-----------------------------------------------------------------------------
(* Requests one by one: what is left of a removed message *)

\* Steps of a removal that has not erased everything, and those of handlers
\* that go by a message being there.
Leaving == {"remove_changes", "remove_mentions", "remove_photo", "remove_links", "remove_reactions"}
Needing == {"post_mentions", "post_photo", "edit_begin", "edit_update", "edit_clear", "edit_mentions",
            "remove_begin", "remove_update", "react_begin", "react_write", "pin_count", "pin_update"}

Bare(row) == row.reactions = {} /\ row.mentions = {} /\ ~row.pinned

\* Of a message that is not there nothing is left in the tables d.
Nothing(d, i) == d.msg[i].st # "live" => Bare(d.msg[i])

\* Of the row it erases a removal at l has unpinned it, and then forgotten whom
\* it mentioned.
Half(row, l) == ~row.pinned /\ (l \notin {"remove_changes", "remove_mentions"} => row.mentions = {})

\* The tables d, for a handler at l that holds a and is alone.
Careful(l, a, d) ==
    /\ l \in Needing => d.msg[a.i].st = "live"
    /\ l \in Leaving => Half(d.msg[a.i], l)
    /\ \A i \in Id : Nothing(d, i) \/ (l \in Leaving /\ a.i = i)

OneByOne ==
    ~overlapped =>
        /\ \A t, v \in Workers : ~Idle(t) /\ ~Idle(v) => t = v
        /\ \A i \in Id : Nothing(durable, i)
        /\ \A t \in Workers : Alone(t) => Careful(pc[t], arg[t], db)

LEMMA OneByOneInit == Init => OneByOne
<1> SUFFICES ASSUME Init PROVE OneByOne
  OBVIOUS
<1>1. \A i \in Id : db.msg[i] = NoRow /\ durable.msg[i] = NoRow
  BY DEF Init, HandlersInit
<1>2. \A i \in Id : Nothing(db, i) /\ Nothing(durable, i)
  BY <1>1 DEF Nothing, Bare, NoRow
<1>3. \A t \in Workers : pc[t] = "idle"
  BY DEF Init, HandlersInit
<1> QED
  BY <1>2, <1>3 DEF OneByOne, Careful, Needing, Leaving, Idle, At

LEMMA LeavingWithin == Leaving \subseteq Within /\ Leaving \intersect Needing = {}
                       /\ Leaving \union Needing \subseteq HoldsId /\ "idle" \notin Leaving \union Needing
BY DEF Leaving, Needing, Within

\* A step of t, which is alone, to l with a.
LEMMA AloneStep ==
    ASSUME Inv, NEW t \in Workers, Alone(t), NEW l, NEW a, Enter(t, l, a),
           Careful(l, a, db'), \A i \in Id : Nothing(durable', i)
    PROVE  OneByOne'
<1>1. pc'[t] = l /\ arg'[t] = a /\ \A v \in Workers \ {t} : pc'[v] = "idle"
  BY DEF Inv, Types, Enter, Alone, Idle, At
<1>2. ASSUME NEW v \in Workers, Alone(v)' PROVE Careful(pc'[v], arg'[v], db')
  <2>1. CASE v = t
    BY <1>1, <2>1
  <2>2. CASE v # t
    <3>1. l = "idle" /\ pc'[v] = "idle"
      BY <1>1, <1>2, <2>2 DEF Alone, Idle, At
    <3> QED
      BY <3>1, LeavingWithin DEF Careful
  <2> QED
    BY <2>1, <2>2
<1> QED
  BY <1>1, <1>2 DEF OneByOne, Idle, At

\* What a handler that is alone may rely on.
LEMMA AloneNow ==
    ASSUME Inv, OneByOne, ~overlapped, NEW t \in Workers, Alone(t)
    PROVE  Careful(pc[t], arg[t], db) /\ \A i \in Id : Nothing(durable, i)
BY DEF OneByOne

LEMMA AloneWrite ==
    ASSUME Inv, Inv', OneByOne, ~overlapped, NEW t \in Workers, Alone(t), NEW l, NEW a, NEW d, NEW x,
           Execute(d, x), Enter(t, l, a), Careful(l, a, d)
    PROVE  OneByOne'
<1>1. db' = d /\ owner' = owner /\ durable' = IF owner = NoOwner THEN d ELSE durable
  BY DEF Execute
<1>2. pc'[t] = l
  BY DEF Inv, Types, Enter
<1>3. owner = NoOwner => l \notin Leaving
  BY <1>1, <1>2, LeavingWithin, WorkersApart DEF Inv, Knows
<1>4. \A i \in Id : Nothing(durable', i)
  BY <1>1, <1>3, AloneNow DEF Careful
<1> QED
  BY <1>1, <1>4, AloneStep

LEMMA AloneQuiet ==
    ASSUME Inv, OneByOne, ~overlapped, NEW t \in Workers, Alone(t), NEW l, NEW a,
           UNCHANGED <<db, durable>>, Enter(t, l, a), Careful(l, a, db)
    PROVE  OneByOne'
BY AloneNow, AloneStep

LEMMA AloneThrow ==
    ASSUME Inv, OneByOne, ~overlapped, NEW t \in Workers, Alone(t), NEW l, Throw(t, l)
    PROVE  OneByOne'
<1>1. db' = durable /\ durable' = durable /\ Enter(t, "idle", NoArg)
  BY DEF Throw, Rollback, Return
<1>2. Careful("idle", NoArg, durable)
  BY AloneNow, LeavingWithin DEF Careful
<1> QED
  BY <1>1, <1>2, AloneNow, AloneStep

\* What is Careful after message i's row became r.
LEMMA RowCareful ==
    ASSUME Inv, NEW l, NEW a, NEW m, NEW b, NEW i \in Id, NEW r \in Row,
           Fits(m, b), Careful(l, a, db), l \in Leaving => a.i = i,
           m \in Needing => b.i = i /\ r.st = "live",
           m \in Leaving => b.i = i /\ Half(r, m),
           r.st = "live" \/ Bare(r) \/ m \in Leaving
    PROVE  Careful(m, b, [db EXCEPT !.msg[i] = r])
<1> DEFINE d == [db EXCEPT !.msg[i] = r]
<1>1. d.msg[i] = r /\ \A j \in Id \ {i} : d.msg[j] = db.msg[j]
  BY DEF Inv, Types, Tables
<1> HIDE DEF d
<1>2. ASSUME NEW j \in Id \ {i} PROVE Nothing(d, j)
  BY <1>1, <1>2 DEF Careful, Nothing
<1>3. Nothing(d, i) \/ (m \in Leaving /\ b.i = i)
  BY <1>1 DEF Nothing
<1>4. Careful(m, b, d)
  BY <1>1, <1>2, <1>3 DEF Careful
<1> QED
  BY <1>4 DEF d

\* A statement that no row of messages changes by.
LEMMA SameCareful ==
    ASSUME NEW l, NEW a, NEW m, NEW d, Careful(l, a, db), d.msg = db.msg,
           m \in Needing => l \in Needing, m \in Leaving <=> l \in Leaving,
           m \in Leaving /\ l \in {"remove_changes", "remove_mentions"} =>
               m \in {"remove_changes", "remove_mentions"}
    PROVE  Careful(m, a, d)
BY DEF Careful, Nothing, Half

LEMMA AloneUpdate ==
    ASSUME Inv, Inv', OneByOne, ~overlapped, NEW t \in Workers, Alone(t), arg[t].i \in Id,
           NEW l, NEW m, NEW found, NEW row \in Row, Update(t, l, m, arg[t].i, found, row),
           found \/ row = db.msg[arg[t].i],
           m \in Needing => row.st = "live", m \in Leaving => Half(row, m),
           row.st = "live" \/ Bare(row) \/ m \in Leaving
    PROVE  OneByOne'
<1> DEFINE i == arg[t].i
           d == IF found THEN [db EXCEPT !.msg[i] = row] ELSE db
<1>1. pc[t] = l /\ Execute(d, found) /\ Enter(t, m, arg[t])
  BY GotoIsEnter DEF Update, Statement, At, Inv
<1>2. d = [db EXCEPT !.msg[i] = row]
  BY DEF Inv, Types, Tables
<1>3. Careful(l, arg[t], db)
  BY <1>1, AloneNow
<1>4. pc'[t] = m /\ arg'[t] = arg[t] /\ Fits(m, arg[t])
  BY <1>1 DEF Inv, Types, Enter, Knows
<1>5. Careful(m, arg[t], [db EXCEPT !.msg[i] = row])
  BY <1>3, <1>4, RowCareful
<1> HIDE DEF d
<1> QED
  BY <1>1, <1>2, <1>5, AloneWrite

\* A handler at l, alone: what its message is.
LEMMA AloneAt ==
    ASSUME Inv, OneByOne, ~overlapped, NEW t \in Workers, Alone(t), NEW l, At(t, l)
    PROVE  /\ pc[t] = l /\ Careful(l, arg[t], db) /\ Fits(l, arg[t])
           /\ l \in Leaving \union Needing => arg[t].i \in Id /\ db.msg[arg[t].i] \in Row
           /\ l \in Needing => db.msg[arg[t].i].st = "live"
           /\ l \in Leaving => Half(db.msg[arg[t].i], l)
<1>1. pc[t] = l /\ Careful(l, arg[t], db) /\ Fits(l, arg[t])
  BY AloneNow, Standing DEF At
<1>2. l \in Leaving \union Needing => arg[t].i \in Id
  BY <1>1, LeavingWithin DEF Fits
<1> QED
  BY <1>1, <1>2, Rows DEF Careful

LEMMA AloneRequests ==
    ASSUME Inv, Inv', OneByOne, ~overlapped, NEW t \in Workers, Alone(t), Requests(t)
    PROVE  OneByOne'
<1>1. pc[t] = "idle" => Careful("idle", arg[t], db) /\ \A i \in Id : Nothing(db, i)
  BY AloneNow, LeavingWithin DEF Careful
<1>2. ASSUME NEW l, NEW a, Load(t, l, a), l \notin Leaving, l \in Needing => Live(a.i)
      PROVE  OneByOne'
  <2>1. pc[t] = "idle" /\ UNCHANGED <<db, durable>> /\ Enter(t, l, a)
    BY <1>2 DEF Load, Idle, At, Query, conn
  <2> QED
    BY <1>1, <1>2, <2>1, AloneQuiet DEF Careful, Live
<1>3. ASSUME NEW d, NEW x, Request(t, d, x), \A i \in Id : Nothing(d, i) PROVE OneByOne'
  <2>1. pc[t] = "idle" /\ Execute(d, x) /\ Enter(t, "idle", arg[t])
    BY <1>3 DEF Request, Idle, At, Enter, Inv, Types
  <2>2. Careful("idle", arg[t], d)
    BY <1>3, LeavingWithin DEF Careful
  <2> QED
    BY <2>1, <2>2, AloneWrite
<1>4. ASSUME NEW u \in User, NEW body \in Text \union {NoText}, NEW photo \in BOOLEAN, Post(t, u, body, photo)
      PROVE  OneByOne'
  BY <1>2, <1>4 DEF Post, Leaving, Needing
<1>5. ASSUME NEW l \in {"edit_begin", "remove_begin", "react_begin", "pin_count", "unpin"},
             NEW i \in Id, NEW a, a.i = i, Live(i), Load(t, l, a)
      PROVE  OneByOne'
  BY <1>2, <1>5 DEF Leaving
<1>6. ASSUME NEW u \in User, NEW i \in Id, NEW body \in Text \union {NoText}, Edit(t, u, i, body)
      PROVE  OneByOne'
  BY <1>5, <1>6 DEF Edit
<1>7. ASSUME NEW u \in User, NEW i \in Id, Remove(t, u, i) PROVE OneByOne'
  BY <1>5, <1>7 DEF Remove
<1>8. ASSUME NEW u \in User, NEW i \in Id, NEW on \in BOOLEAN, React(t, u, i, on) PROVE OneByOne'
  BY <1>5, <1>8 DEF React
<1>9. ASSUME NEW i \in Id, Pin(t, i) \/ Unpin(t, i) PROVE OneByOne'
  BY <1>5, <1>9 DEF Pin, Unpin
<1>10. ASSUME NEW u \in User, NEW i \in Id, MarkRead(t, u, i) PROVE OneByOne'
  <2>1. ReadUpTo(u, i).msg = db.msg
    BY DEF ReadUpTo, Inv, Types, Tables
  <2>2. pc[t] = "idle"
    BY <1>10 DEF MarkRead, Request, Idle, At
  <2> QED
    BY <1>1, <1>3, <1>10, <2>1, <2>2 DEF MarkRead, Nothing
<1>11. ASSUME NEW i \in Id, Clear(t, i) PROVE OneByOne'
  <2> DEFINE row == [db.msg[i] EXCEPT !.cleared = TRUE]
             d == [db EXCEPT !.msg[i].cleared = TRUE]
  <2>1. d.msg[i] = row /\ \A j \in Id \ {i} : d.msg[j] = db.msg[j]
    BY DEF Inv, Types, Tables
  <2>2. row.st = db.msg[i].st /\ row.reactions = db.msg[i].reactions
        /\ row.mentions = db.msg[i].mentions /\ row.pinned = db.msg[i].pinned
    BY Rows DEF Row
  <2>3. Request(t, d, TRUE) /\ pc[t] = "idle"
    BY <1>11 DEF Clear, Request, Idle, At
  <2> HIDE DEF d, row
  <2>4. \A j \in Id : Nothing(d, j)
    BY <1>1, <2>1, <2>2, <2>3 DEF Nothing, Bare
  <2> QED
    BY <1>3, <2>3, <2>4
<1> QED
  BY <1>4, <1>6, <1>7, <1>8, <1>9, <1>10, <1>11 DEF Requests

\* BEGIN, COMMIT and the refusals.
LEMMA AloneBrackets ==
    ASSUME Inv, OneByOne, ~overlapped, NEW t \in Workers, Alone(t),
           \/ PostBegin(t) \/ EditBegin(t) \/ RemoveBegin(t) \/ ReactBegin(t) \/ Refused(t)
           \/ PostCommit(t) \/ EditCommit(t) \/ RemoveCommit(t) \/ ReactCommit(t)
    PROVE  OneByOne'
<1>1. ASSUME NEW l \in {"post_begin", "edit_begin", "remove_begin", "react_begin"}, NEW m, BeginAt(t, l, m),
             m \in Needing => l \in Needing, m \notin Leaving
      PROVE  OneByOne'
  <2>1. At(t, l) /\ UNCHANGED <<db, durable>> /\ Enter(t, m, arg[t])
    BY <1>1, GotoIsEnter DEF BeginAt, Begin, Inv
  <2>2. Careful(l, arg[t], db) /\ l \notin Leaving
    BY <2>1, AloneAt DEF Leaving
  <2>3. Careful(m, arg[t], db)
    BY <1>1, <2>2 DEF Careful
  <2> QED
    BY <2>1, <2>3, AloneQuiet
<1>2. ASSUME NEW l, CommitAt(t, l), l \notin Leaving PROVE OneByOne'
  <2>1. At(t, l) /\ db' = db /\ durable' = db /\ Enter(t, "idle", NoArg)
    BY <1>2 DEF CommitAt, Commit, Return
  <2>2. \A i \in Id : Nothing(db, i)
    BY <1>2, <2>1, AloneAt DEF Careful
  <2>3. Careful("idle", NoArg, db)
    BY <2>2, LeavingWithin DEF Careful
  <2> QED
    BY <2>1, <2>2, <2>3, AloneStep
<1>3. CASE PostBegin(t) \/ EditBegin(t) \/ RemoveBegin(t) \/ ReactBegin(t)
  BY <1>1, <1>3 DEF PostBegin, EditBegin, RemoveBegin, ReactBegin, Needing, Leaving
<1>4. CASE PostCommit(t) \/ EditCommit(t) \/ RemoveCommit(t) \/ ReactCommit(t)
  BY <1>2, <1>4 DEF PostCommit, EditCommit, RemoveCommit, ReactCommit, Leaving
<1>5. CASE Refused(t)
  <2>1. UNCHANGED <<db, durable>> /\ Enter(t, "idle", NoArg) /\ pc[t] \notin Leaving
    BY <1>5 DEF Refused, BeginRefused, BeginFails, Query, conn, Return, Leaving
  <2>2. Careful("idle", NoArg, db)
    BY <2>1, AloneNow, LeavingWithin DEF Careful
  <2> QED
    BY <2>1, <2>2, AloneQuiet
<1> QED
  BY <1>3, <1>4, <1>5

\* What is written of a message that is there.
LEMMA AloneOnLive ==
    ASSUME Inv, Inv', OneByOne, ~overlapped, NEW t \in Workers, Alone(t),
           \/ PostMentions(t) \/ EditUpdate(t) \/ EditClear(t) \/ EditMentions(t) \/ ReactWrite(t)
    PROVE  OneByOne'
<1> DEFINE i == arg[t].i
           r == db.msg[i]
<1>1. ASSUME NEW l \in Needing, NEW m, NEW found, NEW row \in Row, Update(t, l, m, i, found, row),
             found \/ row = r, row.st = r.st, m \notin Leaving
      PROVE  OneByOne'
  <2>1. i \in Id /\ r.st = "live"
    BY <1>1, AloneAt DEF Update, Statement
  <2> QED
    BY <1>1, <2>1, AloneUpdate
<1>2. ASSUME NEW l \in Needing, At(t, l) PROVE i \in Id /\ r \in Row /\ r.st = "live" /\ Fits(l, arg[t])
  BY <1>2, AloneAt
<1>3. ASSUME r \in Row, NEW M \in SUBSET User
      PROVE  /\ [r EXCEPT !.mentions = M] \in Row /\ [r EXCEPT !.mentions = M].st = r.st
             /\ r.mentions = M => [r EXCEPT !.mentions = M] = r
             /\ [r EXCEPT !.reactions = M] \in Row /\ [r EXCEPT !.reactions = M].st = r.st
             /\ r.reactions = M => [r EXCEPT !.reactions = M] = r
  BY <1>3 DEF Row
<1>4. CASE PostMentions(t)
  <2> DEFINE a == arg[t]
             m == IF a.photo THEN "post_photo" ELSE "post_read"
             M == r.mentions \union Names[a.body]
             row == [r EXCEPT !.mentions = M]
  <2>1. i \in Id /\ r \in Row /\ a.body \in Text \union {NoText} /\ At(t, "post_mentions")
    BY <1>2, <1>4 DEF PostMentions, Statement, Needing, Fits
  <2>2. Names[a.body] \in SUBSET User /\ M \in SUBSET User
    BY <2>1, BodiesName DEF Row
  <2>3. row \in Row /\ row.st = r.st /\ (Names[a.body] = {} => row = r)
    BY <1>3, <2>1, <2>2
  <2>4. Statement(t, "post_mentions", m, [db EXCEPT !.msg[i] = row], Names[a.body] # {})
    BY <1>4 DEF PostMentions
  <2>5. [db EXCEPT !.msg[i] = r] = db
    BY <2>1 DEF Inv, Types, Tables
  <2> HIDE DEF row, M
  <2>6. Update(t, "post_mentions", m, i, Names[a.body] # {}, row)
    BY <2>3, <2>4, <2>5 DEF Update
  <2>7. "post_mentions" \in Needing /\ m \notin Leaving
    BY DEF Needing, Leaving
  <2> HIDE DEF m
  <2> QED
    BY <1>1, <2>3, <2>6, <2>7
<1>5. CASE EditUpdate(t)
  <2>1. i \in Id /\ r \in Row /\ r.st = "live" /\ arg[t].body \in Text \union {NoText}
    BY <1>2, <1>5 DEF EditUpdate, Update, Statement, Needing, Fits
  <2> DEFINE row == [r EXCEPT !.body = arg[t].body]
  <2>2. row \in Row /\ row.st = r.st
    BY <2>1, BodyEdit
  <2>3. Update(t, "edit_update", "edit_clear", i, TRUE, row)
    BY <1>5, <2>1 DEF EditUpdate, Live
  <2>4. "edit_update" \in Needing /\ "edit_clear" \notin Leaving
    BY DEF Needing, Leaving
  <2> HIDE DEF row
  <2> QED
    BY <1>1, <2>2, <2>3, <2>4
<1>6. CASE EditClear(t)
  <2>1. r \in Row
    BY <1>2, <1>6 DEF EditClear, Update, Statement, Needing
  <2> DEFINE row == [r EXCEPT !.mentions = {}]
  <2>2. row \in Row /\ row.st = r.st /\ (r.mentions = {} => row = r)
    BY <1>3, <2>1
  <2>3. Update(t, "edit_clear", "edit_mentions", i, r.mentions # {}, row)
    BY <1>6 DEF EditClear
  <2>4. "edit_clear" \in Needing /\ "edit_mentions" \notin Leaving
    BY DEF Needing, Leaving
  <2> HIDE DEF row
  <2> QED
    BY <1>1, <2>2, <2>3, <2>4
<1>7. CASE EditMentions(t)
  <2> DEFINE M == r.mentions \union Names[arg[t].body]
  <2>1. i \in Id /\ r \in Row /\ r.st = "live" /\ arg[t].body \in Text \union {NoText}
    BY <1>2, <1>7 DEF EditMentions, Needing, Fits
  <2>2. M \in SUBSET User
    BY <2>1, BodiesName DEF Row
  <2>3. Update(t, "edit_mentions", "edit_commit", i, Names[arg[t].body] # {}, [r EXCEPT !.mentions = M])
    BY <1>7, <2>1 DEF EditMentions, Gone
  <2>4. Names[arg[t].body] = {} => M = r.mentions
    OBVIOUS
  <2> DEFINE row == [r EXCEPT !.mentions = M]
  <2> HIDE DEF M
  <2>5. row \in Row /\ row.st = r.st /\ (M = r.mentions => row = r)
    BY <1>3, <2>1, <2>2
  <2>6. "edit_mentions" \in Needing /\ "edit_commit" \notin Leaving
    BY DEF Needing, Leaving
  <2>7. Update(t, "edit_mentions", "edit_commit", i, Names[arg[t].body] # {}, row)
    BY <2>3
  <2> HIDE DEF row
  <2> QED
    BY <1>1, <2>4, <2>5, <2>6, <2>7
<1>8. CASE ReactWrite(t)
  <2> DEFINE M == IF arg[t].on THEN r.reactions \union {arg[t].u} ELSE r.reactions \ {arg[t].u}
  <2>1. i \in Id /\ r \in Row /\ r.st = "live" /\ arg[t].u \in User
    BY <1>2, <1>8 DEF ReactWrite, Needing, Fits
  <2>2. M \in SUBSET User
    BY <2>1 DEF Row
  <2>3. Update(t, "react_write", "react_touch", i, M # r.reactions, [r EXCEPT !.reactions = M])
    BY <1>8, <2>1 DEF ReactWrite, Gone
  <2> DEFINE row == [r EXCEPT !.reactions = M]
  <2> HIDE DEF M
  <2>4. row \in Row /\ row.st = r.st /\ (M = r.reactions => row = r)
    BY <1>3, <2>1, <2>2
  <2>5. "react_write" \in Needing /\ "react_touch" \notin Leaving
    BY DEF Needing, Leaving
  <2>6. Update(t, "react_write", "react_touch", i, M # r.reactions, row)
    BY <2>3
  <2> HIDE DEF row
  <2> QED
    BY <1>1, <2>4, <2>5, <2>6
<1> QED
  BY <1>4, <1>5, <1>6, <1>7, <1>8

\* A removal, statement by statement.
LEMMA AloneRemoval ==
    ASSUME Inv, Inv', OneByOne, ~overlapped, NEW t \in Workers, Alone(t),
           \/ RemoveUpdate(t) \/ RemoveChanges(t) \/ RemoveMentions(t) \/ RemovePhoto(t)
           \/ RemoveLinks(t) \/ RemoveReactions(t)
    PROVE  OneByOne'
<1> DEFINE i == arg[t].i
           r == db.msg[i]
<1>1. ASSUME NEW l \in Leaving \union Needing, At(t, l)
      PROVE  i \in Id /\ r \in Row /\ Careful(l, arg[t], db) /\ (l \in Leaving => Half(r, l))
  BY <1>1, AloneAt
<1>2. CASE RemoveUpdate(t)
  <2> DEFINE row == [r EXCEPT !.st = "removed", !.body = NoText, !.pinned = FALSE]
  <2>1. i \in Id /\ r \in Row /\ r.st = "live"
    BY <1>2, AloneAt DEF RemoveUpdate, Update, Statement, Needing
  <2>2. row \in Row /\ ~row.pinned
    BY <2>1 DEF Row
  <2>3. Update(t, "remove_update", "remove_changes", i, Live(i), row)
    BY <1>2 DEF RemoveUpdate
  <2> HIDE DEF row
  <2> QED
    BY <2>1, <2>2, <2>3, AloneUpdate DEF Live, Half, Needing, Leaving
<1>3. CASE RemoveChanges(t)
  <2>1. CASE Throw(t, "remove_changes")
    BY <2>1, AloneThrow
  <2>2. CASE Query /\ Goto(t, "remove_mentions")
    <3>1. UNCHANGED <<db, durable>> /\ Enter(t, "remove_mentions", arg[t])
      BY <2>2, GotoIsEnter DEF Query, conn, Inv
    <3>2. Careful("remove_changes", arg[t], db)
      BY <1>1, <1>3 DEF RemoveChanges, Leaving
    <3>3. Careful("remove_mentions", arg[t], db)
      BY <3>2, SameCareful DEF Leaving, Needing
    <3> QED
      BY <3>1, <3>3, AloneQuiet
  <2> QED
    BY <1>3, <2>1, <2>2 DEF RemoveChanges
<1>4. CASE RemoveMentions(t)
  <2> DEFINE row == [r EXCEPT !.mentions = {}]
  <2>1. i \in Id /\ r \in Row /\ ~r.pinned
    <3>1. At(t, "remove_mentions") /\ "remove_mentions" \in Leaving
      BY <1>4 DEF RemoveMentions, Update, Statement, Leaving
    <3> QED
      BY <1>1, <3>1 DEF Half
  <2>2. row \in Row /\ ~row.pinned /\ row.mentions = {} /\ (r.mentions = {} => row = r)
    BY <2>1 DEF Row
  <2>3. Update(t, "remove_mentions", "remove_photo", i, r.mentions # {}, row)
    BY <1>4 DEF RemoveMentions
  <2> HIDE DEF row
  <2> QED
    BY <2>1, <2>2, <2>3, AloneUpdate DEF Half, Needing, Leaving
<1>5. CASE RemovePhoto(t)
  <2> DEFINE d == IF r.photo /\ db.link[i] THEN [db EXCEPT !.link[i] = FALSE] ELSE db
  <2>1. /\ At(t, "remove_photo") /\ Execute(d, r.photo /\ db.link[i]) /\ Enter(t, "remove_links", arg[t])
    BY <1>5, GotoIsEnter DEF RemovePhoto, Statement, Inv
  <2>2. d.msg = db.msg
    BY DEF Inv, Types, Tables
  <2> HIDE DEF d
  <2>3. Careful("remove_photo", arg[t], db)
    BY <1>1, <2>1 DEF Leaving
  <2>4. Careful("remove_links", arg[t], d)
    BY <2>2, <2>3, SameCareful DEF Leaving, Needing
  <2> QED
    BY <2>1, <2>4, AloneWrite
<1>6. CASE RemoveLinks(t)
  <2> DEFINE row == [r EXCEPT !.photo = FALSE]
  <2>1. i \in Id /\ r \in Row /\ ~r.pinned /\ r.mentions = {}
    <3>1. At(t, "remove_links") /\ "remove_links" \in Leaving
      BY <1>6 DEF RemoveLinks, Update, Statement, Leaving
    <3> QED
      BY <1>1, <3>1 DEF Half
  <2>2. row \in Row /\ ~row.pinned /\ row.mentions = {} /\ (~r.photo => row = r)
    BY <2>1 DEF Row
  <2>3. Update(t, "remove_links", "remove_reactions", i, r.photo, row)
    BY <1>6 DEF RemoveLinks
  <2> HIDE DEF row
  <2> QED
    BY <2>1, <2>2, <2>3, AloneUpdate DEF Half, Needing, Leaving
<1>7. CASE RemoveReactions(t)
  <2> DEFINE row == [r EXCEPT !.reactions = {}]
  <2>1. i \in Id /\ r \in Row /\ ~r.pinned /\ r.mentions = {}
    <3>1. At(t, "remove_reactions") /\ "remove_reactions" \in Leaving
      BY <1>7 DEF RemoveReactions, Update, Statement, Leaving
    <3> QED
      BY <1>1, <3>1 DEF Half
  <2>2. row \in Row /\ Bare(row) /\ (r.reactions = {} => row = r)
    BY <2>1 DEF Row, Bare
  <2>3. Update(t, "remove_reactions", "remove_commit", i, r.reactions # {}, row)
    BY <1>7 DEF RemoveReactions
  <2> HIDE DEF row
  <2> QED
    BY <2>1, <2>2, <2>3, AloneUpdate DEF Needing, Leaving
<1> QED
  BY <1>2, <1>3, <1>4, <1>5, <1>6, <1>7

\* A new message, its photo, read markers and pins.
LEMMA AloneOthers ==
    ASSUME Inv, Inv', OneByOne, ~overlapped, NEW t \in Workers, Alone(t),
           \/ PostInsert(t) \/ PostPhoto(t) \/ PostRead(t) \/ ReactTouch(t)
           \/ PinCount(t) \/ PinUpdate(t) \/ UnpinUpdate(t)
    PROVE  OneByOne'
<1> DEFINE i == arg[t].i
           r == db.msg[i]
<1>1. CASE PostInsert(t)
  <2> DEFINE a == arg[t]
             row == [NoRow EXCEPT !.st = "live", !.author = a.u, !.body = a.body]
  <2>1. PICK k \in Id : /\ Execute([db EXCEPT !.msg[k] = row], TRUE)
                        /\ Enter(t, "post_mentions", [i |-> k, u |-> a.u, body |-> a.body, photo |-> a.photo])
    BY <1>1 DEF PostInsert
  <2> DEFINE b == [i |-> k, u |-> a.u, body |-> a.body, photo |-> a.photo]
  <2>2. At(t, "post_insert")
    BY <1>1 DEF PostInsert
  <2>3. a.u \in User /\ a.body \in Text \union {NoText} /\ Careful("post_insert", a, db)
    BY <2>2, AloneAt DEF Fits
  <2>4. row \in Row /\ row.st = "live"
    BY <2>3 DEF Row, NoRow
  <2>5. b.i = k /\ Fits("post_mentions", b)
    BY <2>3 DEF Fits
  <2> HIDE DEF row, b
  <2>6. "post_insert" \notin Leaving /\ "post_mentions" \notin Leaving
    BY DEF Leaving
  <2>7. Careful("post_mentions", b, [db EXCEPT !.msg[k] = row])
    BY <2>3, <2>4, <2>5, <2>6, RowCareful
  <2> QED
    BY <2>1, <2>7, AloneWrite DEF b
<1>2. ASSUME NEW l, NEW m, NEW d, NEW x, Statement(t, l, m, d, x), d.msg = db.msg,
             l \notin Leaving, m \notin Leaving \union Needing
      PROVE  OneByOne'
  <2>1. At(t, l) /\ Execute(d, x) /\ Enter(t, m, arg[t])
    BY <1>2, GotoIsEnter DEF Statement, Inv
  <2>2. Careful(l, arg[t], db)
    BY <2>1, AloneAt
  <2> QED
    BY <1>2, <2>1, <2>2, SameCareful, AloneWrite
<1>3. CASE PostPhoto(t)
  <2>1. CASE Throw(t, "post_photo")
    BY <2>1, AloneThrow
  <2>2. CASE ~Throw(t, "post_photo")
    <3> DEFINE row == [r EXCEPT !.photo = TRUE]
               d == [db EXCEPT !.msg[i].photo = TRUE, !.link[i] = TRUE]
               e == [db EXCEPT !.msg[i] = row]
    <3>1. At(t, "post_photo") /\ Execute(d, TRUE) /\ Enter(t, "post_read", arg[t])
      BY <1>3, <2>2, GotoIsEnter DEF PostPhoto, Statement, Inv
    <3>2. i \in Id /\ r \in Row /\ r.st = "live" /\ Careful("post_photo", arg[t], db)
      BY <3>1, AloneAt DEF Needing
    <3>3. row \in Row /\ row.st = "live"
      BY <3>2, PhotoEdit
    <3>4. d.msg = e.msg
      BY <3>2 DEF Inv, Types, Tables
    <3> HIDE DEF d, row
    <3>5. pc'[t] = "post_read" /\ arg'[t] = arg[t] /\ Fits("post_read", arg[t])
      BY <3>1 DEF Inv, Types, Enter, Knows
    <3>6. Careful("post_read", arg[t], e)
      BY <3>2, <3>3, <3>5, RowCareful DEF Needing, Leaving
    <3> HIDE DEF e
    <3>7. Careful("post_read", arg[t], d)
      BY <3>4, <3>6 DEF Careful, Nothing
    <3> QED
      BY <3>1, <3>7, AloneWrite
  <2> QED
    BY <2>1, <2>2
<1>4. CASE PostRead(t)
  <2>1. ReadUpTo(arg[t].u, i).msg = db.msg
    BY DEF ReadUpTo, Inv, Types, Tables
  <2> QED
    BY <1>2, <1>4, <2>1 DEF PostRead, Leaving, Needing
<1>5. CASE ReactTouch(t)
  BY <1>2, <1>5 DEF ReactTouch, Leaving, Needing
<1>6. CASE PinCount(t)
  <2>1. At(t, "pin_count") /\ UNCHANGED <<db, durable>>
    BY <1>6 DEF PinCount, Query, conn
  <2>2. Careful("pin_count", arg[t], db)
    BY <2>1, AloneAt
  <2>3. Careful("idle", NoArg, db) /\ Careful("pin_update", arg[t], db)
    BY <2>2 DEF Careful, Leaving, Needing
  <2>4. Enter(t, "idle", NoArg) \/ Enter(t, "pin_update", arg[t])
    BY <1>6, GotoIsEnter DEF PinCount, Return, Inv
  <2> QED
    BY <2>1, <2>3, <2>4, AloneQuiet
\* Setting a pin, on a message that is there, or taking one off.
<1>7. ASSUME NEW l \in {"pin_update", "unpin"}, NEW p \in BOOLEAN, NEW x,
             Finish(t, l, [db EXCEPT !.msg[i].pinned = p], x), p => l = "pin_update"
      PROVE  OneByOne'
  <2> DEFINE row == [r EXCEPT !.pinned = p]
  <2>1. At(t, l) /\ Execute([db EXCEPT !.msg[i] = row], x) /\ Enter(t, "idle", NoArg)
    BY <1>7 DEF Finish, Return
  <2>2. Careful(l, arg[t], db) /\ i \in Id /\ r \in Row /\ (p => r.st = "live")
    BY <1>7, <2>1, AloneAt, Rows DEF Needing, Fits
  <2>3. row \in Row /\ row.st = r.st /\ row.pinned = p /\ row.mentions = r.mentions /\ row.reactions = r.reactions
    BY <2>2 DEF Row
  <2> HIDE DEF row
  <2>4. l \notin Leaving
    BY <1>7 DEF Leaving
  <2>5. row.st = "live" \/ Bare(row)
    BY <1>7, <2>2, <2>3, <2>4 DEF Careful, Nothing, Bare
  <2>6. Careful("idle", NoArg, [db EXCEPT !.msg[i] = row])
    BY <2>2, <2>3, <2>4, <2>5, Labelled, LeavingWithin, RowCareful
  <2> QED
    BY <2>1, <2>6, AloneWrite
<1>8. CASE PinUpdate(t)
  <2>1. At(t, "pin_update") /\ i \in Id /\ r \in Row /\ r.st = "live"
    BY <1>8, AloneAt DEF PinUpdate, Finish, Needing
  <2>2. CASE ~r.pinned
    BY <1>7, <1>8, <2>1, <2>2 DEF PinUpdate, Gone
  <2>3. CASE r.pinned
    <3>1. Execute(db, FALSE) /\ Enter(t, "idle", NoArg)
      BY <1>8, <2>3 DEF PinUpdate, Finish, Return
    <3>2. Careful("idle", NoArg, db)
      BY <2>1, AloneAt DEF Careful, Leaving, Needing
    <3> QED
      BY <3>1, <3>2, AloneWrite
  <2> QED
    BY <2>2, <2>3
<1>9. CASE UnpinUpdate(t)
  BY <1>7, <1>9 DEF UnpinUpdate
<1> QED
  BY <1>1, <1>3, <1>4, <1>5, <1>6, <1>8, <1>9

LEMMA OneByOneStep == ASSUME Inv, Inv', OneByOne, [Next]_vars PROVE OneByOne'
<1>1. ASSUME NEW t \in Workers, Requests(t) \/ Steps(t), overlapped' = (overlapped \/ ~Alone(t))
      PROVE  OneByOne'
  <2>1. CASE overlapped \/ ~Alone(t)
    BY <1>1, <2>1 DEF OneByOne
  <2>2. CASE ~overlapped /\ Alone(t)
    BY <1>1, <2>2, AloneRequests, AloneBrackets, AloneOnLive, AloneRemoval, AloneOthers DEF Steps
  <2> QED
    BY <2>1, <2>2
<1>2. CASE Restart /\ UNCHANGED overlapped
  <2>1. db' = durable /\ durable' = durable /\ \A t \in Workers : pc'[t] = "idle"
    BY <1>2 DEF Restart, Reopen
  <2> QED
    BY <1>2, <2>1, LeavingWithin DEF OneByOne, Careful, Nothing, Idle, At
<1>3. CASE UNCHANGED vars
  BY <1>3 DEF vars, server, conn, OneByOne, Careful, Nothing, Alone, Idle, At
<1> QED
  BY <1>1, <1>2, <1>3 DEF Next

\* "What people made of it ... has nothing left to be about": as long as
\* requests came one by one, a removed message has no reactions, no mentions
\* and no pin, whichever statement of a removal a crash came after.
THEOREM RemovalLeavesNothing == Spec => []RemovedKeepsNothing
<1>1. OneByOne => RemovedKeepsNothing
  BY DEF OneByOne, Nothing, Bare, RemovedKeepsNothing
<1>2. Inv /\ Inv' /\ OneByOne /\ [Next]_vars => OneByOne'
  BY OneByOneStep
<1> QED
  BY <1>1, <1>2, OneByOneInit, Invariant, PTL DEF Spec

-----------------------------------------------------------------------------
(* What a client is shown (Feed) *)

\* What a copy of message i misses is stamped n or later.
Faithful(copy, i, n) == copy.shows # said[i].shows => said[i].at >= n

\* A poll was asked from a message that is still held, if from any.
FromHeld(q) == q.from \in 0..cursor /\ (q.from # 0 => held[q.from] # NoCopy)

Asking(q) ==
    /\ FromHeld(q) /\ q.changed \in Nat
    /\ ~lapse => q.changed <= since

\* Copies are true to the moment of the response; a page has no gap, and
\* reaches down to where it was asked from unless it was cut; what is not
\* among the changes was told of before, or has changed since.
Replying(r) ==
    /\ FromHeld(r) /\ r.now \in 0..now /\ r.first \in BOOLEAN /\ r.cut \in BOOLEAN
    /\ DOMAIN r.new \subseteq Msg /\ DOMAIN r.changed \subseteq Msg
    /\ \A i \in DOMAIN r.new : i > r.from /\ Exists(i) /\ r.new[i].shows # "none" /\ Faithful(r.new[i], i, r.now)
    /\ \A i \in DOMAIN r.changed :
          Exists(i) /\ r.changed[i].shows # "none" /\ Faithful(r.changed[i], i, r.now)
    /\ \A i \in Msg, k \in DOMAIN r.new :
          /\ ~r.cut /\ r.from < i /\ i <= k => i \in DOMAIN r.new
          /\ \A j \in DOMAIN r.new : j < i /\ i < k => i \in DOMAIN r.new
    /\ ~lapse /\ ~r.first /\ ~r.cut =>
          \A i \in Msg \ DOMAIN r.changed : said[i].at >= r.now \/ said[i].at < since

\* The room: ids are given out in order, and nothing is stamped ahead of time.
RoomKept ==
    /\ said = [i \in Msg |-> said[i]] /\ now \in Nat
    /\ \A i \in Msg :
          /\ said[i] \in [shows : Shows \union {"none"}, at : 0..now, reply : Msg \union {0}]
          /\ said[i].shows = "none" <=> said[i] = Absent
          /\ \A j \in Msg : Exists(i) /\ j < i => Exists(j)

ScreenKept ==
    /\ cursor \in Msg \union {0} /\ since \in 0..now /\ lapse \in BOOLEAN
    /\ held = [i \in Msg |-> held[i]]
    /\ \A i \in Msg : held[i] # NoCopy => i <= cursor /\ Exists(i)
    /\ \A i \in Msg : held[i] # NoCopy <=> held[i].shows # "none"
    /\ cursor # 0 => held[cursor] # NoCopy

PollsKept ==
    /\ poll = [p \in Poll |-> poll[p]]
    /\ \A p \in Poll :
          /\ poll[p].st \in {"idle", "ask", "reply"} /\ (poll[p].st = "idle" => poll[p] = NoPoll)
          /\ poll[p].st = "ask" => Asking(poll[p])
          /\ poll[p].st = "reply" => Replying(poll[p])

FeedInv == RoomKept /\ ScreenKept /\ PollsKept /\ NothingMissed

LEMMA FeedInitInv == FeedInit => FeedInv
<1> SUFFICES ASSUME FeedInit PROVE FeedInv
  OBVIOUS
<1> USE FeedBounds DEF FeedInit
<1>1. RoomKept
  BY DEF RoomKept, Exists, Absent, Msg
<1>2. ScreenKept
  <2>1. held = [i \in Msg |-> held[i]] /\ \A i \in Msg : held[i] = NoCopy
    OBVIOUS
  <2>2. NoCopy.shows = "none"
    BY DEF NoCopy
  <2>3. cursor \in Msg \union {0} /\ since \in 0..now /\ cursor = 0
    OBVIOUS
  <2>4. lapse \in BOOLEAN
    BY Zenon
  <2> QED
    BY <2>1, <2>2, <2>3, <2>4, Zenon DEF ScreenKept
<1>3. PollsKept
  BY DEF PollsKept, NoPoll
<1>4. NothingMissed
  BY DEF NothingMissed, Exists
<1> QED
  BY <1>1, <1>2, <1>3, <1>4 DEF FeedInv

\* The room moves on: every copy that it makes stale is due again.
LEMMA RoomStep ==
    ASSUME FeedInv, RoomKept', UNCHANGED <<poll, client>>, now' >= now,
           \A i \in Msg : /\ Exists(i) => Exists(i)'
                          /\ Exists(i) /\ said'[i] # said[i] => said'[i].at >= now
                          /\ ~Exists(i) => said'[i].at = 0
    PROVE  FeedInv'
<1> USE DEF FeedInv, client
<1>1. now \in Nat /\ now' \in Nat
  BY DEF RoomKept
<1>2. ScreenKept'
  BY <1>1 DEF ScreenKept
<1>3. ASSUME NEW copy, NEW i \in Msg, NEW n \in 0..now, Exists(i), Faithful(copy, i, n)
      PROVE  Faithful(copy, i, n)'
  BY <1>1, <1>3 DEF Faithful, RoomKept
<1>4. ASSUME NEW r, Replying(r) PROVE Replying(r)'
  <2>1. FromHeld(r)'
    BY <1>4 DEF Replying, FromHeld
  <2>2. r.now \in 0..now'
    BY <1>1, <1>4 DEF Replying
  <2>3. \A i \in DOMAIN r.new : Exists(i)' /\ Faithful(r.new[i], i, r.now)'
    BY <1>3, <1>4 DEF Replying
  <2>4. \A i \in DOMAIN r.changed : Exists(i)' /\ Faithful(r.changed[i], i, r.now)'
    BY <1>3, <1>4 DEF Replying
  <2>5. ASSUME ~lapse, ~r.first, ~r.cut, NEW i \in Msg \ DOMAIN r.changed
        PROVE  said'[i].at >= r.now \/ said'[i].at < since
    <3>1. said[i].at >= r.now \/ said[i].at < since
      BY <1>4, <2>5 DEF Replying
    <3>2. CASE ~Exists(i)
      BY <3>1, <3>2, <2>5 DEF Exists, Absent
    <3>3. CASE Exists(i)
      BY <3>1, <3>3, <1>1, <1>4, <2>5 DEF Replying, RoomKept
    <3> QED
      BY <3>2, <3>3
  <2> QED
    BY <1>4, <2>1, <2>2, <2>3, <2>4, <2>5 DEF Replying
<1>5. PollsKept'
  <2>1. ASSUME NEW q, Asking(q) PROVE Asking(q)'
    BY <2>1 DEF Asking, FromHeld
  <2> QED
    BY <1>4, <2>1 DEF PollsKept
<1>6. NothingMissed'
  <2> SUFFICES ASSUME ~lapse, NEW i \in Msg, Exists(i)'
               PROVE  /\ held[i] # NoCopy /\ held[i].shows # said'[i].shows => said'[i].at >= since
                      /\ held[i] = NoCopy => i > cursor \/ \A j \in Msg : held[j] # NoCopy => j > i
    BY DEF NothingMissed, WillHear
  <2>1. CASE Exists(i)
    BY <2>1, <1>1 DEF NothingMissed, WillHear, ScreenKept, RoomKept
  <2>2. CASE ~Exists(i)
    <3>1. held[i] = NoCopy
      BY <2>2 DEF ScreenKept
    <3>2. i > cursor
      <4>1. SUFFICES ASSUME i <= cursor PROVE FALSE
        BY FeedBounds DEF ScreenKept, Msg
      <4>2. cursor \in Msg /\ Exists(cursor) /\ i # cursor
        BY <4>1, <2>2, FeedBounds DEF ScreenKept, Msg
      <4> QED
        BY <4>1, <4>2, <2>2, FeedBounds DEF RoomKept, Msg
    <3> QED
      BY <3>1, <3>2
  <2> QED
    BY <2>1, <2>2
<1> QED
  BY <1>2, <1>5, <1>6

LEMMA TickStep == FeedInv /\ Tick => FeedInv'
<1> SUFFICES ASSUME FeedInv, Tick PROVE FeedInv'
  OBVIOUS
<1>1. RoomKept' /\ now' >= now /\ UNCHANGED <<said, poll, client>>
  BY DEF FeedInv, RoomKept, Tick, Exists
<1> QED
  BY <1>1, RoomStep DEF Exists, FeedInv, RoomKept, Absent

LEMMA SayStep ==
    ASSUME FeedInv, NEW i \in Msg, NEW b \in Body, NEW parent \in Msg \union {0}, Say(i, b, parent)
    PROVE  FeedInv'
<1> DEFINE row == [shows |-> b, at |-> 0, reply |-> parent]
<1>1. ~Exists(i) /\ UNCHANGED <<now, poll, client>> /\ said' = [said EXCEPT ![i] = row]
  BY DEF Say, Write
<1>2. \A j \in 1..(i - 1) : Exists(j)
  BY DEF Say
<1>3. /\ row # Absent /\ row.shows # "none" /\ row.at = 0
      /\ row \in [shows : Shows \union {"none"}, at : 0..now, reply : Msg \union {0}]
  BY BodiesApart DEF Absent, FeedInv, RoomKept, Shows
<1> HIDE DEF row
<1>4. \A j \in Msg : said'[j] = IF j = i THEN row ELSE said[j]
  BY <1>1 DEF FeedInv, RoomKept
<1>5. RoomKept'
  <2>1. said' = [j \in Msg |-> said'[j]] /\ now' \in Nat
    BY <1>1 DEF FeedInv, RoomKept
  <2>2. \A j \in Msg : Exists(j)' <=> Exists(j) \/ j = i
    BY <1>3, <1>4 DEF Exists
  <2>3. \A j \in Msg : /\ said'[j] \in [shows : Shows \union {"none"}, at : 0..now', reply : Msg \union {0}]
                       /\ said'[j].shows = "none" <=> said'[j] = Absent
    BY <1>1, <1>3, <1>4 DEF FeedInv, RoomKept
  <2>4. ASSUME NEW k \in Msg, NEW j \in Msg, Exists(k)', j < k PROVE Exists(j)'
    BY <2>2, <2>4, <1>2, FeedBounds DEF FeedInv, RoomKept, Msg
  <2> QED
    BY <2>1, <2>3, <2>4 DEF RoomKept
<1>6. \A j \in Msg : /\ Exists(j) => Exists(j)'
                     /\ Exists(j) /\ said'[j] # said[j] => said'[j].at >= now
                     /\ ~Exists(j) => said'[j].at = 0
  BY <1>1, <1>3, <1>4 DEF Exists, Absent
<1>7. now' >= now
  BY <1>1 DEF FeedInv, RoomKept
<1> QED
  BY <1>1, <1>5, <1>6, <1>7, RoomStep

LEMMA Stamped ==
    ASSUME NEW S, NEW T, NEW R, NEW old \in [shows : S, at : T, reply : R], NEW s \in S, NEW n \in T
    PROVE  /\ [old EXCEPT !.shows = s, !.at = n].shows = s /\ [old EXCEPT !.shows = s, !.at = n].at = n
           /\ [old EXCEPT !.shows = s, !.at = n] \in [shows : S, at : T, reply : R]
OBVIOUS

LEMMA ChangeStep ==
    ASSUME FeedInv, NEW i \in Msg, NEW s \in Shows, Change(i, s)
    PROVE  FeedInv'
<1> DEFINE row == [said[i] EXCEPT !.shows = s, !.at = now]
<1>1. Exists(i) /\ UNCHANGED <<now, poll, client>> /\ said' = [said EXCEPT ![i] = row]
  BY DEF Change, Write
<1>2. now \in Nat /\ now >= 0
  BY DEF FeedInv, RoomKept
<1>3. /\ row # Absent /\ row.shows # "none" /\ row.at = now
      /\ row \in [shows : Shows \union {"none"}, at : 0..now, reply : Msg \union {0}]
  <2>1. said[i] \in [shows : Shows \union {"none"}, at : 0..now, reply : Msg \union {0}]
    BY DEF FeedInv, RoomKept
  <2>2. /\ row.shows = s /\ row.at = now
        /\ row \in [shows : Shows \union {"none"}, at : 0..now, reply : Msg \union {0}]
    <3>1. s \in Shows \union {"none"} /\ now \in 0..now
      BY <1>2
    <3> QED
      BY <2>1, <3>1, Stamped, Zenon
  <2> HIDE DEF row
  <2> QED
    BY <1>2, <2>1, <2>2, BodiesApart DEF Absent, Shows
<1> HIDE DEF row
<1>4. \A j \in Msg : said'[j] = IF j = i THEN row ELSE said[j]
  BY <1>1 DEF FeedInv, RoomKept
<1>5. \A j \in Msg : Exists(j)' <=> Exists(j)
  BY <1>1, <1>3, <1>4 DEF Exists
<1>6. RoomKept'
  <2>1. said' = [j \in Msg |-> said'[j]] /\ now' \in Nat
    BY <1>1 DEF FeedInv, RoomKept
  <2>2. \A j \in Msg : /\ said'[j] \in [shows : Shows \union {"none"}, at : 0..now', reply : Msg \union {0}]
                       /\ said'[j].shows = "none" <=> said'[j] = Absent
    BY <1>1, <1>3, <1>4 DEF FeedInv, RoomKept
  <2> QED
    BY <2>1, <2>2, <1>5 DEF FeedInv, RoomKept
<1>7. \A j \in Msg : /\ Exists(j) => Exists(j)'
                     /\ Exists(j) /\ said'[j] # said[j] => said'[j].at >= now
                     /\ ~Exists(j) => said'[j].at = 0
  BY <1>1, <1>2, <1>3, <1>4, <1>5 DEF Exists, Absent
<1> QED
  BY <1>1, <1>2, <1>6, <1>7, RoomStep

LEMMA AskStep == ASSUME FeedInv, NEW p \in Poll, Ask(p) PROVE FeedInv'
<1> USE DEF FeedInv
<1>1. UNCHANGED <<said, now, held, cursor, since, lapse>>
  BY DEF Ask, client
<1>2. RoomKept' /\ ScreenKept' /\ NothingMissed'
  BY <1>1 DEF RoomKept, ScreenKept, NothingMissed, WillHear, Exists
<1>3. Asking([st |-> "ask", from |-> cursor, changed |-> since])
  BY FeedBounds DEF Asking, FromHeld, ScreenKept, RoomKept, Msg
<1>4. \A q : (Asking(q)' <=> Asking(q)) /\ (Replying(q)' <=> Replying(q))
  BY <1>1 DEF Asking, Replying, FromHeld, Faithful, Exists
<1>5. PollsKept'
  BY <1>3, <1>4 DEF Ask, PollsKept
<1> QED
  BY <1>2, <1>5

\* A page has no gap: it is the upper end of what there is.
LEMMA PageIsUpperEnd ==
    ASSUME NEW ids \in SUBSET Msg, NEW j \in Newest(ids), NEW i \in ids, j < i
    PROVE  i \in Newest(ids)
<1> DEFINE above(k) == {m \in ids : m > k}
<1>1. above(i) \subseteq above(j)
  <2>1. i \in Nat /\ j \in Nat /\ ids \subseteq Nat
    BY FeedBounds DEF Msg, Newest
  <2>2. ASSUME NEW m \in ids, m > i PROVE m > j
    BY <2>1, <2>2
  <2> QED
    BY <2>2
<1>2. IsFiniteSet(Msg) /\ above(j) \subseteq Msg
  <2>1. IsFiniteSet(1..MaxSaid)
    BY FeedBounds, FS_Interval
  <2> QED
    BY <2>1 DEF Msg
<1>3. IsFiniteSet(above(j))
  BY <1>2, FS_Subset
<1>4. Cardinality(above(i)) <= Cardinality(above(j)) /\ IsFiniteSet(above(i))
  BY <1>1, <1>3, FS_Subset
<1>5. Cardinality(above(i)) \in Nat /\ Cardinality(above(j)) \in Nat
  BY <1>3, <1>4, FS_CardinalityType
<1>6. Cardinality(above(j)) < Page
  BY DEF Newest
<1>7. Cardinality(above(i)) < Page
  BY <1>4, <1>5, <1>6, FeedBounds
<1> QED
  BY <1>7 DEF Newest

LEMMA AnswerStep == ASSUME FeedInv, NEW p \in Poll, Answer(p) PROVE FeedInv'
<1> USE DEF FeedInv
<1> DEFINE q == poll[p]
           new == Newest(New(q))
           changed == Newest(Changed(q))
           cut == new # New(q) \/ changed # Changed(q)
           r == [st |-> "reply", from |-> q.from, first |-> q.changed = 0, now |-> now,
                 new |-> [i \in new |-> Copy(i)], changed |-> [i \in changed |-> Copy(i)], cut |-> cut]
<1>1. UNCHANGED <<said, now, held, cursor, since, lapse>>
  BY DEF Answer, client
<1>2. RoomKept' /\ ScreenKept' /\ NothingMissed'
  BY <1>1 DEF RoomKept, ScreenKept, NothingMissed, WillHear, Exists
<1>3. Asking(q) /\ poll' = [poll EXCEPT ![p] = r]
  BY DEF Answer, PollsKept
<1>4. new \subseteq New(q) /\ changed \subseteq Changed(q)
  BY DEF Newest
<1>5. New(q) \in SUBSET Msg /\ Changed(q) \in SUBSET Msg
  BY DEF New, Changed
<1>6. now \in Nat /\ since \in Nat /\ q.from \in Nat /\ q.changed \in Nat
  BY <1>3, FeedBounds DEF RoomKept, ScreenKept, Asking, FromHeld, Msg
<1>7. Replying(r)
  <2> DEFINE n == [i \in new |-> Copy(i)]
             c == [i \in changed |-> Copy(i)]
  <2>1. FromHeld(r) /\ r.now \in 0..now /\ r.first \in BOOLEAN /\ r.cut \in BOOLEAN
    BY <1>3, <1>6 DEF Asking, FromHeld
  <2>2. r.new = n /\ r.changed = c /\ DOMAIN n = new /\ DOMAIN c = changed
        /\ r.from = q.from /\ r.now = now /\ r.cut = cut /\ r.first = (q.changed = 0)
    OBVIOUS
  <2>3. \A i \in Msg : Exists(i) => Copy(i).shows # "none" /\ Faithful(Copy(i), i, now)
    BY DEF Copy, Exists, Faithful, RoomKept
  <2>4. \A i \in new : i > q.from /\ Exists(i) /\ n[i].shows # "none" /\ Faithful(n[i], i, now)
    BY <1>4, <2>3 DEF New
  <2>5. \A i \in changed : Exists(i) /\ c[i].shows # "none" /\ Faithful(c[i], i, now)
    BY <1>4, <2>3 DEF Changed
  <2>6. ASSUME NEW i \in Msg, NEW k \in new, q.from < i, i <= k PROVE i \in New(q)
    BY <2>6, <1>4, FeedBounds DEF New, RoomKept, Msg
  <2>7. ASSUME NEW i \in Msg, NEW k \in new, NEW j \in new, j < i, i < k PROVE i \in new
    <3>1. i \in New(q)
      BY <2>6, <2>7, <1>4, <1>6, FeedBounds DEF New, Msg
    <3> QED
      BY <2>7, <3>1, <1>5, PageIsUpperEnd
  <2>8. ASSUME ~lapse, q.changed # 0, ~cut, NEW i \in Msg \ changed
        PROVE  said[i].at >= now \/ said[i].at < since
    <3>1. q.changed <= since /\ i \notin Changed(q)
      BY <2>8, <1>3 DEF Asking
    <3>2. ~Exists(i) \/ said[i].at < q.changed
      BY <3>1, <2>8, <1>6 DEF Changed, RoomKept
    <3> QED
      BY <3>1, <3>2, <2>8, <1>6 DEF RoomKept, Exists, Absent
  <2> HIDE DEF r, n, c, new, changed, cut, q
  <2>9. new \subseteq Msg /\ changed \subseteq Msg /\ (~cut => new = New(q))
    BY <1>4, <1>5 DEF cut
  <2> QED
    BY <2>1, <2>2, <2>4, <2>5, <2>6, <2>7, <2>8, <2>9 DEF Replying
<1>8. \A s : (Asking(s)' <=> Asking(s)) /\ (Replying(s)' <=> Replying(s))
  BY <1>1 DEF Asking, Replying, FromHeld, Faithful, Exists
<1>9. r.st = "reply"
  OBVIOUS
<1> HIDE DEF r
<1>10. PollsKept'
  BY <1>3, <1>7, <1>8, <1>9 DEF PollsKept
<1> QED
  BY <1>2, <1>10

\* A set of ids has a highest one.
LEMMA HighestIs ==
    ASSUME NEW ids \in SUBSET (Msg \union {0}), ids # {}
    PROVE  Highest(ids) \in ids /\ \A j \in ids : j <= Highest(ids)
<1> DEFINE R == OpToRel(<, Nat)
           below == {MaxSaid - k : k \in ids}
<1>1. \A x, y \in Nat : <<x, y>> \in R <=> x < y
  BY DEF OpToRel
<1>2. IsWellFoundedOn(R, Nat)
  BY NatLessThanWellFounded
<1>3. \A k \in ids : k \in Nat /\ k <= MaxSaid
  BY FeedBounds DEF Msg
<1>4. below \subseteq Nat /\ below # {}
  BY <1>3, FeedBounds
<1> HIDE DEF R
<1>5. PICK m \in below : \A b \in below : ~(<<b, m>> \in R)
  <2> HIDE DEF below
  <2> QED
    BY <1>2, <1>4, WFMin
<1>6. PICK k \in ids : m = MaxSaid - k
  OBVIOUS
<1>7. ASSUME NEW j \in ids PROVE j <= k
  <2>1. ~(<<MaxSaid - j, m>> \in R)
    BY <1>5, <1>7
  <2>2. MaxSaid - j \in Nat /\ m \in Nat
    BY <1>3, <1>6, <1>7, FeedBounds
  <2> QED
    BY <1>1, <1>3, <1>6, <1>7, <2>1, <2>2, FeedBounds
<1> QED
  BY <1>7 DEF Highest

LEMMA ApplyStep == ASSUME FeedInv, NEW p \in Poll, Apply(p) PROVE FeedInv'
<1> USE DEF FeedInv
<1> DEFINE r == poll[p]
<1>1. UNCHANGED <<said, now>> /\ Replying(r) /\ poll' = [poll EXCEPT ![p] = NoPoll]
  BY DEF Apply, PollsKept
<1>2. /\ held' = [i \in Msg |-> IF i \in DOMAIN r.changed /\ Merged(r)[i] # NoCopy
                                THEN r.changed[i] ELSE Merged(r)[i]]
      /\ since' = r.now /\ lapse' = (lapse \/ Unmatched(r) \/ r.now < since)
      /\ cursor' = Highest({cursor} \union DOMAIN r.new)
  BY DEF Apply
<1> DEFINE got == DOMAIN r.new
           merged == Merged(r)
<1>3. \A i \in Msg : merged[i] = IF i \in got /\ (cursor = 0 \/ held[i] = NoCopy) THEN r.new[i]
                                 ELSE IF cursor = 0 THEN NoCopy ELSE held[i]
  BY DEF Merged
<1>4. got \subseteq Msg /\ \A i \in got : Exists(i) /\ r.new[i].shows # "none" /\ Faithful(r.new[i], i, r.now)
  BY <1>1 DEF Replying
<1>5. \A i \in DOMAIN r.changed : Exists(i) /\ r.changed[i].shows # "none" /\ Faithful(r.changed[i], i, r.now)
  BY <1>1 DEF Replying
<1>6. NoCopy.shows = "none"
  BY DEF NoCopy
<1>7. cursor' \in {cursor} \union got /\ \A j \in {cursor} \union got : j <= cursor'
  BY <1>2, <1>4, HighestIs DEF ScreenKept
<1>8. now \in Nat /\ since \in 0..now /\ r.now \in 0..now
  BY <1>1 DEF RoomKept, ScreenKept, Replying
<1>9. cursor \in Nat /\ cursor' \in Msg \union {0} /\ Msg \subseteq Nat \ {0}
  BY <1>4, <1>7, FeedBounds DEF ScreenKept, Msg
<1> HIDE DEF merged, got
<1>10. \A i \in Msg : held'[i] = IF i \in DOMAIN r.changed /\ merged[i] # NoCopy THEN r.changed[i] ELSE merged[i]
  BY <1>2 DEF merged
\* Nothing held is lost, and what came is held.
<1>11. \A i \in Msg : held'[i] # NoCopy <=> i \in got \/ (cursor # 0 /\ held[i] # NoCopy)
  BY <1>3, <1>4, <1>5, <1>6, <1>10
<1>12. \A i \in Msg : held[i] # NoCopy => held'[i] # NoCopy /\ i <= cursor
  BY <1>9, <1>11 DEF ScreenKept
<1>13. RoomKept'
  BY <1>1 DEF RoomKept, Exists
<1>14. ScreenKept'
  <2>1. cursor' \in Msg \union {0} /\ since' \in 0..now' /\ lapse' \in BOOLEAN
    BY <1>1, <1>2, <1>8, <1>9
  <2>2. held' = [i \in Msg |-> held'[i]]
    BY <1>2
  <2>3. \A i \in Msg : held'[i] # NoCopy => i <= cursor' /\ Exists(i)'
    BY <1>1, <1>4, <1>7, <1>9, <1>11 DEF ScreenKept, Exists
  <2>4. \A i \in Msg : held'[i] # NoCopy <=> held'[i].shows # "none"
    BY <1>3, <1>4, <1>5, <1>6, <1>10 DEF ScreenKept
  <2>5. cursor' # 0 => held'[cursor'] # NoCopy
    BY <1>4, <1>7, <1>9, <1>11 DEF ScreenKept
  <2> QED
    BY <2>1, <2>2, <2>3, <2>4, <2>5 DEF ScreenKept
\* The clock goes on, or there is a lapse.
<1>15. (~lapse' => ~lapse /\ since <= since') /\ (~lapse' /\ cursor # 0 => ~r.cut /\ ~r.first)
       /\ (~lapse' /\ cursor # 0 /\ r.from = 0 => held[1] # NoCopy)
  <2>1. ~lapse' => ~lapse /\ ~Unmatched(r) /\ ~(r.now < since)
    BY <1>2, Zenon
  <2>2. ~(r.now < since) => since <= since'
    BY <1>2, <1>8
  <2>3. ~Unmatched(r) /\ cursor # 0 => ~r.cut /\ ~r.first /\ (r.from = 0 => held[1] # NoCopy)
    BY Zenon DEF Unmatched
  <2> HIDE DEF r
  <2> QED
    BY <2>1, <2>2, <2>3
<1>16. \A s : FromHeld(s) => FromHeld(s)'
  <2>1. cursor <= cursor'
    BY <1>7
  <2>2. \A n \in 0..cursor : n \in 0..cursor' /\ (n # 0 => n \in Msg)
    BY <1>9, <2>1, FeedBounds DEF ScreenKept, Msg
  <2> QED
    BY <1>12, <2>2 DEF FromHeld
<1>17. PollsKept'
  <2>1. ASSUME NEW s, Asking(s) PROVE Asking(s)'
    BY <2>1, <1>2, <1>8, <1>15, <1>16 DEF Asking
  <2>2. ASSUME NEW s, Replying(s) PROVE Replying(s)'
    <3>1. FromHeld(s)' /\ s.now \in 0..now'
      BY <2>2, <1>1, <1>16 DEF Replying
    <3>2. ASSUME ~lapse', ~s.first, ~s.cut, NEW i \in Msg \ DOMAIN s.changed
          PROVE  said'[i].at >= s.now \/ said'[i].at < since'
      BY <3>2, <2>2, <1>1, <1>2, <1>8, <1>15 DEF Replying, RoomKept
    <3> QED
      BY <2>2, <3>1, <3>2, <1>1 DEF Replying, Faithful, Exists
  <2> QED
    BY <2>1, <2>2, <1>1 DEF PollsKept, NoPoll
<1>18. NothingMissed'
  <2> SUFFICES ASSUME ~lapse', NEW i \in Msg, Exists(i)
               PROVE  /\ held'[i] # NoCopy /\ held'[i].shows # said[i].shows => said[i].at >= since'
                      /\ held'[i] = NoCopy => i > cursor' \/ \A j \in Msg : held'[j] # NoCopy => j > i
    BY <1>1 DEF NothingMissed, WillHear, Exists
  <2>1. ASSUME held'[i] # NoCopy, held'[i].shows # said[i].shows
        PROVE  said[i].at >= r.now
    <3>1. CASE i \in DOMAIN r.changed /\ merged[i] # NoCopy
      BY <2>1, <3>1, <1>5, <1>10 DEF Faithful
    <3>2. CASE i \in got /\ (cursor = 0 \/ held[i] = NoCopy)
      BY <2>1, <3>1, <3>2, <1>3, <1>4, <1>10 DEF Faithful
    <3>3. CASE ~(i \in DOMAIN r.changed /\ merged[i] # NoCopy) /\ ~(i \in got /\ (cursor = 0 \/ held[i] = NoCopy))
      <4>1. held'[i] = held[i] /\ cursor # 0 /\ i \notin DOMAIN r.changed
        BY <2>1, <3>3, <1>3, <1>10
      <4>2. said[i].at >= since
        BY <2>1, <4>1, <1>15 DEF NothingMissed, WillHear
      <4>3. said[i].at >= r.now \/ said[i].at < since
        BY <4>1, <1>1, <1>15 DEF Replying
      <4> QED
        BY <4>2, <4>3, <1>8 DEF RoomKept
    <3> QED
      BY <3>1, <3>2, <3>3
  <2>2. ASSUME held'[i] = NoCopy, i <= cursor', NEW j \in Msg, held'[j] # NoCopy
        PROVE  j > i
    <3> SUFFICES ASSUME j <= i PROVE FALSE
      BY <1>9
    <3>1. i \notin got /\ j < i /\ i # cursor' /\ cursor' \in Msg
      <4>1. i # j /\ i \notin got
        BY <2>2, <1>11
      <4>2. cursor' \in Msg
        BY <2>2, <1>9
      <4>3. held'[cursor'] # NoCopy
        BY <4>2, <1>9, <1>14 DEF ScreenKept
      <4> QED
        BY <4>1, <4>2, <4>3, <2>2, <1>9
    \* What is above i came with this reply, or was held; so was what is below.
    <3>2. CASE cursor = 0
      <4>1. j \in got /\ cursor' \in got
        BY <3>1, <3>2, <2>2, <1>7, <1>9, <1>11
      <4> QED
        BY <4>1, <3>1, <2>2, <1>1, <1>9 DEF Replying, got
    <3>3. CASE cursor # 0 /\ i > cursor
      <4>1. cursor' \in got /\ i > r.from
        BY <3>1, <3>3, <2>2, <1>1, <1>7, <1>9 DEF Replying, FromHeld
      <4> QED
        BY <4>1, <3>1, <3>3, <2>2, <1>1, <1>9, <1>15 DEF Replying, got
    <3>4. CASE cursor # 0 /\ i <= cursor
      <4>1. held[i] = NoCopy /\ \A k \in Msg : held[k] # NoCopy => k > i
        BY <3>1, <3>4, <2>2, <1>9, <1>11, <1>15 DEF NothingMissed
      <4>2. j \in got
        <5>1. held[j] = NoCopy
          BY <4>1, <3>1, <1>9
        <5> QED
          BY <5>1, <2>2, <1>11
      <4>3. r.from # 0
        BY <4>1, <3>4, <1>9, <1>15, FeedBounds DEF Msg
      <4>4. r.from \in Msg /\ held[r.from] # NoCopy
        BY <4>3, <1>1, <1>9, FeedBounds DEF Replying, FromHeld, ScreenKept, Msg
      <4>5. j > r.from
        BY <4>2, <1>1 DEF Replying, got
      <4> QED
        BY <4>1, <4>4, <4>5, <3>1, <1>9
    <3> QED
      BY <3>2, <3>3, <3>4, <1>9
  <2> QED
    BY <2>1, <2>2, <1>2, <1>9
<1> QED
  BY <1>13, <1>14, <1>17, <1>18

LEMMA FeedStepInv == FeedInv /\ [FeedNext]_feedVars => FeedInv'
<1> SUFFICES ASSUME FeedInv, [FeedNext]_feedVars PROVE FeedInv'
  OBVIOUS
<1>1. CASE Tick
  BY <1>1, TickStep
<1>2. ASSUME NEW i \in Msg, NEW b \in Body, NEW parent \in Msg \union {0}, Say(i, b, parent) PROVE FeedInv'
  BY <1>2, SayStep
<1>3. ASSUME NEW i \in Msg, NEW s \in Shows, Change(i, s) PROVE FeedInv'
  BY <1>3, ChangeStep
<1>4. ASSUME NEW p \in Poll, Advance(p) PROVE FeedInv'
  BY <1>4, AskStep, AnswerStep, ApplyStep DEF Advance
<1>5. CASE UNCHANGED feedVars
  <2>1. UNCHANGED <<said, now, poll, client>>
    BY <1>5 DEF feedVars, client
  <2>2. RoomKept' /\ now' >= now
    BY <2>1 DEF FeedInv, RoomKept, Exists
  <2> QED
    BY <2>1, <2>2, RoomStep DEF Exists, Absent
<1> QED
  BY <1>1, <1>2, <1>3, <1>4, <1>5 DEF FeedNext

\* "A client that passes it back as `changed` misses nothing": what is on
\* screen and no longer true is due with the next poll, and no message is
\* missing between those on screen, however many polls overtake each other.
THEOREM PollsMissNothing == FeedSpec => []NothingMissed
<1>1. FeedSpec => []FeedInv
  BY FeedInitInv, FeedStepInv, PTL DEF FeedSpec
<1>2. FeedInv => NothingMissed
  BY DEF FeedInv
<1> QED
  BY <1>1, <1>2, PTL

=============================================================================
