------------------------------ MODULE PicturesProofs ------------------------------
(***************************************************************************)
(* The picture a row names is on disk, for any number of workers, versions *)
(* and overlapping requests, with the sweep running at any time.           *)
(***************************************************************************)
EXTENDS Pictures, TLAPS

-----------------------------------------------------------------------------
(* The invariant *)

Table == [member : BOOLEAN, avatar : Version \union {NoPicture}]

\* A handler at l has drawn a version and has yet to point the row at it; it is
\* going to remove what it found at its start.
Drawing   == {"render", "point"}
Replacing == Drawing \union {"unpoint", "remove"}

Holds(l, a) ==
    /\ l \in Drawing => a.version \in used
    /\ l \in Replacing => a.previous \in used \union {NoPicture}

\* No row will be pointed at v any more.
Avoided(v, l, a) == \A t \in Workers : l[t] \in Drawing => a[t].version # v
Over(v) == Avoided(v, pc, arg)

\* What a handler at l with a relies on.
Knows(l, a) ==
    /\ l \in Drawing => a.version # db.avatar
    /\ l = "render" => a.version \notin onDisk
    /\ l = "point" => a.version \in onDisk \intersect young
    /\ l \in Replacing => Over(a.previous)
    /\ l = "remove" /\ a.previous # NoPicture => a.previous # db.avatar

\* As long as no pointer was undone.
Clean ==
    /\ db.avatar # NoPicture => db.avatar \in onDisk
    /\ ~db.member => db.avatar = NoPicture
    /\ \A t \in Workers : Knows(pc[t], arg[t])
    /\ looked # NoPicture => looked # db.avatar /\ Over(looked)

Typed ==
    /\ db \in Table /\ durable \in Table
    /\ pc = [t \in Workers |-> pc[t]] /\ arg = [t \in Workers |-> arg[t]]
    /\ used \subseteq Version /\ onDisk \subseteq used
    /\ db.avatar \in used \union {NoPicture} /\ durable.avatar \in used \union {NoPicture}
    /\ looked \in used \union {NoPicture}
    /\ \A t \in Workers : Holds(pc[t], arg[t])

Inv ==
    /\ Typed
    /\ \A t, v \in Workers : t # v /\ pc[t] \in Drawing /\ pc[v] \in Drawing
                                 => arg[t].version # arg[v].version
    /\ ~undone => Clean

LEMMA InitInv == PictureInit => Inv
<1> SUFFICES ASSUME PictureInit PROVE Inv
  OBVIOUS
<1>1. PICK d \in PictureTables : HandlersInit(d)
  BY DEF PictureInit
<1>2. FirstPicture \in Version /\ FirstPicture # NoPicture
  BY PictureNames DEF FirstPicture
<1>3. d \in Table /\ d.member = TRUE /\ d.avatar = FirstPicture
  BY <1>1, <1>2 DEF PictureTables, Table
<1>4. \A a : Holds("idle", a) /\ Knows("idle", a) /\ "idle" \notin Drawing
  BY DEF Holds, Knows, Drawing, Replacing
<1>5. /\ db = d /\ durable = d
      /\ pc = [t \in Workers |-> "idle"] /\ arg = [t \in Workers |-> NoArg]
      /\ onDisk = {FirstPicture} /\ used = {FirstPicture} /\ looked = NoPicture
  BY <1>1 DEF HandlersInit, PictureInit, PictureStart
<1> QED
  BY <1>2, <1>3, <1>4, <1>5 DEF Inv, Typed, Clean

-----------------------------------------------------------------------------
(* What has to be shown of a step of t *)

LEMMA GotoIsEnter == ASSUME Inv, NEW t \in Workers, NEW l, Goto(t, l) PROVE Enter(t, l, arg[t])
BY DEF Inv, Typed, Goto, Enter

\* The versions handlers hold are those they held, or one that is new.
Draws(t, l, a) ==
    l \in Drawing => \/ pc[t] \in Drawing /\ a.version = arg[t].version
                     \/ a.version \in Version \ used

LEMMA Entered ==
    ASSUME Inv, NEW t \in Workers, NEW l, NEW a, Enter(t, l, a)
    PROVE  /\ pc' = [v \in Workers |-> pc'[v]] /\ arg' = [v \in Workers |-> arg'[v]]
           /\ pc'[t] = l /\ arg'[t] = a /\ \A v \in Workers \ {t} : pc'[v] = pc[v] /\ arg'[v] = arg[v]
BY DEF Inv, Typed, Enter

LEMMA OverStays ==
    ASSUME Inv, NEW t \in Workers, NEW l, NEW a, Enter(t, l, a), Draws(t, l, a)
    PROVE  \A v \in used \union {NoPicture} : Avoided(v, pc, arg) => Avoided(v, pc', arg')
BY Entered, PictureNames DEF Avoided, Draws

LEMMA StepInv ==
    ASSUME Inv, NEW t \in Workers, NEW l, NEW a, Enter(t, l, a), Draws(t, l, a),
           db' \in Table, durable' \in Table,
           used \subseteq used', used' \subseteq Version, onDisk' \subseteq used',
           l \in Drawing => a.version \in used', l \in Replacing => a.previous \in used \union {NoPicture},
           db'.avatar \in used' \union {NoPicture}, durable'.avatar \in used' \union {NoPicture},
           looked' = looked, ~undone' => ~undone,
           ~undone' => /\ db'.avatar # NoPicture => db'.avatar \in onDisk'
                       /\ ~db'.member => db'.avatar = NoPicture
                       /\ looked # NoPicture => looked # db'.avatar
                       /\ \A v \in Workers : Knows(pc[v], arg[v])' 
    PROVE  Inv'
<1>1. \A v \in Workers : Holds(pc[v], arg[v])'
  BY Entered DEF Inv, Typed, Holds
<1>2. \A v, w \in Workers : v # w /\ pc'[v] \in Drawing /\ pc'[w] \in Drawing
                               => arg'[v].version # arg'[w].version
  BY Entered DEF Inv, Typed, Holds, Draws
<1>3. Typed'
  BY <1>1, Entered DEF Inv, Typed
<1>4. ~undone' => Clean'
  BY OverStays DEF Inv, Typed, Clean, Over
<1> QED
  BY <1>2, <1>3, <1>4 DEF Inv

\* What the other handlers know survives, if the row moves nowhere but to what
\* t drew, or to no picture, and files come and go as t alone decides.
LEMMA OthersKnow ==
    ASSUME Inv, Clean, NEW t \in Workers, NEW l, NEW a, Enter(t, l, a), Draws(t, l, a),
           \/ db'.avatar \in {db.avatar, NoPicture}
           \/ pc[t] \in Drawing /\ db'.avatar = arg[t].version,
           \A v \in Version : v \in onDisk' /\ v \notin onDisk => pc[t] \in Drawing /\ v = arg[t].version,
           \A v \in Version : v \in onDisk /\ v \notin onDisk' => Over(v),
           young \subseteq young', NEW v \in Workers \ {t}
    PROVE  Knows(pc[v], arg[v])'
<1>1. pc'[v] = pc[v] /\ arg'[v] = arg[v]
  BY Entered
<1>2. Knows(pc[v], arg[v]) /\ Holds(pc[v], arg[v]) /\ used \subseteq Version
  BY DEF Inv, Typed, Clean
<1>3. pc[v] \in Drawing => arg[v].version # db'.avatar
  BY <1>2, PictureNames DEF Knows, Holds, Inv
<1>4. pc[v] = "render" => arg[v].version \notin onDisk'
  BY <1>2 DEF Knows, Holds, Inv, Drawing
<1>5. pc[v] = "point" => arg[v].version \in onDisk' \intersect young'
  BY <1>2 DEF Knows, Holds, Over, Avoided, Drawing
<1>6. pc[v] \in Replacing => Over(arg[v].previous)'
  BY <1>1, <1>2, OverStays DEF Knows, Holds, Over
<1>7. pc[v] = "remove" /\ arg[v].previous # NoPicture => arg[v].previous # db'.avatar
  BY <1>2 DEF Knows, Over, Avoided, Replacing
<1> QED
  BY <1>1, <1>3, <1>4, <1>5, <1>6, <1>7 DEF Knows

-----------------------------------------------------------------------------
(* The handlers *)

LEMMA Row == \A v \in Version \union {NoPicture} : db \in Table =>
                /\ Pointed(v) \in Table /\ Pointed(v).member = db.member
                /\ Pointed(v).avatar = IF db.member THEN v ELSE db.avatar
BY DEF Pointed, Table

\* A SELECT keeps tables as they are.
LEMMA QueryKeeps == ASSUME Inv, Query
                    PROVE  /\ db' = db /\ durable' = durable /\ db' \in Table /\ durable' \in Table
                           /\ db'.avatar \in used \union {NoPicture}
                           /\ durable'.avatar \in used \union {NoPicture}
BY DEF Query, conn, Inv, Typed

\* A handler at l that starts with the row's picture as the one to replace.
LEMMA PreviousOver == Inv /\ Clean => Over(db.avatar) /\ db.avatar \in used \union {NoPicture}
BY DEF Inv, Typed, Clean, Knows, Over, Avoided

LEMMA PutInv == ASSUME Inv, NEW t \in Workers, PutPicture(t) PROVE Inv'
<1>1. PICK v \in Version \ used :
         /\ Load(t, "render", [previous |-> db.avatar, version |-> v])
         /\ used' = used \union {v} /\ UNCHANGED <<onDisk, young, looked, undone>>
  BY DEF PutPicture
<1> DEFINE a == [previous |-> db.avatar, version |-> v]
<1>2. Query /\ Enter(t, "render", a) /\ a.previous = db.avatar /\ a.version = v
  BY <1>1 DEF Load
<1> HIDE DEF a
<1>3. Draws(t, "render", a)
  BY <1>2 DEF Draws
<1>4. db.avatar \in used \union {NoPicture} /\ onDisk \subseteq used /\ used \subseteq Version
  BY DEF Inv, Typed
<1>5. ASSUME ~undone PROVE Clean /\ \A w \in Workers : Knows(pc[w], arg[w])'
  <2>1. Clean /\ Over(db.avatar)
    BY <1>5, PreviousOver DEF Inv
  <2>2. Avoided(db.avatar, pc', arg')
    BY <1>2, <1>3, <1>4, <2>1, OverStays DEF Over
  <2>3. Knows(pc[t], arg[t])'
    <3>1. pc'[t] = "render" /\ arg'[t] = a /\ db' = db
      BY <1>2, Entered, QueryKeeps
    <3>2. v # db.avatar /\ v \notin onDisk'
      BY <1>1, <1>4, PictureNames
    <3> QED
      BY <1>2, <2>2, <3>1, <3>2 DEF Knows, Over
  <2>4. ASSUME NEW w \in Workers \ {t} PROVE Knows(pc[w], arg[w])'
    BY <1>1, <1>2, <1>3, <2>1, QueryKeeps, OthersKnow
  <2> QED
    BY <2>1, <2>3, <2>4
<1>6. "render" \in Drawing
  BY DEF Drawing
<1> QED
  BY <1>1, <1>2, <1>3, <1>4, <1>5, <1>6, QueryKeeps, StepInv DEF Clean

LEMMA RenderInv == ASSUME Inv, NEW t \in Workers, Render(t) PROVE Inv'
<1>1. /\ pc[t] = "render" /\ Query /\ Enter(t, "point", arg[t])
      /\ onDisk' = onDisk \union {arg[t].version} /\ young' = young \union {arg[t].version}
      /\ UNCHANGED <<used, looked, undone>>
  BY GotoIsEnter DEF Render, At
<1>2. {"render", "point"} \subseteq Drawing /\ Drawing \subseteq Replacing
  BY DEF Drawing, Replacing
<1>3. Draws(t, "point", arg[t])
  BY <1>1, <1>2 DEF Draws
<1>4. /\ arg[t].version \in used /\ arg[t].previous \in used \union {NoPicture}
      /\ used \subseteq Version /\ onDisk \subseteq used
  BY <1>1, <1>2 DEF Inv, Typed, Holds
<1>5. ASSUME ~undone PROVE Clean /\ \A w \in Workers : Knows(pc[w], arg[w])'
  <2>1. Clean /\ Knows(pc[t], arg[t])
    BY <1>5 DEF Inv, Clean
  <2>2. Avoided(arg[t].previous, pc', arg')
    BY <1>1, <1>2, <1>3, <1>4, <2>1, OverStays DEF Knows, Over
  <2>3. Knows(pc[t], arg[t])'
    BY <1>1, <1>2, <2>1, <2>2, Entered, QueryKeeps DEF Knows, Over
  <2>4. ASSUME NEW w \in Workers \ {t} PROVE Knows(pc[w], arg[w])'
    BY <1>1, <1>2, <1>3, <2>1, QueryKeeps, OthersKnow
  <2> QED
    BY <2>1, <2>3, <2>4
<1> QED
  BY <1>1, <1>2, <1>3, <1>4, <1>5, QueryKeeps, StepInv DEF Clean

\* A handler that is over, and what only reads and then waits, holds nothing
\* that another one minds.
LEMMA EndInv ==
    ASSUME Inv, NEW t \in Workers, NEW l, NEW a, Enter(t, l, a), l \notin Replacing,
           db' \in Table, durable' \in Table,
           db'.avatar \in used \union {NoPicture}, durable'.avatar \in used \union {NoPicture},
           ~undone' => db' = db \/ (~db'.member /\ db'.avatar = NoPicture),
           UNCHANGED pictureVars \/ (UNCHANGED <<onDisk, young, used, looked>> /\ (undone => undone'))
    PROVE  Inv'
<1>1. /\ l \notin Drawing /\ l # "render" /\ l # "point" /\ l # "remove"
  BY DEF Drawing, Replacing
<1>2. Draws(t, l, a)
  BY <1>1 DEF Draws
<1>3. UNCHANGED <<onDisk, young, used, looked>> /\ (undone => undone')
  BY DEF pictureVars
<1>4. ASSUME ~undone' PROVE Clean /\ \A w \in Workers : Knows(pc[w], arg[w])'
  <2>1. Clean
    BY <1>3, <1>4 DEF Inv
  <2>2. Knows(pc[t], arg[t])'
    BY <1>1, Entered DEF Knows
  <2>3. ASSUME NEW w \in Workers \ {t} PROVE Knows(pc[w], arg[w])'
    <3>1. db'.avatar \in {db.avatar, NoPicture}
      BY <1>4
    <3> QED
      BY <1>2, <1>3, <2>1, <3>1, OthersKnow
  <2> QED
    BY <2>1, <2>2, <2>3
<1>5. used \subseteq Version /\ onDisk \subseteq used
  BY DEF Inv, Typed
<1> QED
  BY <1>1, <1>2, <1>3, <1>4, <1>5, StepInv DEF Clean

LEMMA RenderFailsInv == ASSUME Inv, NEW t \in Workers, RenderFails(t) PROVE Inv'
<1>1. Query /\ Enter(t, "idle", NoArg) /\ UNCHANGED pictureVars /\ "idle" \notin Replacing
  BY DEF RenderFails, Return, Same, Replacing, Drawing
<1> QED
  BY <1>1, QueryKeeps, EndInv

\* UPDATE users SET avatar, to what was drawn or to NULL.
LEMMA PointInv == ASSUME Inv, NEW t \in Workers, Point(t) \/ Unpoint(t) PROVE Inv'
<1> DEFINE v == IF pc[t] = "point" THEN arg[t].version ELSE NoPicture
<1>1. PICK touched : /\ Execute(Pointed(v), touched) /\ Enter(t, "remove", arg[t])
                     /\ UNCHANGED pictureVars /\ pc[t] \in {"point", "unpoint"}
  <2>1. CASE Point(t)
    BY <2>1, GotoIsEnter DEF Point, Statement, At, Same
  <2>2. CASE Unpoint(t)
    BY <2>2, GotoIsEnter DEF Unpoint, Statement, At, Same
  <2> QED
    BY <2>1, <2>2
<1>2. /\ "remove" \notin Drawing /\ "remove" \in Replacing /\ pc[t] \in Replacing
      /\ pc[t] = "point" => pc[t] \in Drawing
  BY <1>1 DEF Drawing, Replacing
<1>3. /\ v \in used \union {NoPicture} /\ arg[t].previous \in used \union {NoPicture}
      /\ used \subseteq Version /\ onDisk \subseteq used
  BY <1>1, <1>2 DEF Inv, Typed, Holds
<1>4. Draws(t, "remove", arg[t])
  BY <1>2 DEF Draws
<1>5. /\ db' = Pointed(v) /\ durable' = IF owner = NoOwner THEN Pointed(v) ELSE durable
      /\ UNCHANGED <<onDisk, young, used, looked, undone>>
  BY <1>1 DEF Execute, pictureVars
<1>6. /\ db' \in Table /\ durable' \in Table /\ db'.member = db.member
      /\ db'.avatar = IF db.member THEN v ELSE db.avatar
      /\ db'.avatar \in used \union {NoPicture} /\ durable'.avatar \in used \union {NoPicture}
  <2>1. Pointed(v) \in Table /\ Pointed(v).member = db.member
        /\ Pointed(v).avatar = IF db.member THEN v ELSE db.avatar
    BY <1>3, Row DEF Inv, Typed
  <2> QED
    BY <1>3, <1>5, <2>1 DEF Inv, Typed
<1>7. v = NoPicture \/ (v = arg[t].version /\ pc[t] = "point")
  OBVIOUS
<1> HIDE DEF v
<1>8. ASSUME ~undone
      PROVE  /\ db'.avatar # NoPicture => db'.avatar \in onDisk'
             /\ ~db'.member => db'.avatar = NoPicture
             /\ looked # NoPicture => looked # db'.avatar
             /\ \A w \in Workers : Knows(pc[w], arg[w])'
  <2>1. Clean /\ Knows(pc[t], arg[t])
    BY <1>8 DEF Inv, Clean
  <2>2. db'.avatar # NoPicture =>
           pc[t] = "point" /\ db'.avatar = arg[t].version /\ db'.avatar \in onDisk
    BY <1>6, <1>7, <2>1 DEF Clean, Knows
  <2>3. db'.avatar # NoPicture => db'.avatar # arg[t].previous /\ db'.avatar # looked
    BY <1>2, <2>1, <2>2 DEF Clean, Knows, Over, Avoided
  <2>4. Avoided(arg[t].previous, pc', arg')
    BY <1>1, <1>2, <1>3, <1>4, <2>1, OverStays DEF Knows, Over
  <2>5. Knows(pc[t], arg[t])'
    BY <1>1, <1>2, <2>3, <2>4, Entered DEF Knows, Over
  <2>6. ASSUME NEW w \in Workers \ {t} PROVE Knows(pc[w], arg[w])'
    <3>1. db'.avatar = NoPicture \/ (pc[t] \in Drawing /\ db'.avatar = arg[t].version)
      BY <1>2, <2>2
    <3> QED
      BY <1>1, <1>4, <1>5, <2>1, <3>1, OthersKnow
  <2> QED
    BY <1>5, <1>6, <2>1, <2>2, <2>3, <2>5, <2>6 DEF Clean
<1> QED
  BY <1>1, <1>2, <1>3, <1>4, <1>5, <1>6, <1>8, StepInv

LEMMA DropInv == ASSUME Inv, NEW t \in Workers, DropPicture(t) PROVE Inv'
<1> DEFINE a == [previous |-> db.avatar, version |-> NoPicture]
<1>1. Query /\ Enter(t, "unpoint", a) /\ UNCHANGED pictureVars /\ a.previous = db.avatar
  BY DEF DropPicture, Load, Same
<1> HIDE DEF a
<1>2. "unpoint" \notin Drawing /\ Draws(t, "unpoint", a)
  BY DEF Draws, Drawing
<1>3. db.avatar \in used \union {NoPicture} /\ onDisk \subseteq used /\ used \subseteq Version
  BY DEF Inv, Typed
<1>4. UNCHANGED <<onDisk, young, used, looked, undone>>
  BY <1>1 DEF pictureVars
<1>5. ASSUME ~undone PROVE Clean /\ \A w \in Workers : Knows(pc[w], arg[w])'
  <2>1. Clean /\ Over(db.avatar)
    BY <1>5, PreviousOver DEF Inv
  <2>2. Avoided(db.avatar, pc', arg')
    BY <1>1, <1>2, <1>3, <2>1, OverStays DEF Over
  <2>3. Knows(pc[t], arg[t])'
    <3>1. pc'[t] = "unpoint" /\ arg'[t] = a /\ db' = db
      BY <1>1, Entered, QueryKeeps
    <3> QED
      BY <1>1, <1>2, <2>2, <3>1 DEF Knows, Over
  <2>4. ASSUME NEW w \in Workers \ {t} PROVE Knows(pc[w], arg[w])'
    BY <1>1, <1>2, <1>4, <2>1, QueryKeeps, OthersKnow
  <2> QED
    BY <2>1, <2>3, <2>4
<1> QED
  BY <1>1, <1>2, <1>3, <1>4, <1>5, QueryKeeps, StepInv DEF Clean

LEMMA RemovePreviousInv == ASSUME Inv, NEW t \in Workers, RemovePrevious(t) PROVE Inv'
<1>1. /\ pc[t] = "remove" /\ Query /\ Enter(t, "idle", NoArg)
      /\ onDisk' = onDisk \ {arg[t].previous} /\ UNCHANGED <<young, used, looked, undone>>
  BY DEF RemovePrevious, At, Return
<1>2. "idle" \notin Replacing /\ "idle" \notin Drawing /\ pc[t] \in Replacing
  BY <1>1 DEF Replacing, Drawing
<1>3. Draws(t, "idle", NoArg)
  BY <1>2 DEF Draws
<1>4. onDisk \subseteq used /\ used \subseteq Version
  BY DEF Inv, Typed
<1>5. ASSUME ~undone
      PROVE  Clean /\ (db.avatar # NoPicture => db.avatar \in onDisk')
             /\ \A w \in Workers : Knows(pc[w], arg[w])'
  <2>1. Clean /\ Knows(pc[t], arg[t])
    BY <1>5 DEF Inv, Clean
  <2>2. db.avatar # NoPicture => db.avatar # arg[t].previous
    BY <1>1, <2>1 DEF Knows
  <2>3. Knows(pc[t], arg[t])'
    BY <1>1, <1>2, Entered DEF Knows
  <2>4. ASSUME NEW w \in Workers \ {t} PROVE Knows(pc[w], arg[w])'
    <3>1. Over(arg[t].previous)
      BY <1>2, <2>1 DEF Knows
    <3> QED
      BY <1>1, <1>3, <2>1, <3>1, QueryKeeps, OthersKnow
  <2> QED
    BY <1>1, <2>1, <2>2, <2>3, <2>4 DEF Clean
<1> QED
  BY <1>1, <1>2, <1>3, <1>4, <1>5, QueryKeeps, StepInv DEF Clean

LEMMA DropMemberInv == ASSUME Inv, NEW t \in Workers, DropMember(t) PROVE Inv'
<1> DEFINE d == [db EXCEPT !.member = FALSE, !.avatar = NoPicture]
<1>1. /\ pc[t] = "idle" /\ Execute(d, TRUE) /\ pc' = pc /\ arg' = arg /\ UNCHANGED pictureVars
  BY DEF DropMember, Request, Idle, At, Same
<1>2. d \in Table /\ ~d.member /\ d.avatar = NoPicture
  BY DEF Inv, Typed, Table
<1> HIDE DEF d
<1>3. Enter(t, "idle", arg[t]) /\ "idle" \notin Replacing
  BY <1>1 DEF Enter, Inv, Typed, Replacing, Drawing
<1>4. /\ db' = d /\ durable' \in Table /\ durable'.avatar \in used \union {NoPicture}
  BY <1>1, <1>2 DEF Execute, Inv, Typed
<1> QED
  BY <1>1, <1>2, <1>3, <1>4, EndInv

LEMMA BesideInv == ASSUME Inv, NEW t \in Workers, Beside(t) PROVE Inv'
<1>0. /\ "idle" \notin Replacing /\ "beside" \notin Replacing
      /\ db \in Table /\ durable \in Table
      /\ db.avatar \in used \union {NoPicture} /\ durable.avatar \in used \union {NoPicture}
  BY DEF Inv, Typed, Replacing, Drawing
<1>1. CASE Idle(t) /\ Begin(t) /\ Enter(t, "beside", NoArg) /\ Same
  BY <1>0, <1>1, EndInv DEF Begin, Same
<1>2. CASE CommitAt(t, "beside") /\ Same
  BY <1>0, <1>2, EndInv DEF CommitAt, Commit, Return, Same
<1>3. CASE Throw(t, "beside") /\ Undoes /\ UNCHANGED <<onDisk, young, used, looked>>
  <2>1. db' = durable /\ durable' = durable /\ Enter(t, "idle", NoArg)
    BY <1>3 DEF Throw, Rollback, Return
  <2>2. (undone => undone') /\ (~undone' => db' = db)
    BY <1>3, <2>1 DEF Undoes
  <2> QED
    BY <1>0, <1>3, <2>1, <2>2, EndInv
<1> QED
  BY <1>1, <1>2, <1>3 DEF Beside

-----------------------------------------------------------------------------
(* The sweep, time and crashes *)

\* No handler moves.
LEMMA StillInv ==
    ASSUME Inv, UNCHANGED <<server, used, undone>>, onDisk' \subseteq used,
           looked' \in used \union {NoPicture},
           ~undone => /\ db.avatar # NoPicture => db.avatar \in onDisk'
                      /\ \A t \in Workers : Knows(pc[t], arg[t])'
                      /\ looked' # NoPicture => looked' # db.avatar /\ Over(looked')
    PROVE  Inv'
<1>1. /\ pc' = pc /\ arg' = arg /\ db' = db /\ durable' = durable
      /\ used' = used /\ undone' = undone
  BY DEF server, conn
<1>2. Typed'
  BY <1>1 DEF Inv, Typed, Holds
<1>3. ~undone' => Clean'
  BY <1>1 DEF Inv, Clean, Over, Avoided
<1> QED
  BY <1>1, <1>2, <1>3 DEF Inv

LEMMA AgeInv == ASSUME Inv, NEW v \in Version, Age(v) PROVE Inv'
<1>1. /\ \A t \in Workers : pc[t] = "point" => arg[t].version # v
      /\ young' = young \ {v} /\ UNCHANGED <<server, onDisk, used, looked, undone>>
  BY DEF Age, At
<1>2. pc' = pc /\ arg' = arg /\ db' = db
  BY <1>1 DEF server, conn
<1>3. ~undone => \A t \in Workers : Knows(pc[t], arg[t])'
  BY <1>1, <1>2 DEF Inv, Clean, Knows, Over, Avoided
<1> QED
  BY <1>1, <1>3, StillInv DEF Inv, Typed, Clean

LEMMA LookInv == ASSUME Inv, Look PROVE Inv'
<1>1. PICK v \in onDisk : v \notin young /\ db.avatar # v /\ looked' = v
  BY DEF Look, Old, Stale
<1>2. UNCHANGED <<server, onDisk, young, used, undone>>
  BY DEF Look
<1>3. pc' = pc /\ arg' = arg /\ db' = db
  BY <1>2 DEF server, conn
<1>4. ASSUME ~undone PROVE Over(v)
  BY <1>1, <1>4 DEF Inv, Clean, Knows, Over, Avoided, Drawing
<1>5. ~undone => \A t \in Workers : Knows(pc[t], arg[t])'
  BY <1>2, <1>3 DEF Inv, Clean, Knows, Over, Avoided
<1> QED
  BY <1>1, <1>2, <1>4, <1>5, StillInv DEF Inv, Typed, Clean

LEMMA RemoveStaleInv == ASSUME Inv, RemoveStale PROVE Inv'
<1>1. /\ onDisk' = onDisk \ {looked} /\ looked' = NoPicture /\ looked # NoPicture
      /\ UNCHANGED <<server, young, used, undone>>
  BY DEF RemoveStale
<1>2. pc' = pc /\ arg' = arg /\ db' = db
  BY <1>1 DEF server, conn
<1>3. ~undone => \A t \in Workers : Knows(pc[t], arg[t])'
  BY <1>1, <1>2 DEF Inv, Clean, Knows, Over, Avoided, Drawing
<1>4. ~undone /\ db.avatar # NoPicture => db.avatar \in onDisk'
  BY <1>1 DEF Inv, Clean
<1> QED
  BY <1>1, <1>3, <1>4, StillInv DEF Inv, Typed

LEMMA RestartInv == ASSUME Inv, PictureRestart PROVE Inv'
<1>1. /\ db' = durable /\ durable' = durable
      /\ pc' = [t \in Workers |-> "idle"] /\ arg' = [t \in Workers |-> NoArg]
      /\ looked' = NoPicture /\ UNCHANGED <<onDisk, young, used>>
      /\ ~undone' => ~undone /\ db' = db
  BY DEF PictureRestart, Restart, Reopen, Undoes
<1>2. "idle" \notin Drawing /\ \A a : Holds("idle", a)' /\ Knows("idle", a)'
  BY DEF Holds, Knows, Drawing, Replacing
<1>3. Typed'
  BY <1>1, <1>2 DEF Inv, Typed
<1>4. ~undone' => Clean'
  BY <1>1, <1>2 DEF Inv, Clean
<1> QED
  BY <1>1, <1>2, <1>3, <1>4 DEF Inv

LEMMA NextInv == Inv /\ [PictureNext]_pictures => Inv'
<1> SUFFICES ASSUME Inv, [PictureNext]_pictures PROVE Inv'
  OBVIOUS
<1>1. CASE UNCHANGED pictures
  <2>1. UNCHANGED <<server, used, undone, onDisk, young, looked>>
    BY <1>1 DEF pictures, pictureVars
  <2>2. ~undone => \A t \in Workers : Knows(pc[t], arg[t])'
    BY <2>1 DEF server, conn, Inv, Clean, Knows, Over, Avoided
  <2> QED
    BY <2>1, <2>2, StillInv DEF Inv, Typed, Clean
<1>2. ASSUME NEW t \in Workers, PictureStep(t) \/ DropMember(t) \/ Beside(t) PROVE Inv'
  BY <1>2, PutInv, RenderInv, RenderFailsInv, PointInv, DropInv, RemovePreviousInv,
     DropMemberInv, BesideInv DEF PictureStep
<1>3. CASE (\E v \in Version : Age(v)) \/ Look \/ RemoveStale \/ PictureRestart
  BY <1>3, AgeInv, LookInv, RemoveStaleInv, RestartInv
<1> QED
  BY <1>1, <1>2, <1>3 DEF PictureNext

-----------------------------------------------------------------------------
THEOREM Invariant == PictureSpec => []Inv
BY InitInv, NextInv, PTL DEF PictureSpec

\* The picture a row names is there, in every overlap of requests with each other
\* and with the sweep, unless a rollback or a crash brought a pointer back.
THEOREM NamedIsThere == PictureSpec => []PictureThere
<1>1. Inv => PictureThere
  BY DEF Inv, Clean, PictureThere
<1> QED
  BY <1>1, Invariant, PTL

=============================================================================
