------------------------------ MODULE RoomsProofs ------------------------------
(***************************************************************************)
(* Rooms implements Membership, for any users, rooms and workers: whatever *)
(* the handlers do in their several statements, and wherever a crash cuts  *)
(* them short, what is committed moves by the steps Membership allows.     *)
(* On top of that invariant, a second one (Inv2) says of photos that none  *)
(* outlives its room, and of the inbox that an item is one recipient's,    *)
(* sent whole, and never past a block.                                     *)
(***************************************************************************)
EXTENDS Rooms, TLAPS

-----------------------------------------------------------------------------
(* The tables, as far as who is in a room and who is blocked goes *)

Fields == {"users", "rooms", "made", "mem", "by", "blocks", "photos", "live", "box"}
Framed(d) == d = [f \in Fields |-> d[f]]

Memberships == [Room -> [User -> MemberStates]]

\* The last conjunct is the foreign key of room_members.
Typed(d) ==
    /\ Framed(d)
    /\ d.rooms \subseteq Room /\ d.mem \in Memberships
    /\ d.by \in [Room -> [User -> User \union {Nobody}]]
    /\ d.blocks \subseteq User \X (User \union Room)
    /\ \A r \in Room \ d.rooms, u \in User : d.mem[r][u] = "none"

-----------------------------------------------------------------------------
(* The invariant *)

Within == {"create_room", "create_member", "create_commit", "answer", "block",
           "answer_commit", "send", "send_commit"}

Answering == {"answer_begin", "answer", "block", "answer_commit"}
HoldsUser == {"create_room", "create_member", "create_commit", "invite", "leave", "remove"}
                \union Answering
HoldsRoom == HoldsUser \union {"delete_photos", "delete_room"}

\* The transaction has not touched what matters, or has moved user u of room r to s.
Same(d, e) == d.mem = e.mem /\ d.blocks = e.blocks
Moved(d, e, r, u, s) == d.mem = [e.mem EXCEPT ![r][u] = s]

\* What a handler at l that holds a knows of the tables d and of what is
\* committed, e.
Knows(l, a, d, e) ==
    /\ l \in HoldsRoom => a.r \in Room
    /\ l \in HoldsUser => a.u \in User
    /\ l \in Answering => a.by \in User \union {Nobody} /\ a.answer \in Answers
    /\ l \in {"create_room", "create_member", "answer", "send", "send_commit"} => Same(d, e)
    /\ l \in {"create_room", "create_member", "create_commit"} => a.r \notin e.rooms
    /\ l \in {"create_member", "create_commit"} => a.r \in d.rooms
    /\ l = "create_commit" => Moved(d, e, a.r, a.u, "member") /\ d.blocks = e.blocks
    /\ l = "invite" => a.by \in User /\ a.r \in d.rooms
                       /\ <<a.u, a.by>> \notin d.blocks /\ <<a.u, a.r>> \notin d.blocks
    /\ l \in Answering => e.mem[a.r][a.u] = "invited"
    /\ l = "block" => a.answer \in {"block_room", "block_user"}
                      /\ Moved(d, e, a.r, a.u, "declined") /\ d.blocks = e.blocks
    /\ l = "answer_commit" =>
          \/ Moved(d, e, a.r, a.u, "member") /\ d.blocks = e.blocks
          \/ /\ Moved(d, e, a.r, a.u, "declined")
             /\ d.blocks \in {e.blocks} \union {e.blocks \union {<<a.u, x>>} : x \in User \union {a.r}}
    /\ l = "leave" => d.mem[a.r][a.u] = "member"
    /\ l = "remove" => d.mem[a.r][a.u] \in {"member", "invited"}

Inv ==
    /\ Typed(db) /\ Typed(durable)
    /\ pc = [t \in Workers |-> pc[t]] /\ arg = [t \in Workers |-> arg[t]]
    /\ owner \in Workers \union {NoOwner}
    /\ \A t, v \in Workers : ~Idle(t) /\ ~Idle(v) => t = v
    /\ \A t \in Workers : pc[t] \in Within <=> owner = t
    /\ owner = NoOwner => db = durable
    /\ \A t \in Workers : Knows(pc[t], arg[t], db, durable)

LEMMA KnowsNothing == ASSUME NEW a, NEW d, NEW e PROVE Knows("idle", a, d, e) /\ "idle" \notin Within
BY DEF Knows, Within, HoldsRoom, HoldsUser, Answering

LEMMA InitInv == Init => Inv
<1> SUFFICES ASSUME Init PROVE Inv
  OBVIOUS
<1>1. Typed(db)
  BY DEF Init, HandlersInit, Typed, Framed, Fields, Memberships, MemberStates
<1>2. db = durable /\ owner = NoOwner /\ pc = [t \in Workers |-> "idle"] /\ arg = [t \in Workers |-> NoArg]
  BY DEF Init, HandlersInit
<1> QED
  BY <1>1, <1>2, KnowsNothing, WorkersApart DEF Inv, Idle, At

-----------------------------------------------------------------------------
(* The kinds of step there are *)

LEMMA GotoIsEnter == ASSUME Inv, NEW t \in Workers, NEW l, Goto(t, l) PROVE Enter(t, l, arg[t])
BY DEF Inv, Goto, Enter

\* A step of t, which is alone: what has to be shown of it.
LEMMA StepInv ==
    ASSUME Inv, NEW t \in Workers, Alone(t), NEW l, NEW a, Enter(t, l, a),
           Typed(db'), Typed(durable'), Knows(l, a, db', durable'),
           owner' = IF l \in Within THEN t ELSE NoOwner, l \notin Within => db' = durable'
    PROVE  Inv'
<1>1. /\ pc' = [v \in Workers |-> pc'[v]] /\ arg' = [v \in Workers |-> arg'[v]]
      /\ pc'[t] = l /\ arg'[t] = a /\ \A v \in Workers \ {t} : pc'[v] = "idle"
  BY DEF Inv, Enter, Alone, Idle, At
<1>2. \A v \in Workers : Knows(pc'[v], arg'[v], db', durable')
  BY <1>1, KnowsNothing
<1>3. \A v, w \in Workers : ~Idle(v)' /\ ~Idle(w)' => v = w
  BY <1>1 DEF Idle, At
<1>4. \A v \in Workers : pc'[v] \in Within <=> owner' = v
  BY <1>1, KnowsNothing, WorkersApart
<1>5. owner' = NoOwner => db' = durable'
  BY WorkersApart
<1> QED
  BY <1>1, <1>2, <1>3, <1>4, <1>5 DEF Inv, Typed, Framed, Fields

LEMMA AloneIs ==
    ASSUME Inv, NEW t \in Workers, Alone(t)
    PROVE  /\ owner = IF pc[t] \in Within THEN t ELSE NoOwner
           /\ pc[t] \notin Within => db = durable
           /\ Knows(pc[t], arg[t], db, durable)
BY KnowsNothing, WorkersApart DEF Inv, Alone, Idle, At

-----------------------------------------------------------------------------
(* What the statements make of the tables *)

LEMMA TypedMove ==
    ASSUME NEW d, Typed(d), NEW r \in Room, NEW u \in User, NEW s \in MemberStates,
           r \in d.rooms \/ s = "none"
    PROVE  LET e == [d EXCEPT !.mem[r][u] = s] IN
           Typed(e) /\ Moved(e, d, r, u, s) /\ e.blocks = d.blocks /\ e.rooms = d.rooms
<1> DEFINE n == [d.mem EXCEPT ![r][u] = s]
           e == [d EXCEPT !.mem = n]
<1>1. n \in Memberships
  BY DEF Typed, Memberships
<1>2. \A q \in Room, v \in User : n[q][v] = IF q = r /\ v = u THEN s ELSE d.mem[q][v]
  BY DEF Typed, Memberships
<1>3. /\ Framed(e) /\ e.mem = n /\ e.blocks = d.blocks /\ e.rooms = d.rooms /\ e.by = d.by
  BY DEF Typed, Framed, Fields
<1>4. [d EXCEPT !.mem[r][u] = s] = e
  OBVIOUS
<1>5. Moved(e, d, r, u, s)
  BY <1>3 DEF Moved
<1> HIDE DEF e, n
<1>6. Typed(e)
  BY <1>1, <1>2, <1>3 DEF Typed
<1> QED
  BY <1>3, <1>4, <1>5, <1>6

LEMMA TypedBy ==
    ASSUME NEW d, Typed(d), NEW r \in Room, NEW u \in User, NEW b \in User \union {Nobody}
    PROVE  LET e == [d EXCEPT !.by[r][u] = b] IN
           Typed(e) /\ Same(e, d) /\ e.rooms = d.rooms
BY DEF Typed, Framed, Fields, Same

LEMMA TypedBlocks ==
    ASSUME NEW d, Typed(d), NEW B \in SUBSET (User \X (User \union Room))
    PROVE  LET e == [d EXCEPT !.blocks = B] IN
           Typed(e) /\ e.mem = d.mem /\ e.blocks = B /\ e.rooms = d.rooms
BY DEF Typed, Framed, Fields

LEMMA TypedPhotos ==
    ASSUME NEW d, Typed(d), NEW x
    PROVE  LET e == [d EXCEPT !.photos = x] IN Typed(e) /\ Same(e, d) /\ e.rooms = d.rooms
BY DEF Typed, Framed, Fields, Same

LEMMA TypedLive ==
    ASSUME NEW d, Typed(d), NEW x
    PROVE  LET e == [d EXCEPT !.live = x] IN Typed(e) /\ Same(e, d) /\ e.rooms = d.rooms
BY DEF Typed, Framed, Fields, Same

LEMMA TypedBox ==
    ASSUME NEW d, Typed(d), NEW x
    PROVE  LET e == [d EXCEPT !.box = x] IN Typed(e) /\ Same(e, d) /\ e.rooms = d.rooms
BY DEF Typed, Framed, Fields, Same

LEMMA TypedRooms ==
    ASSUME NEW d, Typed(d), NEW R \in SUBSET Room, d.rooms \subseteq R
    PROVE  LET e == [d EXCEPT !.rooms = R] IN Typed(e) /\ Same(e, d) /\ e.rooms = R
BY DEF Typed, Framed, Fields, Same

LEMMA TypedMade ==
    ASSUME NEW d, Typed(d), NEW x
    PROVE  LET e == [d EXCEPT !.made = x] IN Typed(e) /\ Same(e, d) /\ e.rooms = d.rooms
BY DEF Typed, Framed, Fields, Same

LEMMA TypedRoom ==
    ASSUME NEW d, Typed(d), NEW r \in Room, NEW u
    PROVE  LET e == [d EXCEPT !.rooms = @ \union {r}, !.made[r] = u] IN
           Typed(e) /\ Same(e, d) /\ r \in e.rooms
<1> DEFINE R == d.rooms \union {r}
           q == [d EXCEPT !.rooms = R]
           x == [q.made EXCEPT ![r] = u]
           e == [q EXCEPT !.made = x]
<1>1. [d EXCEPT !.rooms = @ \union {r}, !.made[r] = u] = e
  BY DEF Typed, Framed, Fields
<1>2. R \in SUBSET Room /\ d.rooms \subseteq R
  BY DEF Typed
<1> HIDE DEF R
<1>3. Typed(q) /\ Same(q, d) /\ q.rooms = R
  BY <1>2, TypedRooms
<1> HIDE DEF q, x
<1>4. Typed(e) /\ Same(e, q) /\ e.rooms = q.rooms
  BY <1>3, TypedMade
<1> HIDE DEF e
<1> QED
  BY <1>1, <1>3, <1>4 DEF Same, R

-----------------------------------------------------------------------------
(* What they make of Membership's state *)

Implements == [M!Next]_<<[r \in Room |-> [u \in User |-> Relation(durable.mem[r][u])]],
                        durable.blocks>>

RelOf(m) == [r \in Room |-> [u \in User |-> Relation(m[r][u])]]

LEMMA RelMoved ==
    ASSUME NEW m \in Memberships, NEW r \in Room, NEW u \in User, NEW s
    PROVE  RelOf([m EXCEPT ![r][u] = s]) = [RelOf(m) EXCEPT ![r][u] = Relation(s)]
BY DEF Memberships, RelOf

LEMMA StaysPut == ASSUME RelOf(durable'.mem) = RelOf(durable.mem), durable'.blocks = durable.blocks
                  PROVE  Implements
BY DEF Implements, RelOf

\* A step that moves one user of one room and no blocks.
LEMMA MovesOne ==
    ASSUME Typed(durable), NEW r \in Room, NEW u \in User, NEW s \in MemberStates,
           Moved(durable', durable, r, u, s), durable'.blocks = durable.blocks,
           \/ Relation(s) = Relation(durable.mem[r][u])
           \/ Relation(s) = "out"
           \/ Relation(s) = "in" /\ Relation(durable.mem[r][u]) = "asked"
           \/ Relation(s) = "in" /\ \A v \in User : Relation(durable.mem[r][v]) = "out"
           \/ /\ Relation(s) = "asked" /\ Relation(durable.mem[r][u]) = "out"
              /\ <<u, r>> \notin durable.blocks
              /\ \E by \in User : <<u, by>> \notin durable.blocks
    PROVE  Implements
<1> DEFINE rel == RelOf(durable.mem)
           now == RelOf(durable'.mem)
<1>1. now = [rel EXCEPT ![r][u] = Relation(s)]
  <2>1. durable.mem \in Memberships /\ durable'.mem = [durable.mem EXCEPT ![r][u] = s]
    BY DEF Typed, Moved
  <2> QED
    BY <2>1, RelMoved
<1>2. rel[r][u] = Relation(durable.mem[r][u]) /\ \A v \in User : rel[r][v] = Relation(durable.mem[r][v])
  BY DEF RelOf
<1>3. rel \in [Room -> [User -> {"out", "asked", "in"}]]
  BY DEF RelOf, Relation
<1>4. CASE Relation(s) = rel[r][u]
  BY <1>1, <1>3, <1>4, StaysPut
<1>5. CASE Relation(s) = "out" /\ rel[r][u] # "out"
  <2>1. M!Drop(r, u)
    BY <1>1, <1>5 DEF M!Drop, M!Become, RelOf
  <2> QED
    BY <2>1 DEF Implements, M!Next
<1>6. CASE Relation(s) = "in" /\ rel[r][u] = "asked"
  <2>1. M!Accept(r, u)
    BY <1>1, <1>6 DEF M!Accept, M!Become, RelOf
  <2> QED
    BY <2>1 DEF Implements, M!Next
<1>7. CASE Relation(s) = "in" /\ \A v \in User : rel[r][v] = "out"
  <2>1. M!Create(r, u)
    BY <1>1, <1>7 DEF M!Create, M!Empty, M!Become, RelOf
  <2> QED
    BY <2>1 DEF Implements, M!Next
<1>8. ASSUME Relation(s) = "asked", rel[r][u] = "out", <<u, r>> \notin durable.blocks,
             NEW by \in User, <<u, by>> \notin durable.blocks
      PROVE  Implements
  <2>1. M!Invite(r, by, u)
    BY <1>1, <1>8 DEF M!Invite, M!Become, RelOf
  <2> QED
    BY <2>1 DEF Implements, M!Next
<1> HIDE DEF rel, now
<1> QED
  BY <1>2, <1>4, <1>5, <1>6, <1>7, <1>8

-----------------------------------------------------------------------------
(* One lemma for each kind of step *)

\* BEGIN, or a statement of t that its transaction goes on after: what is
\* committed does not change.
LEMMA BeginStep ==
    ASSUME Inv, NEW t \in Workers, Alone(t), NEW l, NEW m, BeginAt(t, l, m), m \in Within,
           Knows(m, arg[t], db, durable)
    PROVE  Inv' /\ Implements
<1>1. Enter(t, m, arg[t]) /\ db' = db /\ durable' = durable /\ owner' = t
  BY GotoIsEnter DEF BeginAt, Begin
<1>2. Typed(db') /\ Typed(durable') /\ Knows(m, arg[t], db', durable')
  BY <1>1 DEF Inv, Typed, Framed, Fields
<1> QED
  BY <1>1, <1>2, StepInv, StaysPut

LEMMA WithinStep ==
    ASSUME Inv, NEW t \in Workers, Alone(t), pc[t] \in Within, NEW m \in Within, NEW a,
           NEW d, NEW x, Execute(d, x), Enter(t, m, a), Typed(d), Knows(m, a, d, durable)
    PROVE  Inv' /\ Implements
<1>1. owner = t /\ owner # NoOwner
  BY AloneIs, WorkersApart
<1>2. db' = d /\ durable' = durable /\ owner' = t
  BY <1>1 DEF Execute
<1>3. Typed(db') /\ Typed(durable') /\ Knows(m, a, db', durable')
  BY <1>2 DEF Inv, Typed, Framed, Fields
<1> QED
  BY <1>2, <1>3, StepInv, StaysPut

\* A statement that commits by itself.
LEMMA OwnStep ==
    ASSUME Inv, NEW t \in Workers, Alone(t), pc[t] \notin Within, NEW m, m \notin Within, NEW a,
           NEW d, NEW x, Execute(d, x), Enter(t, m, a), Typed(d), Knows(m, a, d, d)
    PROVE  Inv' /\ durable' = d /\ db = durable
<1>1. owner = NoOwner /\ db = durable
  BY AloneIs
<1>2. db' = d /\ durable' = d /\ owner' = NoOwner
  BY <1>1 DEF Execute
<1>3. Typed(db') /\ Typed(durable') /\ Knows(m, a, db', durable')
  BY <1>2 DEF Typed, Framed, Fields
<1> QED
  BY <1>1, <1>2, <1>3, StepInv

LEMMA CommitStep ==
    ASSUME Inv, NEW t \in Workers, Alone(t), NEW l, CommitAt(t, l)
    PROVE  Inv' /\ durable' = db /\ pc[t] = l /\ Knows(l, arg[t], db, durable)
<1>1. /\ pc[t] = l /\ Enter(t, "idle", NoArg) /\ db' = db /\ durable' = db /\ owner' = NoOwner
  BY DEF CommitAt, Commit, Return, At
<1>2. Typed(db') /\ Typed(durable')
  BY <1>1 DEF Inv, Typed, Framed, Fields
<1>3. Knows(l, arg[t], db, durable)
  BY <1>1, AloneIs
<1> QED
  BY <1>1, <1>2, <1>3, StepInv, KnowsNothing

LEMMA ThrowStep ==
    ASSUME Inv, NEW t \in Workers, Alone(t), NEW l, Throw(t, l) PROVE Inv' /\ Implements
<1>1. /\ Enter(t, "idle", NoArg) /\ db' = durable /\ durable' = durable /\ owner' = NoOwner
  BY DEF Throw, Rollback, Return
<1>2. Typed(db') /\ Typed(durable')
  BY <1>1 DEF Inv, Typed, Framed, Fields
<1> QED
  BY <1>1, <1>2, StepInv, KnowsNothing, StaysPut

\* The SELECTs a request starts with.
LEMMA LoadStep ==
    ASSUME Inv, NEW t \in Workers, Alone(t), NEW l, NEW a, Load(t, l, a), l \notin Within,
           db = durable => Knows(l, a, db, db)
    PROVE  Inv' /\ Implements
<1>1. pc[t] = "idle" /\ Enter(t, l, a) /\ db' = db /\ durable' = durable /\ owner' = owner
  BY DEF Load, Idle, At, Query, conn
<1>2. owner = NoOwner /\ db = durable
  BY <1>1, AloneIs, KnowsNothing
<1>3. Typed(db') /\ Typed(durable')
  BY <1>1 DEF Inv, Typed, Framed, Fields
<1> QED
  BY <1>1, <1>2, <1>3, StepInv, StaysPut

LEMMA RestartStep == ASSUME Inv, Restart PROVE Inv' /\ Implements
<1>1. /\ db' = durable /\ durable' = durable /\ owner' = NoOwner
      /\ pc' = [t \in Workers |-> "idle"] /\ arg' = [t \in Workers |-> NoArg]
  BY DEF Restart, Reopen
<1>2. Typed(db') /\ Typed(durable')
  BY <1>1 DEF Inv, Typed, Framed, Fields
<1>3. Inv'
  BY <1>1, <1>2, KnowsNothing, WorkersApart DEF Inv, Idle, At
<1> QED
  BY <1>1, <1>3, StaysPut

LEMMA RequestIs ==
    ASSUME Inv, NEW t \in Workers, NEW d, NEW x, Request(t, d, x)
    PROVE  pc[t] = "idle" /\ Execute(d, x) /\ Enter(t, "idle", arg[t])
BY DEF Inv, Request, Idle, At, Enter

\* A request of one statement that leaves rooms and blocks alone.
LEMMA SameRequest ==
    ASSUME Inv, NEW t \in Workers, Alone(t), NEW d, NEW x, Request(t, d, x), Typed(d), Same(d, db)
    PROVE  Inv' /\ Implements
<1>1. Inv' /\ durable' = d /\ db = durable
  BY RequestIs, OwnStep, KnowsNothing
<1> QED
  BY <1>1, StaysPut DEF Same

-----------------------------------------------------------------------------
(* Creating a room *)

LEMMA CreateBeginStep ==
    ASSUME Inv, NEW t \in Workers, Alone(t), NEW r \in Room, NEW u \in User, CreateBegin(t, r, u)
    PROVE  Inv' /\ Implements
<1> DEFINE a == [r |-> r, u |-> u]
<1>1. /\ pc[t] = "idle" /\ Enter(t, "create_room", a) /\ r \notin db.rooms
      /\ db' = db /\ durable' = durable /\ owner' = t
  BY DEF CreateBegin, Begin, Idle, At
<1>2. db = durable
  BY <1>1, AloneIs, KnowsNothing
<1>3. Typed(db') /\ Typed(durable')
  BY <1>1 DEF Inv, Typed, Framed, Fields
<1>4. Knows("create_room", a, db', durable')
  BY <1>1, <1>2 DEF Knows, Same, HoldsRoom, HoldsUser, Answering
<1>5. "create_room" \in Within
  BY DEF Within
<1> QED
  BY <1>1, <1>3, <1>4, <1>5, StepInv, StaysPut

LEMMA CreateRoomStep ==
    ASSUME Inv, NEW t \in Workers, Alone(t), CreateRoom(t) PROVE Inv' /\ Implements
<1> DEFINE a == arg[t]
           d == [db EXCEPT !.rooms = @ \union {a.r}, !.made[a.r] = a.u]
<1>1. pc[t] = "create_room" /\ Execute(d, TRUE) /\ Enter(t, "create_member", a)
  BY GotoIsEnter DEF CreateRoom, Statement, At
<1>2. Knows("create_room", a, db, durable)
  BY <1>1, AloneIs
<1>3. a.r \in Room /\ a.u \in User /\ Same(db, durable) /\ a.r \notin durable.rooms
  BY <1>2 DEF Knows, HoldsRoom, HoldsUser
<1>4. Typed(d) /\ Same(d, db) /\ a.r \in d.rooms
  <2>1. Typed(db)
    BY DEF Inv
  <2> QED
    BY <1>3, <2>1, TypedRoom
<1> HIDE DEF d
<1>5. Knows("create_member", a, d, durable)
  BY <1>3, <1>4 DEF Knows, Same, HoldsRoom, HoldsUser, Answering
<1>6. "create_room" \in Within /\ "create_member" \in Within
  BY DEF Within
<1> QED
  BY <1>1, <1>4, <1>5, <1>6, WithinStep

LEMMA CreateMemberStep ==
    ASSUME Inv, NEW t \in Workers, Alone(t), CreateMember(t) PROVE Inv' /\ Implements
<1> DEFINE a == arg[t]
           e == [db EXCEPT !.mem[a.r][a.u] = "member"]
           d == [e EXCEPT !.by[a.r][a.u] = a.u]
<1>1. pc[t] = "create_member" /\ Enter(t, "create_commit", a)
  BY GotoIsEnter DEF CreateMember, Statement, At
<1>2. Knows("create_member", a, db, durable)
  BY <1>1, AloneIs
<1>3. a.r \in Room /\ a.u \in User /\ Same(db, durable) /\ a.r \in db.rooms /\ a.r \notin durable.rooms
  BY <1>2 DEF Knows, HoldsRoom, HoldsUser
<1>4. Execute(d, TRUE)
  BY DEF CreateMember, Statement, Inv, Typed, Framed, Fields
<1>5. "member" \in MemberStates
  BY DEF MemberStates
<1>6. Typed(e) /\ Moved(e, db, a.r, a.u, "member") /\ e.blocks = db.blocks /\ e.rooms = db.rooms
  <2>1. Typed(db)
    BY DEF Inv
  <2> QED
    BY <1>3, <1>5, <2>1, TypedMove, SMTT(20)
<1> HIDE DEF e
<1>7. Typed(d) /\ Same(d, e) /\ d.rooms = e.rooms
  BY <1>3, <1>6, TypedBy
<1> HIDE DEF d
<1>8. Knows("create_commit", a, d, durable)
  BY <1>3, <1>6, <1>7 DEF Knows, Same, Moved, HoldsRoom, HoldsUser, Answering
<1>9. "create_member" \in Within /\ "create_commit" \in Within
  BY DEF Within
<1> QED
  BY <1>1, <1>4, <1>7, <1>8, <1>9, WithinStep

LEMMA CreateCommitStep ==
    ASSUME Inv, NEW t \in Workers, Alone(t), CreateCommit(t) PROVE Inv' /\ Implements
<1> DEFINE a == arg[t]
<1>1. Inv' /\ durable' = db /\ Knows("create_commit", a, db, durable)
  BY CommitStep DEF CreateCommit
<1>2. /\ a.r \in Room /\ a.u \in User /\ a.r \notin durable.rooms
      /\ Moved(durable', durable, a.r, a.u, "member") /\ durable'.blocks = durable.blocks
  BY <1>1 DEF Knows, HoldsRoom, HoldsUser
<1>3. \A v \in User : durable.mem[a.r][v] = "none"
  BY <1>2 DEF Inv, Typed
<1>4. "member" \in MemberStates /\ Relation("member") = "in" /\ Relation("none") = "out"
  BY DEF MemberStates, Relation
<1> QED
  BY <1>1, <1>2, <1>3, <1>4, MovesOne DEF Inv

-----------------------------------------------------------------------------
(* Invitations and answers *)

LEMMA InviteStep ==
    ASSUME Inv, NEW t \in Workers, Alone(t), NEW r \in Room, NEW by \in User, NEW u \in User,
           Invite(t, r, by, u)
    PROVE  Inv' /\ Implements
<1> DEFINE a == [r |-> r, by |-> by, u |-> u]
<1>1. Load(t, "invite", a) /\ r \in db.rooms /\ <<u, by>> \notin db.blocks /\ <<u, r>> \notin db.blocks
  BY DEF Invite, IsManager, Blocked
<1>2. Knows("invite", a, db, db)
  BY <1>1 DEF Knows, HoldsRoom, HoldsUser, Answering
<1>3. "invite" \notin Within
  BY DEF Within
<1> QED
  BY <1>1, <1>2, <1>3, LoadStep

LEMMA InviteUpsertStep ==
    ASSUME Inv, NEW t \in Workers, Alone(t), InviteUpsert(t) PROVE Inv' /\ Implements
<1> DEFINE a == arg[t]
           s == IF db.mem[a.r][a.u] = "member" THEN "member" ELSE "invited"
           e == [db EXCEPT !.mem[a.r][a.u] = s]
           d == [e EXCEPT !.by[a.r][a.u] = a.by]
<1>1. pc[t] = "invite" /\ Enter(t, "idle", NoArg)
  BY DEF InviteUpsert, Finish, At, Return
<1>2. Knows("invite", a, db, durable)
  BY <1>1, AloneIs
<1>3. /\ a.r \in Room /\ a.u \in User /\ a.by \in User /\ a.r \in db.rooms
      /\ <<a.u, a.by>> \notin db.blocks /\ <<a.u, a.r>> \notin db.blocks
  BY <1>2 DEF Knows, HoldsRoom, HoldsUser
<1>4. Execute(d, TRUE)
  BY DEF InviteUpsert, Finish, Inv, Typed, Framed, Fields
<1>5. s \in MemberStates /\ db.mem[a.r][a.u] \in MemberStates
  BY <1>3 DEF MemberStates, Inv, Typed, Memberships
<1>6. \/ Relation(s) = Relation(db.mem[a.r][a.u])
      \/ Relation(s) = "asked" /\ Relation(db.mem[a.r][a.u]) = "out"
  <2>1. Relation("invited") = "asked"
        /\ \A m \in MemberStates : Relation(m) = "out" \/ m \in {"member", "invited"}
    BY DEF MemberStates, Relation
  <2>2. CASE db.mem[a.r][a.u] = "member"
    BY <2>2
  <2>3. CASE db.mem[a.r][a.u] # "member"
    <3>1. s = "invited"
      BY <2>3
    <3> HIDE DEF s
    <3> QED
      BY <1>5, <2>1, <2>3, <3>1
  <2> QED
    BY <2>2, <2>3
<1> HIDE DEF s
<1>7. Typed(e) /\ Moved(e, db, a.r, a.u, s) /\ e.blocks = db.blocks /\ e.rooms = db.rooms
  <2>1. Typed(db)
    BY DEF Inv
  <2> QED
    BY <1>3, <1>5, <2>1, TypedMove, SMTT(20)
<1> HIDE DEF e
<1>8. Typed(d) /\ Same(d, e)
  BY <1>3, <1>7, TypedBy
<1> HIDE DEF d
<1>9. "invite" \notin Within
  BY DEF Within
<1>10. Inv' /\ durable' = d /\ db = durable
  BY <1>1, <1>4, <1>8, <1>9, OwnStep, KnowsNothing
<1>11. Moved(durable', durable, a.r, a.u, s) /\ durable'.blocks = durable.blocks
  BY <1>7, <1>8, <1>10 DEF Same, Moved
<1> QED
  BY <1>3, <1>5, <1>6, <1>10, <1>11, MovesOne DEF Inv

LEMMA AnswerStep ==
    ASSUME Inv, NEW t \in Workers, Alone(t), NEW r \in Room, NEW u \in User,
           NEW answer \in Answers, Answer(t, r, u, answer)
    PROVE  Inv' /\ Implements
<1> DEFINE a == [r |-> r, u |-> u, answer |-> answer, by |-> db.by[r][u]]
<1>1. Load(t, "answer_begin", a) /\ db.mem[r][u] = "invited" /\ db.by[r][u] \in User \union {Nobody}
  BY DEF Answer, Inv, Typed
<1>2. Knows("answer_begin", a, db, db)
  BY <1>1 DEF Knows, HoldsRoom, HoldsUser, Answering
<1>3. "answer_begin" \notin Within
  BY DEF Within
<1> HIDE DEF a
<1> QED
  BY <1>1, <1>2, <1>3, LoadStep

LEMMA AnswerBeginStep ==
    ASSUME Inv, NEW t \in Workers, Alone(t), AnswerBegin(t) PROVE Inv' /\ Implements
<1>1. pc[t] = "answer_begin" /\ "answer_begin" \notin Within /\ "answer" \in Within
  BY DEF AnswerBegin, BeginAt, At, Within
<1>2. Knows("answer_begin", arg[t], db, durable) /\ db = durable
  BY <1>1, AloneIs
<1>3. Knows("answer", arg[t], db, durable)
  BY <1>2 DEF Knows, Same, HoldsRoom, HoldsUser, Answering
<1> QED
  BY <1>1, <1>3, BeginStep DEF AnswerBegin

LEMMA AnswerUpdateStep ==
    ASSUME Inv, NEW t \in Workers, Alone(t), AnswerUpdate(t) PROVE Inv' /\ Implements
<1> DEFINE a == arg[t]
           s == IF a.answer = "accept" THEN "member" ELSE "declined"
           m == IF a.answer \in {"block_room", "block_user"} THEN "block" ELSE "answer_commit"
           d == [db EXCEPT !.mem[a.r][a.u] = s]
<1>1. pc[t] = "answer" /\ Enter(t, m, a)
  BY GotoIsEnter DEF AnswerUpdate, At
<1>2. Knows("answer", a, db, durable)
  BY <1>1, AloneIs
<1>3. /\ a.r \in Room /\ a.u \in User /\ a.by \in User \union {Nobody} /\ a.answer \in Answers
      /\ Same(db, durable) /\ durable.mem[a.r][a.u] = "invited"
  BY <1>2 DEF Knows, HoldsRoom, HoldsUser, Answering
<1>4. db.mem[a.r][a.u] = "invited" /\ a.r \in db.rooms
  BY <1>3 DEF Same, Inv, Typed
<1>5. \E x : Execute(d, x)
  BY <1>4 DEF AnswerUpdate, WithState, Changes
<1>6. s \in MemberStates
  BY DEF MemberStates
<1> HIDE DEF s
<1>7. Typed(d) /\ Moved(d, db, a.r, a.u, s) /\ d.blocks = db.blocks
  <2>1. Typed(db)
    BY DEF Inv
  <2> QED
    BY <1>3, <1>4, <1>6, <2>1, TypedMove
<1> HIDE DEF d
<1>8. Knows(m, a, d, durable)
  <2>1. CASE a.answer = "accept"
    <3>1. s = "member" /\ m = "answer_commit"
      BY <2>1 DEF s
    <3> QED
      BY <1>3, <1>7, <3>1 DEF Knows, Same, Moved, HoldsRoom, HoldsUser, Answering
  <2>2. CASE a.answer # "accept"
    <3>1. s = "declined"
      BY <2>2 DEF s
    <3>2. \/ m = "block" /\ a.answer \in {"block_room", "block_user"}
          \/ m = "answer_commit"
      OBVIOUS
    <3> HIDE DEF m
    <3> QED
      BY <1>3, <1>7, <3>1, <3>2 DEF Knows, Same, Moved, HoldsRoom, HoldsUser, Answering
  <2> QED
    BY <2>1, <2>2
<1>9. "answer" \in Within /\ m \in Within
  BY DEF Within
<1> HIDE DEF m
<1> QED
  BY <1>1, <1>5, <1>7, <1>8, <1>9, WithinStep

LEMMA AnswerBlockStep ==
    ASSUME Inv, NEW t \in Workers, Alone(t), AnswerBlock(t) PROVE Inv' /\ Implements
<1> DEFINE a == arg[t]
           x == IF a.answer = "block_room" THEN a.r ELSE a.by
           B == db.blocks \union {<<a.u, x>>}
           d == [db EXCEPT !.blocks = B]
<1>1. CASE Throw(t, "block")
  BY <1>1, ThrowStep
<1>2. CASE x # Nobody /\ Statement(t, "block", "answer_commit", d, TRUE)
  <2>1. pc[t] = "block" /\ Execute(d, TRUE) /\ Enter(t, "answer_commit", a)
    BY <1>2, GotoIsEnter DEF Statement, At
  <2>2. Knows("block", a, db, durable)
    BY <2>1, AloneIs
  <2>3. /\ a.r \in Room /\ a.u \in User /\ a.by \in User \union {Nobody} /\ a.answer \in Answers
        /\ Moved(db, durable, a.r, a.u, "declined") /\ db.blocks = durable.blocks
        /\ durable.mem[a.r][a.u] = "invited"
    BY <2>2 DEF Knows, HoldsRoom, HoldsUser, Answering
  <2>4. x \in User \union {a.r}
    BY <1>2, <2>3
  <2>5. B \in SUBSET (User \X (User \union Room))
    BY <2>3, <2>4 DEF Inv, Typed
  <2>6. Typed(d) /\ d.mem = db.mem /\ d.blocks = B
    BY <2>5, TypedBlocks DEF Inv
  <2>7. Moved(d, durable, a.r, a.u, "declined")
        /\ d.blocks \in {durable.blocks} \union {durable.blocks \union {<<a.u, y>>} : y \in User \union {a.r}}
    BY <2>3, <2>4, <2>6 DEF Moved
  <2> HIDE DEF d
  <2>8. Knows("answer_commit", a, d, durable)
    BY <2>3, <2>7 DEF Knows, HoldsRoom, HoldsUser, Answering
  <2>9. "block" \in Within /\ "answer_commit" \in Within
    BY DEF Within
  <2> QED
    BY <2>1, <2>6, <2>8, <2>9, WithinStep
<1> QED
  BY <1>1, <1>2 DEF AnswerBlock

LEMMA AnswerCommitStep ==
    ASSUME Inv, NEW t \in Workers, Alone(t), AnswerCommit(t) PROVE Inv' /\ Implements
<1> DEFINE a == arg[t]
<1>1. Inv' /\ durable' = db /\ Knows("answer_commit", a, db, durable)
  BY CommitStep DEF AnswerCommit
<1>2. /\ a.r \in Room /\ a.u \in User /\ durable.mem[a.r][a.u] = "invited"
      /\ \/ Moved(durable', durable, a.r, a.u, "member") /\ durable'.blocks = durable.blocks
         \/ /\ Moved(durable', durable, a.r, a.u, "declined")
            /\ durable'.blocks \in {durable.blocks} \union
                                    {durable.blocks \union {<<a.u, x>>} : x \in User \union {a.r}}
  BY <1>1 DEF Knows, HoldsRoom, HoldsUser, Answering
<1>3. /\ {"member", "declined"} \subseteq MemberStates
      /\ Relation("member") = "in" /\ Relation("invited") = "asked" /\ Relation("declined") = "out"
  BY DEF MemberStates, Relation
<1>4. CASE Moved(durable', durable, a.r, a.u, "member") /\ durable'.blocks = durable.blocks
  BY <1>1, <1>2, <1>3, <1>4, MovesOne DEF Inv
<1>5. CASE /\ Moved(durable', durable, a.r, a.u, "declined")
           /\ durable'.blocks \in {durable.blocks} \union
                                  {durable.blocks \union {<<a.u, x>>} : x \in User \union {a.r}}
  <2>1. durable.mem \in Memberships /\ durable'.mem = [durable.mem EXCEPT ![a.r][a.u] = "declined"]
    BY <1>5 DEF Inv, Typed, Moved
  <2>2. RelOf(durable'.mem) = [RelOf(durable.mem) EXCEPT ![a.r][a.u] = "out"]
    BY <1>2, <1>3, <2>1, RelMoved
  <2>3. RelOf(durable.mem)[a.r][a.u] = "asked"
    BY <1>2, <1>3 DEF RelOf
  <2>4. M!Decline(a.r, a.u)
    BY <1>5, <2>2, <2>3 DEF M!Decline, M!Become, RelOf
  <2> QED
    BY <1>1, <1>2, <2>4 DEF Implements, M!Next
<1> QED
  BY <1>2, <1>4, <1>5

-----------------------------------------------------------------------------
(* Leaving, removal, and the end of a room *)

LEMMA DropLoadStep ==
    ASSUME Inv, NEW t \in Workers, Alone(t), NEW r \in Room, NEW u \in User,
           Leave(t, r, u) \/ (\E by \in User : Remove(t, r, by, u))
    PROVE  Inv' /\ Implements
<1> DEFINE a == [r |-> r, u |-> u]
<1>1. CASE Leave(t, r, u)
  <2>1. Load(t, "leave", a) /\ db.mem[r][u] = "member" /\ "leave" \notin Within
    BY <1>1 DEF Leave, IsMember, Within
  <2>2. Knows("leave", a, db, db)
    BY <2>1 DEF Knows, HoldsRoom, HoldsUser, Answering
  <2> QED
    BY <2>1, <2>2, LoadStep
<1>2. CASE \E by \in User : Remove(t, r, by, u)
  <2>1. Load(t, "remove", a) /\ db.mem[r][u] \in {"member", "invited"} /\ "remove" \notin Within
    BY <1>2 DEF Remove, Within
  <2>2. Knows("remove", a, db, db)
    BY <2>1 DEF Knows, HoldsRoom, HoldsUser, Answering
  <2> QED
    BY <2>1, <2>2, LoadStep
<1> QED
  BY <1>1, <1>2

LEMMA DropStep ==
    ASSUME Inv, NEW t \in Workers, Alone(t), LeaveUpdate(t) \/ RemoveUpdate(t)
    PROVE  Inv' /\ Implements
<1> DEFINE a == arg[t]
<1>1. PICK l, s, x : /\ l \in {"leave", "remove"} /\ s \in {"left", "removed"}
                    /\ Finish(t, l, WithState(db, a.r, a.u, s), x)
  BY DEF LeaveUpdate, RemoveUpdate
<1> DEFINE d == [db EXCEPT !.mem[a.r][a.u] = s]
<1>2. pc[t] = l /\ Enter(t, "idle", NoArg) /\ l \notin Within
  BY <1>1 DEF Finish, At, Return, Within
<1>3. Knows(l, a, db, durable)
  BY <1>2, AloneIs
<1>4. a.r \in Room /\ a.u \in User /\ db.mem[a.r][a.u] \in {"member", "invited"}
  BY <1>1, <1>3 DEF Knows, HoldsRoom, HoldsUser
<1>5. a.r \in db.rooms
  BY <1>4 DEF Inv, Typed
<1>6. Execute(d, x)
  BY <1>1, <1>4 DEF Finish, WithState, Changes
<1>7. s \in MemberStates /\ Relation(s) = "out"
  BY <1>1 DEF MemberStates, Relation
<1>8. Typed(d) /\ Moved(d, db, a.r, a.u, s) /\ d.blocks = db.blocks
  <2>1. Typed(db)
    BY DEF Inv
  <2> QED
    BY <1>4, <1>5, <1>7, <2>1, TypedMove
<1> HIDE DEF d
<1>9. Inv' /\ durable' = d /\ db = durable
  BY <1>2, <1>6, <1>8, OwnStep, KnowsNothing
<1> QED
  BY <1>4, <1>7, <1>8, <1>9, MovesOne DEF Inv

LEMMA DeleteRoomStep ==
    ASSUME Inv, NEW t \in Workers, Alone(t), NEW r \in Room, NEW u \in User, DeleteRoom(t, r, u)
    PROVE  Inv' /\ Implements
<1>1. Knows("delete_photos", [r |-> r], db, db) /\ "delete_photos" \notin Within
  BY DEF Knows, HoldsRoom, HoldsUser, Answering, Within
<1> QED
  BY <1>1, LoadStep DEF DeleteRoom

LEMMA DeletePhotosStep ==
    ASSUME Inv, NEW t \in Workers, Alone(t), DeletePhotos(t) PROVE Inv' /\ Implements
<1> DEFINE left == {p \in db.photos : p[1] # arg[t].r}
           d == [db EXCEPT !.photos = left]
<1>1. /\ pc[t] = "delete_photos" /\ Execute(d, left # db.photos)
      /\ Enter(t, "delete_room", arg[t])
  BY GotoIsEnter DEF DeletePhotos, Statement, At
<1>2. Knows("delete_photos", arg[t], db, durable)
  BY <1>1, AloneIs
<1> HIDE DEF left
<1>3. Typed(d) /\ Same(d, db)
  BY TypedPhotos DEF Inv
<1> HIDE DEF d
<1>4. Knows("delete_room", arg[t], d, d)
  BY <1>2 DEF Knows, HoldsRoom, HoldsUser, Answering
<1>5. "delete_photos" \notin Within /\ "delete_room" \notin Within
  BY DEF Within
<1>6. Inv' /\ durable' = d /\ db = durable
  BY <1>1, <1>3, <1>4, <1>5, OwnStep
<1> QED
  BY <1>3, <1>6, StaysPut DEF Same

LEMMA DeleteRowStep ==
    ASSUME Inv, NEW t \in Workers, Alone(t), DeleteRow(t) PROVE Inv' /\ Implements
<1> DEFINE r == arg[t].r
           d == WithoutRoom(db, r)
<1>1. pc[t] = "delete_room" /\ "delete_room" \notin Within
      /\ Execute(d, r \in db.rooms) /\ Enter(t, "idle", NoArg)
  BY DEF DeleteRow, Finish, At, Return, Within
<1>2. Knows("delete_room", arg[t], db, durable)
  BY <1>1, AloneIs
<1>3. r \in Room
  BY <1>2 DEF Knows, HoldsRoom
<1>4. /\ Framed(d) /\ d.rooms = db.rooms \ {r} /\ d.blocks = {b \in db.blocks : b[2] # r}
      /\ d.mem = [db.mem EXCEPT ![r] = [u \in User |-> "none"]]
      /\ d.by = [db.by EXCEPT ![r] = [u \in User |-> Nobody]]
  <2>1. Framed(db)
    BY DEF Inv, Typed
  <2>2. Framed(d)
    BY <2>1 DEF WithoutRoom, Framed, Fields
  <2>3. d.rooms = db.rooms \ {r} /\ d.blocks = {b \in db.blocks : b[2] # r}
    BY <2>1 DEF WithoutRoom, Framed, Fields
  <2>4. d.mem = [db.mem EXCEPT ![r] = [u \in User |-> "none"]]
    BY <2>1 DEF WithoutRoom, Framed, Fields
  <2>5. d.by = [db.by EXCEPT ![r] = [u \in User |-> Nobody]]
    BY <2>1 DEF WithoutRoom, Framed, Fields
  <2> QED
    BY <2>2, <2>3, <2>4, <2>5
<1> HIDE DEF d
<1>5. Typed(d)
  BY <1>3, <1>4 DEF Inv, Typed, Memberships, MemberStates
<1>6. Inv' /\ durable' = d /\ db = durable
  BY <1>1, <1>5, OwnStep, KnowsNothing
<1>7. durable'.blocks = {b \in durable.blocks : b[1] # r /\ b[2] # r}
  BY <1>3, <1>4, <1>6, RoomsApart DEF Inv, Typed
<1>8. RelOf(durable'.mem) = [RelOf(durable.mem) EXCEPT ![r] = [u \in User |-> "out"]]
  <2> DEFINE m == durable.mem
             n == [m EXCEPT ![r] = [u \in User |-> "none"]]
  <2>1. m \in Memberships /\ durable'.mem = n /\ Relation("none") = "out"
    BY <1>4, <1>6 DEF Inv, Typed, Relation
  <2> HIDE DEF m
  <2>2. RelOf(n) = [RelOf(m) EXCEPT ![r] = [u \in User |-> "out"]]
    BY <1>3, <2>1 DEF Memberships, RelOf
  <2> QED
    BY <2>1, <2>2 DEF m
<1>9. M!RoomGone(r)
  BY <1>7, <1>8 DEF M!RoomGone, M!Without, RelOf
<1> QED
  BY <1>3, <1>6, <1>9 DEF Implements, M!Next

LEMMA UnblockStep ==
    ASSUME Inv, NEW t \in Workers, Alone(t), NEW u \in User, NEW x \in User \union Room,
           Unblock(t, u, x)
    PROVE  Inv' /\ Implements
<1> DEFINE B == db.blocks \ {<<u, x>>}
           d == [db EXCEPT !.blocks = B]
<1>1. B \in SUBSET (User \X (User \union Room)) /\ <<u, x>> \in db.blocks /\ Request(t, d, TRUE)
  BY DEF Unblock, Inv, Typed
<1>2. Typed(d) /\ d.mem = db.mem /\ d.blocks = B
  <2>1. Typed(db)
    BY DEF Inv
  <2> QED
    BY <1>1, <2>1, TypedBlocks
<1> HIDE DEF d
<1>3. Inv' /\ durable' = d /\ db = durable
  BY <1>1, <1>2, RequestIs, OwnStep, KnowsNothing
<1>4. M!Unblock(u, x)
  BY <1>1, <1>2, <1>3 DEF M!Unblock
<1> QED
  BY <1>3, <1>4 DEF Implements, M!Next

LEMMA DeleteAccountStep ==
    ASSUME Inv, NEW t \in Workers, Alone(t), NEW u \in User, DeleteAccount(t, u)
    PROVE  Inv' /\ Implements
<1> DEFINE d == WithoutUser(db, u)
<1>1. Request(t, d, TRUE)
  BY DEF DeleteAccount
<1>2. /\ Framed(d) /\ d.rooms = db.rooms
      /\ d.blocks = {b \in db.blocks : b[1] # u /\ b[2] # u}
      /\ d.mem = [r \in Room |-> [db.mem[r] EXCEPT ![u] = "none"]]
      /\ d.by = [r \in Room |-> [v \in User |-> IF v = u \/ db.by[r][v] = u
                                                 THEN Nobody ELSE db.by[r][v]]]
  <2>1. Framed(db)
    BY DEF Inv, Typed
  <2>2. Framed(d)
    BY <2>1 DEF WithoutUser, Framed, Fields
  <2>3. d.rooms = db.rooms /\ d.blocks = {b \in db.blocks : b[1] # u /\ b[2] # u}
    BY <2>1 DEF WithoutUser, Framed, Fields
  <2>4. d.mem = [r \in Room |-> [db.mem[r] EXCEPT ![u] = "none"]]
    BY <2>1 DEF WithoutUser, Framed, Fields
  <2>5. d.by = [r \in Room |-> [v \in User |-> IF v = u \/ db.by[r][v] = u
                                              THEN Nobody ELSE db.by[r][v]]]
    BY <2>1 DEF WithoutUser, Framed, Fields
  <2> QED
    BY <2>2, <2>3, <2>4, <2>5
<1> HIDE DEF d
<1>3. Typed(d)
  BY <1>2 DEF Inv, Typed, Memberships, MemberStates
<1>4. Inv' /\ durable' = d /\ db = durable
  BY <1>1, <1>3, RequestIs, OwnStep, KnowsNothing
<1>5. RelOf(durable'.mem) = [r \in Room |-> [RelOf(durable.mem)[r] EXCEPT ![u] = "out"]]
  <2> DEFINE m == durable.mem
             n == [r \in Room |-> [m[r] EXCEPT ![u] = "none"]]
  <2>1. m \in Memberships /\ durable'.mem = n /\ Relation("none") = "out"
    BY <1>2, <1>4 DEF Inv, Typed, Relation
  <2> HIDE DEF m
  <2>2. RelOf(n) = [r \in Room |-> [RelOf(m)[r] EXCEPT ![u] = "out"]]
    BY <2>1 DEF Memberships, RelOf
  <2> QED
    BY <2>1, <2>2 DEF m
<1>6. M!UserGone(u)
  BY <1>2, <1>4, <1>5 DEF M!UserGone, M!Without, RelOf
<1> QED
  BY <1>4, <1>6 DEF Implements, M!Next

-----------------------------------------------------------------------------
(* The inbox, and what does not concern Membership *)

LEMMA SendStep ==
    ASSUME Inv, NEW t \in Workers, Alone(t), NEW u, NEW v, NEW links, NEW b, Send(t, u, v, links, b)
    PROVE  Inv' /\ Implements
<1>1. Knows("send_begin", [from |-> u, to |-> v, sent |-> links, left |-> links, b |-> b], db, db)
      /\ "send_begin" \notin Within
  BY DEF Knows, HoldsRoom, HoldsUser, Answering, Within
<1> QED
  BY <1>1, LoadStep DEF Send, SendPastBlock

LEMMA SendBeginStep ==
    ASSUME Inv, NEW t \in Workers, Alone(t), SendBegin(t) PROVE Inv' /\ Implements
<1>1. pc[t] = "send_begin" /\ "send_begin" \notin Within /\ "send" \in Within
  BY DEF SendBegin, BeginAt, At, Within
<1>2. db = durable
  BY <1>1, AloneIs
<1>3. Knows("send", arg[t], db, durable)
  BY <1>2 DEF Knows, Same, HoldsRoom, HoldsUser, Answering
<1> QED
  BY <1>1, <1>3, BeginStep DEF SendBegin

LEMMA SendUpsertStep ==
    ASSUME Inv, NEW t \in Workers, Alone(t), SendUpsert(t) PROVE Inv' /\ Implements
<1>1. PICK x, m, a : /\ Execute([db EXCEPT !.box = x], TRUE) /\ Enter(t, m, a)
                    /\ m \in {"send", "send_commit"}
  BY DEF SendUpsert
<1>2. pc[t] = "send" /\ "send" \in Within /\ m \in Within
  BY <1>1 DEF SendUpsert, At, Within
<1>3. Same(db, durable)
  BY <1>2, AloneIs DEF Knows
<1> DEFINE d == [db EXCEPT !.box = x]
<1>4. Typed(d) /\ Same(d, db)
  BY TypedBox DEF Inv
<1> HIDE DEF d
<1>5. Knows(m, a, d, durable)
  BY <1>1, <1>3, <1>4 DEF Knows, Same, HoldsRoom, HoldsUser, Answering
<1>6. Execute(d, TRUE)
  BY <1>1 DEF d
<1> QED
  BY <1>1, <1>2, <1>4, <1>5, <1>6, WithinStep

LEMMA SendCommitStep ==
    ASSUME Inv, NEW t \in Workers, Alone(t), SendCommit(t) PROVE Inv' /\ Implements
<1>1. Inv' /\ durable' = db /\ Knows("send_commit", arg[t], db, durable)
  BY CommitStep DEF SendCommit
<1> QED
  BY <1>1, StaysPut DEF Knows, Same

LEMMA ElsewhereStep ==
    ASSUME Inv, NEW t \in Workers, Alone(t),
           \/ \E u : MarkSeen(t, u) \/ \E b : Dismiss(t, u, b)
           \/ \E r, u : PostPhoto(t, r, u)
           \/ \E s : LinkEnds(t, s)
    PROVE  Inv' /\ Implements
<1>1. \/ \E x : Request(t, [db EXCEPT !.box = x], TRUE)
      \/ \E x : Request(t, [db EXCEPT !.photos = x], TRUE)
      \/ \E x : Request(t, [db EXCEPT !.live = x], TRUE)
  BY DEF MarkSeen, Dismiss, Inbox, PostPhoto, LinkEnds
<1>2. ASSUME NEW x, Request(t, [db EXCEPT !.box = x], TRUE) PROVE Inv' /\ Implements
  BY <1>2, TypedBox, SameRequest DEF Inv
<1>3. ASSUME NEW x, Request(t, [db EXCEPT !.photos = x], TRUE) PROVE Inv' /\ Implements
  BY <1>3, TypedPhotos, SameRequest DEF Inv
<1>4. ASSUME NEW x, Request(t, [db EXCEPT !.live = x], TRUE) PROVE Inv' /\ Implements
  BY <1>4, TypedLive, SameRequest DEF Inv
<1> QED
  BY <1>1, <1>2, <1>3, <1>4

-----------------------------------------------------------------------------
(* The specification *)

LEMMA NextStep == ASSUME Inv, Next PROVE Inv' /\ Implements
<1>1. ASSUME NEW t \in Workers, Alone(t), Requests(t) PROVE Inv' /\ Implements
  BY <1>1, CreateBeginStep, InviteStep, AnswerStep, DropLoadStep, DeleteRoomStep, UnblockStep,
     SendStep, ElsewhereStep, DeleteAccountStep DEF Requests
<1>2. ASSUME NEW t \in Workers, Alone(t), Steps(t) PROVE Inv' /\ Implements
  BY <1>2, CreateRoomStep, CreateMemberStep, CreateCommitStep, InviteUpsertStep, AnswerBeginStep,
     AnswerUpdateStep, AnswerBlockStep, AnswerCommitStep, DropStep, DeletePhotosStep,
     DeleteRowStep, SendBeginStep, SendUpsertStep, SendCommitStep DEF Steps
<1> QED
  BY <1>1, <1>2, RestartStep DEF Next

LEMMA StutterStep == ASSUME Inv, UNCHANGED vars PROVE Inv' /\ Implements
<1>1. UNCHANGED <<db, durable, owner, chg, pc, arg>>
  BY DEF vars, server, conn
<1>2. Inv'
  BY <1>1 DEF Inv, Typed, Framed, Fields, Idle, At
<1> QED
  BY <1>1, <1>2, StaysPut

\* Rooms implements Membership: in what is committed, nobody is put in a room
\* they neither made nor accepted an invitation to, no invitation passes a
\* standing block, and an answer and the block that goes with it are one step.
THEOREM RoomsKeepMembership == Spec => MembershipSpec
<1>1. Init => Inv /\ M!Init
  <2>1. ASSUME Init PROVE M!Init
    BY <2>1 DEF Init, HandlersInit, M!Init, Relation
  <2> QED
    BY <2>1, InitInv
<1>2. Inv /\ [Next]_vars => Inv' /\ [M!Next]_(M!mvars)
  BY NextStep, StutterStep DEF Implements, M!mvars
<1> QED
  BY <1>1, <1>2, PTL DEF Spec, MembershipSpec, M!Spec

-----------------------------------------------------------------------------
(* Photos and the inbox: what else holds of the tables *)

Rows == {NoItem} \union [from : User, batch : Batch, seen : BOOLEAN]

\* What ItemsAgree says, of any deliveries n.
Agree(n) ==
    \A s, x \in Share, u, v \in User :
        n[s][u].batch = n[x][v].batch /\ n[s][u] # NoItem => u = v /\ n[s][u] = n[x][v]

Good(d) ==
    /\ d.box \in [Share -> [User -> Rows]] /\ Agree(d.box)
    /\ \A p \in d.photos : p[1] \in d.rooms

Sending == {"send_begin", "send", "send_commit"}
Sends == [from : User, to : User, sent : SUBSET Share, left : SUBSET Share, b : Batch]

\* The deliveries d differ from e by the rows of a's item that are written.
Written(d, e, a) ==
    \A s \in Share, v \in User :
        d[s][v] = IF v = a.to /\ s \in a.sent \ a.left THEN Row(a) ELSE e[s][v]

\* What a handler at l that holds a knows of photos and inbox, beyond Knows.
Holds(l, a, d, e) ==
    /\ l \in Within \ Sending => d.box = e.box
    /\ l = "delete_room" => \A p \in d.photos : p[1] # a.r
    /\ l \in Sending => /\ a \in Sends /\ a.left \subseteq a.sent
                        /\ <<a.to, a.from>> \notin e.blocks
                        /\ InItem(e, a.b) = {}
    /\ l = "send_begin" => a.left = a.sent
    /\ l \in {"send", "send_commit"} => Written(d.box, e.box, a)
    /\ l = "send_commit" => a.left = {}

Inv2 == Good(db) /\ Good(durable) /\ \A t \in Workers : Holds(pc[t], arg[t], db, durable)

\* No delivery has come to be part of an item it was not part of.
Kept(d, e) == \A s \in Share, u \in User : d[s][u] = NoItem \/ d[s][u].batch = e[s][u].batch

\* What SentWhole and BlockedNotHeard say of a step.
SentStep ==
    \A b \in Batch : InItem(durable, b) = {} /\ InItem(durable', b) # {} =>
          \E t \in Workers : /\ At(t, "send_commit")
                             /\ arg[t].b = b /\ arg[t].sent = InItem(durable', b)

HeardStep ==
    \A s \in Share, u \in User : LET row == durable'.box[s][u] IN
          row # durable.box[s][u] /\ row # NoItem /\ row.batch # durable.box[s][u].batch =>
              <<u, row.from>> \notin durable.blocks

LEMMA HoldsNothing == ASSUME NEW a, NEW d, NEW e PROVE Holds("idle", a, d, e)
BY KnowsNothing DEF Holds, Sending

LEMMA RowsAre ==
    ASSUME NEW n \in [Share -> [User -> Rows]], NEW s \in Share, NEW u \in User
    PROVE  /\ n[s][u] \in Rows
           /\ n[s][u] = NoItem => n[s][u].batch = Nobody /\ n[s][u].batch \notin Batch
           /\ n[s][u] # NoItem => n[s][u].batch \in Batch /\ n[s][u].batch # Nobody
<1>1. n[s][u] \in Rows
  OBVIOUS
<1>2. CASE n[s][u] = NoItem
  BY <1>1, <1>2, TokensAreNotNull DEF NoItem
<1>3. CASE n[s][u] # NoItem
  <2>1. n[s][u] \in [from : User, batch : Batch, seen : BOOLEAN]
    BY <1>1, <1>3 DEF Rows
  <2> QED
    BY <1>1, <1>3, <2>1, TokensAreNotNull
<1> QED
  BY <1>2, <1>3

LEMMA InitInv2 == Init => Inv2
<1> SUFFICES ASSUME Init PROVE Inv2
  OBVIOUS
<1>1. db = durable /\ \A t \in Workers : pc[t] = "idle"
  BY DEF Init, HandlersInit
<1>2. db.box = [s \in Share |-> [u \in User |-> NoItem]] /\ db.photos = {}
  BY DEF Init, HandlersInit
<1>3. Good(db)
  BY <1>2 DEF Good, Agree, Rows
<1> QED
  BY <1>1, <1>3, HoldsNothing DEF Inv2

LEMMA KeptSteps ==
    ASSUME Good(durable), Good(durable'), Kept(durable'.box, durable.box)
    PROVE  SentStep /\ HeardStep
<1>1. HeardStep
  BY DEF HeardStep, Kept
<1>2. ASSUME NEW b \in Batch, NEW s \in InItem(durable', b) PROVE s \in InItem(durable, b)
  <2>1. PICK v \in User : s \in Share /\ durable'.box[s][v].batch = b
    BY <1>2 DEF InItem
  <2>2. durable'.box[s][v] # NoItem
    BY <2>1, RowsAre DEF Good
  <2> QED
    BY <2>1, <2>2 DEF Kept, InItem
<1>3. SentStep
  BY <1>2 DEF SentStep
<1> QED
  BY <1>1, <1>3

\* A step of t, which is alone.
LEMMA StepInv2 ==
    ASSUME Inv, Inv2, NEW t \in Workers, Alone(t), NEW l, NEW a, Enter(t, l, a),
           Good(db'), Good(durable'), Holds(l, a, db', durable')
    PROVE  Inv2'
<1>1. /\ pc'[t] = l /\ arg'[t] = a /\ \A v \in Workers \ {t} : pc'[v] = "idle"
  BY DEF Inv, Enter, Alone, Idle, At
<1> QED
  BY <1>1, HoldsNothing DEF Inv2

LEMMA SameBox == ASSUME NEW n PROVE Kept(n, n)
BY DEF Kept

\* A statement that touches neither photos nor deliveries, and takes no room away.
LEMMA PlainStep ==
    ASSUME Inv, Inv2, NEW t \in Workers, Alone(t), pc[t] \notin Sending,
           NEW m, m \notin Sending, m # "delete_room", m \in Within => pc[t] \in Within, NEW a,
           NEW d, NEW x, Execute(d, x), Enter(t, m, a),
           d.box = db.box, d.photos = db.photos, db.rooms \subseteq d.rooms
    PROVE  Inv2' /\ Kept(durable'.box, durable.box)
<1>1. db' = d /\ durable' = IF owner = NoOwner THEN d ELSE durable
  BY DEF Execute
<1>2. db.box = durable.box
  <2>1. CASE pc[t] \in Within
    BY <2>1 DEF Inv2, Holds
  <2>2. CASE pc[t] \notin Within
    BY <2>2, AloneIs
  <2> QED
    BY <2>1, <2>2
<1>3. Good(d)
  BY DEF Inv2, Good
<1>4. Good(db') /\ Good(durable') /\ durable'.box = durable.box /\ db'.box = durable'.box
  BY <1>1, <1>2, <1>3 DEF Inv2, Good
<1>5. Holds(m, a, db', durable')
  BY <1>4 DEF Holds, Sending
<1> QED
  BY <1>4, <1>5, StepInv2, SameBox

\* A step that leaves the tables as they are.
LEMMA StillStep ==
    ASSUME Inv, Inv2, NEW t \in Workers, Alone(t), db = durable, UNCHANGED <<db, durable>>,
           NEW m, NEW a, Enter(t, m, a), Holds(m, a, db, durable)
    PROVE  Inv2' /\ Kept(durable'.box, durable.box)
<1>1. Good(db') /\ Good(durable') /\ Holds(m, a, db', durable') /\ durable'.box = durable.box
  BY DEF Inv2, Good, Holds, Written, InItem
<1> QED
  BY <1>1, StepInv2, SameBox

LEMMA ShrinkGood ==
    ASSUME NEW n \in [Share -> [User -> Rows]], Agree(n), NEW k \in [Share -> [User -> Rows]],
           \A s \in Share, u \in User : k[s][u] = NoItem \/ k[s][u] = n[s][u]
    PROVE  Agree(k) /\ Kept(k, n)
<1>1. ASSUME NEW s \in Share, NEW x \in Share, NEW u \in User, NEW v \in User,
             k[s][u].batch = k[x][v].batch, k[s][u] # NoItem
      PROVE  u = v /\ k[s][u] = k[x][v]
  <2>1. k[x][v] # NoItem
    BY <1>1, RowsAre
  <2> QED
    BY <1>1, <2>1 DEF Agree
<1> QED
  BY <1>1 DEF Agree, Kept

\* BEGIN by a handler that goes on from l to m.
LEMMA BeginStep2 ==
    ASSUME Inv, Inv2, NEW t \in Workers, Alone(t), NEW l, NEW m, BeginAt(t, l, m),
           l \notin Within, m \in Within, Holds(m, arg[t], db, durable)
    PROVE  Inv2' /\ Kept(durable'.box, durable.box)
<1>1. Enter(t, m, arg[t]) /\ UNCHANGED <<db, durable>> /\ pc[t] = l
  BY GotoIsEnter DEF BeginAt, Begin, At
<1> QED
  BY <1>1, AloneIs, StillStep

LEMMA CommitStep2 ==
    ASSUME Inv, Inv2, NEW t \in Workers, Alone(t), NEW l, CommitAt(t, l)
    PROVE  Inv2' /\ durable' = db
<1>1. pc[t] = l /\ Enter(t, "idle", NoArg) /\ db' = db /\ durable' = db
  BY DEF CommitAt, Commit, Return, At
<1>2. Good(db') /\ Good(durable')
  BY <1>1 DEF Inv2, Good
<1> QED
  BY <1>1, <1>2, StepInv2, HoldsNothing

LEMMA PlainCommit ==
    ASSUME Inv, Inv2, NEW t \in Workers, Alone(t), CreateCommit(t) \/ AnswerCommit(t)
    PROVE  Inv2' /\ Kept(durable'.box, durable.box)
<1>1. PICK l \in {"create_commit", "answer_commit"} : CommitAt(t, l)
  BY DEF CreateCommit, AnswerCommit
<1>2. pc[t] = l /\ l \in Within \ Sending
  BY <1>1 DEF CommitAt, At, Within, Sending
<1>3. db.box = durable.box
  BY <1>2 DEF Inv2, Holds
<1> QED
  BY <1>1, <1>3, CommitStep2, SameBox

\* What ends with the committed tables as they were: a rollback, or a crash.
LEMMA BackStep ==
    ASSUME Inv, Inv2, durable' = durable, db' = durable, \A t \in Workers : pc'[t] = "idle"
    PROVE  Inv2' /\ Kept(durable'.box, durable.box)
<1>1. Good(db') /\ Good(durable') /\ durable'.box = durable.box
  BY DEF Inv2, Good
<1> QED
  BY <1>1, HoldsNothing, SameBox DEF Inv2

LEMMA ThrowStep2 ==
    ASSUME Inv, Inv2, NEW t \in Workers, Alone(t), NEW l, Throw(t, l)
    PROVE  Inv2' /\ Kept(durable'.box, durable.box)
<1>1. db' = durable /\ durable' = durable /\ Enter(t, "idle", NoArg)
  BY DEF Throw, Rollback, Return
<1>2. \A v \in Workers : pc'[v] = "idle"
  BY <1>1 DEF Inv, Enter, Alone, Idle, At
<1> QED
  BY <1>1, <1>2, BackStep

LEMMA RestartStep2 == ASSUME Inv, Inv2, Restart PROVE Inv2' /\ Kept(durable'.box, durable.box)
<1>1. db' = durable /\ durable' = durable /\ \A t \in Workers : pc'[t] = "idle"
  BY DEF Restart, Reopen
<1> QED
  BY <1>1, BackStep

LEMMA LoadStep2 ==
    ASSUME Inv, Inv2, NEW t \in Workers, Alone(t), NEW l, NEW a, Load(t, l, a), l \notin Within,
           db = durable => Holds(l, a, db, db)
    PROVE  Inv2' /\ Kept(durable'.box, durable.box)
<1>1. pc[t] = "idle" /\ Enter(t, l, a) /\ UNCHANGED <<db, durable>>
  BY DEF Load, Idle, At, Query, conn
<1>2. db = durable
  BY <1>1, AloneIs, KnowsNothing
<1> QED
  BY <1>1, <1>2, StillStep

\* The requests that begin by reading, and hold nothing of photos or deliveries.
LEMMA PlainLoads ==
    ASSUME Inv, Inv2, NEW t \in Workers, Alone(t), NEW r, NEW u,
           \/ Leave(t, r, u) \/ DeleteRoom(t, r, u)
           \/ \E answer : Answer(t, r, u, answer)
           \/ \E by : Invite(t, r, by, u) \/ Remove(t, r, by, u)
    PROVE  Inv2' /\ Kept(durable'.box, durable.box)
<1> DEFINE Loads(l) == \E a : Load(t, l, a)
<1>1. /\ Leave(t, r, u) => Loads("leave")
      /\ DeleteRoom(t, r, u) => Loads("delete_photos")
  BY DEF Leave, DeleteRoom
<1>2. ASSUME NEW answer, Answer(t, r, u, answer) PROVE Loads("answer_begin")
  BY <1>2 DEF Answer
<1>3. ASSUME NEW by, Invite(t, r, by, u) PROVE Loads("invite")
  BY <1>3 DEF Invite
<1>4. ASSUME NEW by, Remove(t, r, by, u) PROVE Loads("remove")
  BY <1>4 DEF Remove
<1>5. PICK l \in {"leave", "delete_photos", "answer_begin", "invite", "remove"} : Loads(l)
  BY <1>1, <1>2, <1>3, <1>4
<1>6. PICK a : Load(t, l, a)
  BY <1>5
<1>7. l \notin Within /\ Holds(l, a, db, db)
  BY <1>5 DEF Holds, Sending, Within
<1> QED
  BY <1>6, <1>7, LoadStep2

LEMMA PlainBegins ==
    ASSUME Inv, Inv2, NEW t \in Workers, Alone(t),
           AnswerBegin(t) \/ (\E r, u : CreateBegin(t, r, u))
    PROVE  Inv2' /\ Kept(durable'.box, durable.box)
<1>1. CASE AnswerBegin(t)
  <2>1. pc[t] = "answer_begin" /\ BeginAt(t, "answer_begin", "answer")
        /\ "answer_begin" \notin Within /\ "answer" \in Within
    BY <1>1 DEF AnswerBegin, BeginAt, At, Within
  <2>2. db = durable
    BY <2>1, AloneIs
  <2>3. Holds("answer", arg[t], db, durable)
    BY <2>2 DEF Holds, Sending
  <2> QED
    BY <2>1, <2>3, BeginStep2
<1>2. ASSUME NEW r, NEW u, CreateBegin(t, r, u) PROVE Inv2' /\ Kept(durable'.box, durable.box)
  <2> DEFINE a == [r |-> r, u |-> u]
  <2>1. pc[t] = "idle" /\ Enter(t, "create_room", a) /\ UNCHANGED <<db, durable>>
    BY <1>2 DEF CreateBegin, Begin, Idle, At
  <2>2. db = durable
    BY <2>1, AloneIs, KnowsNothing
  <2>3. Holds("create_room", a, db, durable)
    BY <2>2 DEF Holds, Sending
  <2> QED
    BY <2>1, <2>2, <2>3, StillStep
<1> QED
  BY <1>1, <1>2

\* The statements that touch neither.
LEMMA RoomStatements ==
    ASSUME Inv, Inv2, NEW t \in Workers, Alone(t), CreateRoom(t) \/ CreateMember(t) \/ InviteUpsert(t)
    PROVE  Inv2' /\ Kept(durable'.box, durable.box)
<1> DEFINE a == arg[t]
<1>1. Framed(db)
  BY DEF Inv, Typed
<1>2. CASE CreateRoom(t)
  <2> DEFINE d == [db EXCEPT !.rooms = @ \union {a.r}, !.made[a.r] = a.u]
  <2>1. pc[t] = "create_room" /\ Execute(d, TRUE) /\ Enter(t, "create_member", a)
    BY <1>2, GotoIsEnter DEF CreateRoom, Statement, At
  <2>2. d.box = db.box /\ d.photos = db.photos /\ db.rooms \subseteq d.rooms
    BY <1>1 DEF Framed, Fields
  <2> HIDE DEF d
  <2>3. "create_room" \notin Sending /\ "create_member" \notin Sending /\ "create_room" \in Within
    BY DEF Sending, Within
  <2> QED
    BY <2>1, <2>2, <2>3, PlainStep
<1>3. CASE CreateMember(t)
  <2> DEFINE d == [db EXCEPT !.mem[a.r][a.u] = "member", !.by[a.r][a.u] = a.u]
  <2>1. pc[t] = "create_member" /\ Execute(d, TRUE) /\ Enter(t, "create_commit", a)
    BY <1>3, GotoIsEnter DEF CreateMember, Statement, At
  <2>2. d.box = db.box /\ d.photos = db.photos /\ db.rooms \subseteq d.rooms
    BY <1>1 DEF Framed, Fields
  <2> HIDE DEF d
  <2>3. "create_member" \notin Sending /\ "create_commit" \notin Sending /\ "create_member" \in Within
    BY DEF Sending, Within
  <2> QED
    BY <2>1, <2>2, <2>3, PlainStep
<1>4. CASE InviteUpsert(t)
  <2> DEFINE d == [db EXCEPT !.mem[a.r][a.u] = IF @ = "member" THEN @ ELSE "invited",
                             !.by[a.r][a.u] = a.by]
  <2>1. pc[t] = "invite" /\ Execute(d, TRUE) /\ Enter(t, "idle", NoArg)
    BY <1>4 DEF InviteUpsert, Finish, At, Return
  <2>2. d.box = db.box /\ d.photos = db.photos /\ db.rooms \subseteq d.rooms
    BY <1>1 DEF Framed, Fields
  <2> HIDE DEF d
  <2>3. "invite" \notin Sending /\ "idle" \notin Sending /\ "idle" \notin Within
    BY DEF Sending, Within
  <2> QED
    BY <2>1, <2>2, <2>3, PlainStep
<1> QED
  BY <1>2, <1>3, <1>4

LEMMA StateKeepsRest ==
    ASSUME NEW d, Framed(d), NEW r, NEW u, NEW s
    PROVE  LET e == WithState(d, r, u, s) IN
           e.box = d.box /\ e.photos = d.photos /\ d.rooms \subseteq e.rooms
BY DEF WithState, Framed, Fields

LEMMA StateStatements ==
    ASSUME Inv, Inv2, NEW t \in Workers, Alone(t), AnswerUpdate(t) \/ LeaveUpdate(t) \/ RemoveUpdate(t)
    PROVE  Inv2' /\ Kept(durable'.box, durable.box)
<1> DEFINE a == arg[t]
<1>1. Framed(db)
  BY DEF Inv, Typed
<1>2. \E m, s, k, x : /\ Execute(WithState(db, a.r, a.u, s), x) /\ Enter(t, m, k)
                      /\ \/ pc[t] = "answer" /\ m \in {"block", "answer_commit"}
                         \/ pc[t] \in {"leave", "remove"} /\ m = "idle"
  <2>1. CASE AnswerUpdate(t)
    BY <2>1, GotoIsEnter DEF AnswerUpdate, At
  <2>2. CASE LeaveUpdate(t)
    BY <2>2 DEF LeaveUpdate, Finish, At, Return
  <2>3. CASE RemoveUpdate(t)
    BY <2>3 DEF RemoveUpdate, Finish, At, Return
  <2> QED
    BY <2>1, <2>2, <2>3
<1>3. PICK m, s, k, x : /\ Execute(WithState(db, a.r, a.u, s), x) /\ Enter(t, m, k)
                      /\ \/ pc[t] = "answer" /\ m \in {"block", "answer_commit"}
                         \/ pc[t] \in {"leave", "remove"} /\ m = "idle"
  BY <1>2
<1> DEFINE d == WithState(db, a.r, a.u, s)
<1>4. d.box = db.box /\ d.photos = db.photos /\ db.rooms \subseteq d.rooms
  BY <1>1, StateKeepsRest
<1>5. Execute(d, x)
  BY <1>3
<1> HIDE DEF d
<1>6. pc[t] \notin Sending /\ m \notin Sending /\ m # "delete_room" /\ (m \in Within => pc[t] \in Within)
  BY <1>3 DEF Sending, Within
<1> QED
  BY <1>3, <1>4, <1>5, <1>6, PlainStep

LEMMA BlockStatement ==
    ASSUME Inv, Inv2, NEW t \in Workers, Alone(t), AnswerBlock(t)
    PROVE  Inv2' /\ Kept(durable'.box, durable.box)
<1> DEFINE a == arg[t]
           x == IF a.answer = "block_room" THEN a.r ELSE a.by
           d == [db EXCEPT !.blocks = @ \union {<<a.u, x>>}]
<1>1. CASE Throw(t, "block")
  BY <1>1, ThrowStep2
<1>2. CASE Statement(t, "block", "answer_commit", d, TRUE)
  <2>1. pc[t] = "block" /\ Execute(d, TRUE) /\ Enter(t, "answer_commit", a)
    BY <1>2, GotoIsEnter DEF Statement, At
  <2>2. d.box = db.box /\ d.photos = db.photos /\ db.rooms \subseteq d.rooms
    BY DEF Inv, Typed, Framed, Fields
  <2> HIDE DEF d
  <2>3. "block" \notin Sending /\ "answer_commit" \notin Sending /\ "block" \in Within
    BY DEF Sending, Within
  <2> QED
    BY <2>1, <2>2, <2>3, PlainStep
<1> QED
  BY <1>1, <1>2 DEF AnswerBlock

LEMMA PlainRequests ==
    ASSUME Inv, Inv2, NEW t \in Workers, Alone(t),
           (\E u, x : Unblock(t, u, x)) \/ (\E s : LinkEnds(t, s))
    PROVE  Inv2' /\ Kept(durable'.box, durable.box)
<1>1. Framed(db)
  BY DEF Inv, Typed
<1>2. PICK d : /\ Request(t, d, TRUE) /\ d.box = db.box /\ d.photos = db.photos
              /\ db.rooms \subseteq d.rooms
  <2>1. ASSUME NEW u, NEW x, Unblock(t, u, x) PROVE \E d : Request(t, d, TRUE) /\ d.box = db.box
               /\ d.photos = db.photos /\ db.rooms \subseteq d.rooms
    <3> DEFINE d == [db EXCEPT !.blocks = @ \ {<<u, x>>}]
    <3>1. d.box = db.box /\ d.photos = db.photos /\ db.rooms \subseteq d.rooms
      BY <1>1 DEF Framed, Fields
    <3>2. Request(t, d, TRUE)
      BY <2>1 DEF Unblock
    <3> QED
      BY <3>1, <3>2
  <2>2. ASSUME NEW s, LinkEnds(t, s) PROVE \E d : Request(t, d, TRUE) /\ d.box = db.box
               /\ d.photos = db.photos /\ db.rooms \subseteq d.rooms
    <3> DEFINE d == [db EXCEPT !.live = @ \ {s}]
    <3>1. d.box = db.box /\ d.photos = db.photos /\ db.rooms \subseteq d.rooms
      BY <1>1 DEF Framed, Fields
    <3>2. Request(t, d, TRUE)
      BY <2>2 DEF LinkEnds
    <3> QED
      BY <3>1, <3>2
  <2> QED
    BY <2>1, <2>2
<1>3. pc[t] = "idle" /\ Execute(d, TRUE) /\ Enter(t, "idle", arg[t])
  BY <1>2, RequestIs
<1>4. "idle" \notin Sending /\ "idle" \notin Within
  BY DEF Sending, Within
<1> QED
  BY <1>2, <1>3, <1>4, PlainStep

\* A statement that commits by itself.
LEMMA OwnStep2 ==
    ASSUME Inv, Inv2, NEW t \in Workers, Alone(t), pc[t] \notin Within, NEW m, NEW a, NEW d, NEW x,
           Execute(d, x), Enter(t, m, a), Good(d), Kept(d.box, db.box), Holds(m, a, d, d)
    PROVE  Inv2' /\ Kept(durable'.box, durable.box)
<1>1. owner = NoOwner /\ db = durable
  BY AloneIs
<1>2. db' = d /\ durable' = d
  BY <1>1 DEF Execute
<1>3. Good(db') /\ Good(durable') /\ Holds(m, a, db', durable') /\ Kept(durable'.box, durable.box)
  BY <1>1, <1>2 DEF Good, Holds, Written, InItem
<1> QED
  BY <1>3, StepInv2

LEMMA DeletePhotosStep2 ==
    ASSUME Inv, Inv2, NEW t \in Workers, Alone(t), DeletePhotos(t)
    PROVE  Inv2' /\ Kept(durable'.box, durable.box)
<1> DEFINE left == {p \in db.photos : p[1] # arg[t].r}
           d == [db EXCEPT !.photos = left]
<1>1. /\ pc[t] = "delete_photos" /\ Execute(d, left # db.photos)
      /\ Enter(t, "delete_room", arg[t])
  BY GotoIsEnter DEF DeletePhotos, Statement, At
<1>2. d.box = db.box /\ d.rooms = db.rooms /\ d.photos = left
  BY DEF Inv, Typed, Framed, Fields
<1> HIDE DEF d
<1>3. Good(d) /\ Holds("delete_room", arg[t], d, d)
  BY <1>2 DEF Inv2, Good, Holds, Sending, Within
<1>4. pc[t] \notin Within
  BY <1>1 DEF Within
<1> QED
  BY <1>1, <1>2, <1>3, <1>4, OwnStep2, SameBox

LEMMA DeleteRowStep2 ==
    ASSUME Inv, Inv2, NEW t \in Workers, Alone(t), DeleteRow(t)
    PROVE  Inv2' /\ Kept(durable'.box, durable.box)
<1> DEFINE r == arg[t].r
           d == WithoutRoom(db, r)
<1>1. pc[t] = "delete_room" /\ Execute(d, r \in db.rooms) /\ Enter(t, "idle", NoArg)
  BY DEF DeleteRow, Finish, At, Return
<1>2. d.box = db.box /\ d.rooms = db.rooms \ {r} /\ d.photos = db.photos
  BY DEF Inv, Typed, Framed, Fields, WithoutRoom
<1> HIDE DEF d
<1>3. \A p \in db.photos : p[1] # r
  BY <1>1 DEF Inv2, Holds
<1>4. Good(d)
  BY <1>2, <1>3 DEF Inv2, Good
<1>5. pc[t] \notin Within
  BY <1>1 DEF Within
<1> QED
  BY <1>1, <1>2, <1>4, <1>5, OwnStep2, SameBox, HoldsNothing

LEMMA PostPhotoStep2 ==
    ASSUME Inv, Inv2, NEW t \in Workers, Alone(t), NEW r, NEW u, PostPhoto(t, r, u)
    PROVE  Inv2' /\ Kept(durable'.box, durable.box)
<1> DEFINE P == db.photos \union {<<r, u>>}
           d == [db EXCEPT !.photos = P]
<1>1. Request(t, d, TRUE) /\ r \in db.rooms
  BY DEF PostPhoto, IsMember
<1>2. d.box = db.box /\ d.rooms = db.rooms /\ d.photos = P
  BY DEF Inv, Typed, Framed, Fields
<1> HIDE DEF d
<1>3. Good(d)
  BY <1>1, <1>2 DEF Inv2, Good
<1> QED
  BY <1>1, <1>2, <1>3, RequestIs, OwnStep2, SameBox, HoldsNothing, KnowsNothing

-----------------------------------------------------------------------------
(* The inbox *)

\* A request that replaces the deliveries.
LEMMA InboxStep ==
    ASSUME Inv, Inv2, NEW t \in Workers, Alone(t), NEW n \in [Share -> [User -> Rows]],
           Agree(n), Kept(n, db.box), Request(t, [db EXCEPT !.box = n], TRUE)
    PROVE  Inv2' /\ Kept(durable'.box, durable.box)
<1> DEFINE d == [db EXCEPT !.box = n]
<1>1. d.box = n /\ d.rooms = db.rooms /\ d.photos = db.photos
  BY DEF Inv, Typed, Framed, Fields
<1>2. pc[t] = "idle" /\ Execute(d, TRUE) /\ Enter(t, "idle", arg[t])
  BY RequestIs
<1> HIDE DEF d
<1>3. Good(d)
  BY <1>1 DEF Inv2, Good
<1> QED
  BY <1>1, <1>2, <1>3, OwnStep2, HoldsNothing, KnowsNothing

LEMMA MarkSeenStep2 ==
    ASSUME Inv, Inv2, NEW t \in Workers, Alone(t), NEW u \in User, MarkSeen(t, u)
    PROVE  Inv2' /\ Kept(durable'.box, durable.box)
<1> DEFINE Seen(row) == IF row.batch # Nobody THEN [row EXCEPT !.seen = TRUE] ELSE row
           n == [s \in Share |-> [v \in User |->
                   IF v = u THEN Seen(db.box[s][v]) ELSE db.box[s][v]]]
           N == [s \in Share |-> [v \in User |->
                   IF v = u /\ db.box[s][v].batch # Nobody
                   THEN [db.box[s][v] EXCEPT !.seen = TRUE] ELSE db.box[s][v]]]
<1>1. Request(t, [db EXCEPT !.box = N], TRUE) /\ N = n
  BY DEF MarkSeen, Inbox
<1>2. ASSUME NEW row \in Rows
      PROVE  Seen(row) \in Rows /\ Seen(row).batch = row.batch /\ (Seen(row) = NoItem <=> row = NoItem)
  <2>1. CASE row = NoItem
    BY <2>1 DEF NoItem, Rows
  <2>2. CASE row # NoItem
    <3>1. row \in [from : User, batch : Batch, seen : BOOLEAN]
      BY <2>2 DEF Rows
    <3>2. Seen(row) = [row EXCEPT !.seen = TRUE] /\ row.batch \in Batch /\ row.batch # Nobody
      BY <3>1, TokensAreNotNull
    <3>3. [row EXCEPT !.seen = TRUE] \in [from : User, batch : Batch, seen : BOOLEAN]
          /\ [row EXCEPT !.seen = TRUE].batch = row.batch
      BY <3>1
    <3>4. NoItem.batch = Nobody
      BY DEF NoItem
    <3> HIDE DEF Seen
    <3> QED
      BY <2>2, <3>2, <3>3, <3>4 DEF Rows
  <2> QED
    BY <2>1, <2>2
<1>3. db.box \in [Share -> [User -> Rows]] /\ Agree(db.box)
  BY DEF Inv2, Good
<1>4. ASSUME NEW s \in Share, NEW v \in User
      PROVE  n[s][v] = IF v = u THEN Seen(db.box[s][v]) ELSE db.box[s][v]
  BY <1>3
<1> HIDE DEF Seen, N
<1>5. n \in [Share -> [User -> Rows]]
  BY <1>2, <1>3
<1> HIDE DEF n
<1>6. \A s \in Share, v \in User : n[s][v].batch = db.box[s][v].batch
                                    /\ (n[s][v] = NoItem <=> db.box[s][v] = NoItem)
  BY <1>2, <1>3, <1>4
<1>7. Agree(n) /\ Kept(n, db.box)
  BY <1>3, <1>4, <1>6 DEF Agree, Kept
<1> QED
  BY <1>1, <1>5, <1>7, InboxStep DEF n

LEMMA DismissStep2 ==
    ASSUME Inv, Inv2, NEW t \in Workers, Alone(t), NEW u \in User, NEW b, Dismiss(t, u, b)
    PROVE  Inv2' /\ Kept(durable'.box, durable.box)
<1> DEFINE n == [s \in Share |-> [v \in User |->
                   IF v = u /\ db.box[s][v].batch = b THEN NoItem ELSE db.box[s][v]]]
<1>1. Request(t, [db EXCEPT !.box = n], TRUE)
  BY DEF Dismiss, Inbox
<1>2. db.box \in [Share -> [User -> Rows]] /\ Agree(db.box)
  BY DEF Inv2, Good
<1>3. n \in [Share -> [User -> Rows]]
  BY <1>2 DEF Rows
<1>4. \A s \in Share, v \in User : n[s][v] = NoItem \/ n[s][v] = db.box[s][v]
  BY <1>2
<1> HIDE DEF n
<1>5. Agree(n) /\ Kept(n, db.box)
  BY <1>2, <1>3, <1>4, ShrinkGood
<1> QED
  BY <1>1, <1>3, <1>5, InboxStep DEF n

LEMMA DeleteAccountStep2 ==
    ASSUME Inv, Inv2, NEW t \in Workers, Alone(t), NEW u \in User, DeleteAccount(t, u)
    PROVE  Inv2' /\ Kept(durable'.box, durable.box)
<1> DEFINE d == WithoutUser(db, u)
           n == [s \in Share |-> [v \in User |->
                   IF u \in {v, db.box[s][v].from, Owner[s]} THEN NoItem ELSE db.box[s][v]]]
<1>1. Request(t, d, TRUE)
  BY DEF DeleteAccount
<1>2. Framed(db)
  BY DEF Inv, Typed
<1>3. d.rooms = db.rooms /\ d.photos \subseteq db.photos
  BY <1>2 DEF WithoutUser, Framed, Fields
<1>4. d.box = n
  BY <1>2 DEF WithoutUser, Framed, Fields
<1> HIDE DEF d
<1>5. db.box \in [Share -> [User -> Rows]] /\ Agree(db.box)
  BY DEF Inv2, Good
<1>6. n \in [Share -> [User -> Rows]]
  BY <1>5 DEF Rows
<1>7. \A s \in Share, v \in User : n[s][v] = NoItem \/ n[s][v] = db.box[s][v]
  OBVIOUS
<1> HIDE DEF n
<1>8. Agree(n) /\ Kept(n, db.box)
  BY <1>5, <1>6, <1>7, ShrinkGood
<1>9. Good(d)
  BY <1>3, <1>4, <1>6, <1>8 DEF Inv2, Good
<1> QED
  BY <1>1, <1>4, <1>8, <1>9, RequestIs, OwnStep2, HoldsNothing, KnowsNothing

LEMMA SendStep2 ==
    ASSUME Inv, Inv2, NEW t \in Workers, Alone(t), NEW u \in User, NEW v \in User,
           NEW links \in SUBSET Share, NEW b \in Batch, Send(t, u, v, links, b)
    PROVE  Inv2' /\ Kept(durable'.box, durable.box)
<1> DEFINE a == [from |-> u, to |-> v, sent |-> links, left |-> links, b |-> b]
<1>1. Load(t, "send_begin", a) /\ <<v, u>> \notin db.blocks /\ InItem(db, b) = {}
  BY DEF Send, SendPastBlock
<1>2. Holds("send_begin", a, db, db) /\ "send_begin" \notin Within
  BY <1>1 DEF Holds, Sending, Sends, Within
<1> QED
  BY <1>1, <1>2, LoadStep2

LEMMA SendBeginStep2 ==
    ASSUME Inv, Inv2, NEW t \in Workers, Alone(t), SendBegin(t)
    PROVE  Inv2' /\ Kept(durable'.box, durable.box)
<1>1. pc[t] = "send_begin" /\ BeginAt(t, "send_begin", "send")
      /\ "send_begin" \notin Within /\ "send" \in Within
  BY DEF SendBegin, BeginAt, At, Within
<1>2. db = durable /\ Holds("send_begin", arg[t], db, durable)
  BY <1>1, AloneIs DEF Inv2
<1>3. Holds("send", arg[t], db, durable)
  BY <1>2 DEF Holds, Written, Sending
<1> QED
  BY <1>1, <1>3, BeginStep2

LEMMA SendUpsertStep2 ==
    ASSUME Inv, Inv2, NEW t \in Workers, Alone(t), SendUpsert(t)
    PROVE  Inv2' /\ Kept(durable'.box, durable.box)
<1> DEFINE a == arg[t]
<1>1. PICK s \in a.left :
          /\ Execute([db EXCEPT !.box[s][a.to] = Delivered(s, a)], TRUE)
          /\ Enter(t, IF a.left = {s} THEN "send_commit" ELSE "send", [a EXCEPT !.left = @ \ {s}])
  BY DEF SendUpsert
<1>2. pc[t] = "send"
  BY DEF SendUpsert, At
<1>3. Holds("send", a, db, durable)
  BY <1>2 DEF Inv2
<1>4. /\ a \in Sends /\ a.left \subseteq a.sent /\ <<a.to, a.from>> \notin durable.blocks
      /\ InItem(durable, a.b) = {} /\ Written(db.box, durable.box, a)
  BY <1>3 DEF Holds, Sending
<1>4a. /\ a.from \in User /\ a.to \in User /\ a.b \in Batch /\ a.sent \subseteq Share /\ s \in Share
  BY <1>4 DEF Sends
<1> DEFINE n == [db.box EXCEPT ![s][a.to] = Row(a)]
           d == [db EXCEPT !.box = n]
           k == [a EXCEPT !.left = @ \ {s}]
           m == IF a.left = {s} THEN "send_commit" ELSE "send"
<1>5. Execute(d, TRUE) /\ Enter(t, m, k)
  BY <1>1 DEF Delivered
<1>6. d.box = n /\ d.rooms = db.rooms /\ d.photos = db.photos
  BY DEF Inv, Typed, Framed, Fields
<1>7. owner = t /\ owner # NoOwner
  BY <1>2, AloneIs, WorkersApart DEF Within
<1>8. db' = d /\ durable' = durable
  BY <1>5, <1>7 DEF Execute
<1>9. db.box \in [Share -> [User -> Rows]] /\ Agree(db.box)
      /\ durable.box \in [Share -> [User -> Rows]]
  BY DEF Inv2, Good
<1>10. Row(a) \in Rows /\ Row(a).batch = a.b /\ Row(a) # NoItem
  BY <1>4a, TokensAreNotNull DEF Row, Rows, NoItem
<1>11. n \in [Share -> [User -> Rows]]
  BY <1>4a, <1>9, <1>10
<1>12. \A x \in Share, v \in User : n[x][v] = IF x = s /\ v = a.to THEN Row(a) ELSE db.box[x][v]
  BY <1>4a, <1>9
<1> HIDE DEF n, d
<1>13. Agree(n)
  <2>1. ASSUME NEW x \in Share, NEW v \in User, n[x][v].batch = a.b PROVE v = a.to /\ n[x][v] = Row(a)
    <3>1. durable.box[x][v].batch # a.b
      BY <1>4 DEF InItem
    <3> QED
      BY <1>4, <1>12, <2>1, <3>1, <1>4a DEF Written
  <2>2. ASSUME NEW x \in Share, NEW y \in Share, NEW v \in User, NEW w \in User,
               n[x][v].batch = n[y][w].batch, n[x][v] # NoItem
        PROVE  v = w /\ n[x][v] = n[y][w]
    <3>1. CASE n[x][v].batch = a.b
      BY <2>1, <2>2, <3>1
    <3>2. CASE n[x][v].batch # a.b
      <4>1. n[x][v] = db.box[x][v] /\ n[y][w] = db.box[y][w]
        BY <1>10, <1>12, <2>2, <3>2
      <4> QED
        BY <1>9, <2>2, <4>1 DEF Agree
    <3> QED
      BY <3>1, <3>2
  <2> QED
    BY <2>2 DEF Agree
<1>14. Good(db') /\ Good(durable') /\ durable'.box = durable.box
  BY <1>6, <1>8, <1>11, <1>13 DEF Inv2, Good
<1>15. /\ k.from = a.from /\ k.to = a.to /\ k.b = a.b /\ k.sent = a.sent
       /\ k.left = a.left \ {s} /\ Row(k) = Row(a)
  BY <1>4 DEF Sends, Row
<1>16. k \in Sends
  BY <1>4 DEF Sends
<1> HIDE DEF k
<1>17. Written(n, durable.box, k)
  BY <1>1, <1>4, <1>12, <1>15, <1>4a DEF Written
<1>18. k.left = {} \/ m = "send"
  BY <1>1, <1>15
<1>19. Holds(m, k, db', durable')
  BY <1>4, <1>6, <1>8, <1>15, <1>16, <1>17, <1>18 DEF Holds, Sending, Within, InItem
<1> QED
  BY <1>5, <1>14, <1>19, StepInv2, SameBox

\* COMMIT: all rows of the item at once, to somebody who has not blocked its sender.
LEMMA SendCommitStep2 ==
    ASSUME Inv, Inv2, NEW t \in Workers, Alone(t), SendCommit(t)
    PROVE  Inv2' /\ SentStep /\ HeardStep
<1> DEFINE a == arg[t]
<1>1. Inv2' /\ durable' = db
  BY CommitStep2 DEF SendCommit
<1>2. pc[t] = "send_commit" /\ Holds("send_commit", a, db, durable)
  BY DEF SendCommit, CommitAt, At, Inv2
<1>3. /\ a \in Sends /\ <<a.to, a.from>> \notin durable.blocks /\ InItem(durable, a.b) = {}
      /\ Written(db.box, durable.box, a) /\ a.left = {}
  BY <1>2 DEF Holds, Sending
<1>4. a.from \in User /\ a.to \in User /\ a.b \in Batch /\ a.sent \subseteq Share
      /\ Row(a).batch = a.b /\ Row(a).from = a.from
  BY <1>3 DEF Sends, Row
<1>5. \A s \in Share, v \in User :
        durable'.box[s][v] = IF v = a.to /\ s \in a.sent THEN Row(a) ELSE durable.box[s][v]
  BY <1>1, <1>3 DEF Written
<1>6. HeardStep
  BY <1>3, <1>4, <1>5 DEF HeardStep
<1>7. ASSUME NEW b \in Batch, b # a.b, InItem(durable, b) = {} PROVE InItem(durable', b) = {}
  BY <1>4, <1>5, <1>7 DEF InItem
<1>8. InItem(durable', a.b) = a.sent
  <2>1. ASSUME NEW s \in Share, s \notin a.sent PROVE s \notin InItem(durable', a.b)
    BY <1>3, <1>5, <2>1 DEF InItem
  <2>2. ASSUME NEW s \in a.sent PROVE s \in InItem(durable', a.b)
    BY <1>4, <1>5, <2>2 DEF InItem
  <2> QED
    BY <1>4, <2>1, <2>2 DEF InItem
<1>9. SentStep
  BY <1>2, <1>7, <1>8 DEF SentStep, At
<1> QED
  BY <1>1, <1>6, <1>9

LEMMA KeepsGood ==
    ASSUME Inv2, Inv2', Kept(durable'.box, durable.box) PROVE SentStep /\ HeardStep
BY KeptSteps DEF Inv2

LEMMA NextStep2 == ASSUME Inv, Inv2, Next PROVE Inv2' /\ SentStep /\ HeardStep
<1>1. ASSUME NEW t \in Workers, Alone(t), Requests(t) PROVE Inv2' /\ Kept(durable'.box, durable.box)
  <2>1. ASSUME NEW u \in User, NEW v \in User, NEW links \in SUBSET Share \ {{}}, NEW b \in Batch,
               Send(t, u, v, links, b)
        PROVE  Inv2' /\ Kept(durable'.box, durable.box)
    BY <1>1, <2>1, SendStep2
  <2>2. CASE \E r \in Room, u \in User :
               \/ CreateBegin(t, r, u) \/ Leave(t, r, u) \/ DeleteRoom(t, r, u)
               \/ \E answer \in Answers : Answer(t, r, u, answer)
               \/ \E by \in User : Invite(t, r, by, u) \/ Remove(t, r, by, u)
               \/ PostPhoto(t, r, u)
    BY <1>1, <2>2, PlainLoads, PlainBegins, PostPhotoStep2
  <2>3. CASE \/ \E u \in User, x \in User \union Room : Unblock(t, u, x)
             \/ \E s \in Share : LinkEnds(t, s)
    BY <1>1, <2>3, PlainRequests
  <2>4. CASE \E u \in User : MarkSeen(t, u) \/ DeleteAccount(t, u) \/ \E b \in Batch : Dismiss(t, u, b)
    BY <1>1, <2>4, MarkSeenStep2, DismissStep2, DeleteAccountStep2
  <2> QED
    BY <1>1, <2>1, <2>2, <2>3, <2>4 DEF Requests
<1>2. ASSUME NEW t \in Workers, Alone(t), Steps(t), ~SendCommit(t)
      PROVE  Inv2' /\ Kept(durable'.box, durable.box)
  BY <1>2, RoomStatements, StateStatements, BlockStatement, PlainCommit, PlainBegins,
     DeletePhotosStep2, DeleteRowStep2, SendBeginStep2, SendUpsertStep2 DEF Steps
<1> QED
  BY <1>1, <1>2, KeepsGood, SendCommitStep2, RestartStep2 DEF Next

LEMMA StutterStep2 == ASSUME Inv2, UNCHANGED vars PROVE Inv2' /\ SentStep /\ HeardStep
<1>1. UNCHANGED <<db, durable, pc, arg>>
  BY DEF vars, server, conn
<1>2. Inv2' /\ durable'.box = durable.box
  BY <1>1 DEF Inv2, Good, Holds, Written, InItem
<1> QED
  BY <1>2, SameBox, KeepsGood

LEMMA RoomsInv == Spec => [](Inv /\ Inv2)
<1>1. Init => Inv /\ Inv2
  BY InitInv, InitInv2
<1>2. Inv /\ Inv2 /\ [Next]_vars => (Inv /\ Inv2)'
  BY NextStep, StutterStep, NextStep2, StutterStep2
<1> QED
  BY <1>1, <1>2, PTL DEF Spec

\* Deleting a room takes its photos' links first: no photo is left with a good
\* link whose room is gone, at whichever statement the deletion is cut short.
THEOREM RoomsPhotosGoWithRoom == Spec => []PhotosGoWithRoom
<1>1. Inv2 => PhotosGoWithRoom
  BY DEF Inv2, Good, PhotosGoWithRoom
<1> QED
  BY <1>1, RoomsInv, PTL

\* One inbox item is one recipient's, from one sender, and seen or unread as a
\* whole: a send's id is fresh, and the upsert moves a link from its old item.
THEOREM RoomsItemsAgree == Spec => []ItemsAgree
<1>1. Inv2 => ItemsAgree
  BY DEF Inv2, Good, Agree, ItemsAgree
<1> QED
  BY <1>1, RoomsInv, PTL

\* The rows of a send are committed together, exactly the links that were sent.
THEOREM RoomsSentWhole == Spec => SentWhole
<1>1. Inv /\ Inv2 /\ [Next]_vars => [SentStep]_vars
  BY NextStep2, StutterStep2
<1> QED
  BY <1>1, RoomsInv, PTL DEF Spec, SentWhole, SentStep

\* Nothing is delivered past a committed block: from the check of the
\* recipient's blocks to COMMIT nobody else writes.
THEOREM RoomsBlockedNotHeard == Spec => BlockedNotHeard
<1>1. Inv /\ Inv2 /\ [Next]_vars => [HeardStep]_vars
  BY NextStep2, StutterStep2
<1> QED
  BY <1>1, RoomsInv, PTL DEF Spec, BlockedNotHeard, HeardStep

=============================================================================
