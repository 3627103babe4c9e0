------------------------------ MODULE AccountsProofs ------------------------------
(***************************************************************************)
(* What holds of Accounts for any number of accounts, sessions, invites    *)
(* and names: every sequence of requests, each cut short by a crash        *)
(* anywhere, leaves an administrator, sessions that stand, names that      *)
(* follow, and the record of who vouched for whom.                         *)
(***************************************************************************)
EXTENDS Accounts, TLAPS

-----------------------------------------------------------------------------
(* The tables *)

Fields == {"state", "role", "name", "pw", "sess", "inv", "said"}
Framed(d) == d = [f \in Fields |-> d[f]]

SessionRow == {NoSession} \union [user : User, pw : Nat]
InviteRow  == [by : User \union {Nobody}, used : User \union {Nobody}]

Typed(d) ==
    /\ Framed(d)
    /\ d.state \in [User -> {"none", "active", "disabled"}] /\ d.role \in [User -> Roles]
    /\ d.name \in [User -> Name \union {Nobody}] /\ d.pw \in [User -> Nat]
    /\ d.sess \in [Token -> SessionRow] /\ d.inv \in [Invite -> InviteRow]
    /\ d.said \subseteq User \X (Name \union {Nobody})

\* An administrator can sign in; that session stands; what u said carries u's
\* name; an invite is by an account that exists.
Leads(d, u) == d.state[u] = "active" /\ d.role[u] = "admin"
Led(d)      == HasAnyUser(d) => \E u \in User : Leads(d, u)
Other(d, u) == \E v \in User \ {u} : Leads(d, v)

Stands(d, s)  == d.state[s.user] = "active" /\ s.pw = d.pw[s.user]
Backed(d)     == \A i \in Invite : d.inv[i].by # Nobody => Exists(d, d.inv[i].by)

\* Everything, but for the sessions or the names of some accounts.
SessionsBut(d, us) == \A k \in Token : LET s == d.sess[k] IN
                         s # NoSession /\ s.user \notin us => Stands(d, s)
NamesBut(d, us)    == \A p \in d.said : Exists(d, p[1]) /\ (p[1] \notin us => d.name[p[1]] = p[2])

Sound(d) == Led(d) /\ SessionsBut(d, {}) /\ NamesBut(d, {}) /\ Backed(d)

\* u's password is new and the sessions are not yet dealt with.
Repassworded(d, u) ==
    /\ Led(d) /\ SessionsBut(d, {u}) /\ NamesBut(d, {}) /\ Backed(d)
    /\ \A k \in Token : d.sess[k].user = u => d.state[u] = "active"

\* u is disabled and still has sessions.
Closing(d, u) == Led(d) /\ SessionsBut(d, {u}) /\ NamesBut(d, {}) /\ Backed(d)

\* u is called n, and not yet everywhere.
Renaming(d, u, n) ==
    /\ Led(d) /\ SessionsBut(d, {}) /\ NamesBut(d, {u}) /\ Backed(d)
    /\ d.name[u] = n

\* The step of VouchRecordKept, from the tables e to the tables d.
Vouched(e, d) ==
    \A i \in Invite : LET v == e.inv[i] IN
        v.used # Nobody /\ d.inv[i] # v => ~Exists(d, v.used) \/ ~Exists(d, v.by)

-----------------------------------------------------------------------------
(* The invariant *)

Within == {"pw_update", "pw_changes", "pw_purge", "pw_commit",
           "able_update", "able_changes", "able_purge", "able_commit",
           "del_row", "del_changes", "del_commit", "name_update", "name_said", "name_commit"}

\* Steps before which the tables are sound, and before which the invites are
\* those of the disk.
Whole   == {"pw_update", "able_update", "del_row", "name_update",
            "pw_commit", "able_commit", "del_changes", "del_commit", "name_commit"}
Keeping == Within \ {"del_changes", "del_commit"}

Naming == {"name_begin", "name_update", "name_said"}
Abling == {"able_begin", "able_update", "able_changes", "able_purge", "able_commit"}
HoldsUser == {"reg_consume", "session", "pw_begin", "pw_update", "pw_changes", "pw_purge",
              "role_update", "del_begin", "del_row", "say"} \union Abling \union Naming

\* What a handler at l that holds a knows of the tables d.
Knows(l, a, d) ==
    /\ l \in HoldsUser => a.u \in User
    /\ l \in {"boot_insert", "reg_insert"} \union Naming => a.n \in Name
    /\ l \in {"reg_insert", "reg_consume"} => a.i \in Invite /\ d.inv[a.i].used = Nobody
    /\ l = "reg_insert" => d.inv[a.i].by # Nobody
    /\ l \in {"reg_consume", "session"} => d.state[a.u] = "active" /\ a.pw = d.pw[a.u]
    /\ l = "role_update" => a.r \in Roles /\ (a.r # "admin" => Other(d, a.u))
    /\ l \in Abling => a.s \in {"active", "disabled"}
    /\ l \in {"able_begin", "able_update"} /\ a.s = "disabled" => Other(d, a.u)
    /\ l \in {"del_begin", "del_row"} => Other(d, a.u)
    /\ l \in Naming => Exists(d, a.u)
    /\ l = "say" => a.n = d.name[a.u]
    /\ l \in Whole => Sound(d)
    /\ l \in {"pw_changes", "pw_purge"} => Repassworded(d, a.u)
    /\ l = "able_changes" /\ a.s = "active" => Sound(d)
    /\ l \in {"able_changes", "able_purge"} => Closing(d, a.u)
    /\ l = "name_said" => Renaming(d, a.u, a.n)

Inv ==
    /\ Typed(db) /\ Typed(durable) /\ Sound(durable) /\ Vouched(durable, db)
    /\ pc = [t \in Workers |-> pc[t]] /\ arg = [t \in Workers |-> arg[t]]
    /\ owner \in Workers \union {NoOwner}
    /\ \A t, v \in Workers : ~Idle(t) /\ ~Idle(v) => t = v
    /\ \A t \in Workers : pc[t] \in Within <=> owner = t
    /\ owner = NoOwner => db = durable
    /\ \A t \in Workers : Knows(pc[t], arg[t], db) /\ (pc[t] \in Keeping => db.inv = durable.inv)

LEMMA KnowsNothing ==
    /\ \A a, d : Knows("idle", a, d)
    /\ "idle" \notin Within /\ Keeping \subseteq Within
BY DEF Knows, Within, Keeping, Whole, Naming, Abling, HoldsUser

LEMMA SameVouched == \A e, d : d.inv = e.inv => Vouched(e, d)
BY DEF Vouched

LEMMA InitInv == Init => Inv
<1> SUFFICES ASSUME Init PROVE Inv
  OBVIOUS
<1>1. /\ db = Empty /\ durable = Empty /\ owner = NoOwner
      /\ pc = [t \in Workers |-> "idle"] /\ arg = [t \in Workers |-> NoArg]
  BY DEF Init, HandlersInit
<1>2. Framed(Empty) /\ NoSession \in SessionRow /\ NoInvite \in InviteRow
  BY DEF Empty, Framed, Fields, SessionRow, NoInvite, InviteRow
<1>3. Typed(Empty)
  BY <1>2 DEF Empty, Typed, Roles
<1>4. Sound(Empty)
  BY DEF Empty, Sound, Led, HasAnyUser, Exists, SessionsBut, NamesBut, Backed, NoInvite
<1> QED
  BY <1>1, <1>3, <1>4, KnowsNothing, SameVouched, WorkersApart DEF Inv, Idle, At

-----------------------------------------------------------------------------
(* The kinds of step there are, of a worker t that is alone *)

LEMMA GotoIsEnter == ASSUME Inv, NEW t \in Workers, NEW l, Goto(t, l) PROVE Enter(t, l, arg[t])
BY DEF Inv, Goto, Enter

LEMMA AloneIs ==
    ASSUME Inv, NEW t \in Workers, Alone(t)
    PROVE  /\ owner = IF pc[t] \in Within THEN t ELSE NoOwner
           /\ pc[t] \notin Within => db = durable /\ Sound(db)
           /\ Knows(pc[t], arg[t], db) /\ Typed(db) /\ Typed(durable) /\ Sound(durable)
           /\ Vouched(durable, db) /\ (pc[t] \in Keeping => db.inv = durable.inv)
BY KnowsNothing, WorkersApart DEF Inv, Alone, Idle, At

LEMMA StepInv ==
    ASSUME Inv, NEW t \in Workers, Alone(t), NEW l, NEW a, Enter(t, l, a),
           Typed(db'), Typed(durable'), Sound(durable'), Vouched(durable', db'),
           owner' = IF l \in Within THEN t ELSE NoOwner, l \notin Within => db' = durable',
           Knows(l, a, db'), l \in Keeping => db'.inv = durable'.inv
    PROVE  Inv'
<1>1. /\ pc' = [v \in Workers |-> pc'[v]] /\ arg' = [v \in Workers |-> arg'[v]]
      /\ pc'[t] = l /\ arg'[t] = a /\ \A v \in Workers \ {t} : pc'[v] = "idle"
  BY DEF Inv, Enter, Alone, Idle, At
<1>2. \A v \in Workers : /\ Knows(pc'[v], arg'[v], db')
                         /\ pc'[v] \in Keeping => db'.inv = durable'.inv
  BY <1>1, KnowsNothing
<1>3. \A v, w \in Workers : ~Idle(v)' /\ ~Idle(w)' => v = w
  BY <1>1 DEF Idle, At
<1>4. \A v \in Workers : pc'[v] \in Within <=> owner' = v
  BY <1>1, KnowsNothing, WorkersApart
<1>5. owner' = NoOwner => db' = durable'
  BY WorkersApart
<1> QED
  BY <1>1, <1>2, <1>3, <1>4, <1>5
     DEF Inv, Typed, Framed, Fields, Sound, Led, HasAnyUser, Exists, SessionsBut, NamesBut,
         Backed, Stands, Leads, Vouched, Knows, Other, Open, Repassworded, Closing, Renaming

\* What a step of t is worth: the invariant, and a committed record of who
\* vouched for whom that is kept.
Keeps == Inv' /\ Vouched(durable, durable')

LEMMA QuietInv ==
    ASSUME Inv, NEW t \in Workers, Alone(t), NEW l, NEW a, Query, Enter(t, l, a),
           l \in Within <=> pc[t] \in Within, l \in Keeping => pc[t] \in Keeping, Knows(l, a, db)
    PROVE  Keeps
<1>1. db' = db /\ durable' = durable /\ owner' = owner
  BY DEF Query, conn
<1> QED
  BY <1>1, AloneIs, StepInv, SameVouched DEF Keeps

LEMMA BeginInv ==
    ASSUME Inv, NEW t \in Workers, Alone(t), NEW l, NEW m, BeginAt(t, l, m),
           l \notin Within, m \in Within, Knows(m, arg[t], db)
    PROVE  Keeps
<1>1. pc[t] = l /\ db' = db /\ durable' = durable /\ owner' = t /\ Enter(t, m, arg[t])
  BY GotoIsEnter DEF BeginAt, Begin, At
<1>2. db = durable
  BY <1>1, AloneIs
<1> QED
  BY <1>1, <1>2, AloneIs, StepInv, SameVouched DEF Keeps

\* A statement that commits by itself.
LEMMA OutsideInv ==
    ASSUME Inv, NEW t \in Workers, Alone(t), NEW l, NEW a, NEW d, NEW touched,
           Execute(d, touched), Enter(t, l, a), pc[t] \notin Within, l \notin Within,
           Typed(d), Sound(d), Vouched(db, d), Knows(l, a, d)
    PROVE  Keeps
<1>1. owner = NoOwner /\ db = durable
  BY AloneIs
<1>2. db' = d /\ durable' = d /\ owner' = NoOwner
  BY <1>1 DEF Execute
<1>3. l \notin Keeping
  BY KnowsNothing
<1> QED
  BY <1>1, <1>2, <1>3, StepInv, SameVouched DEF Keeps

LEMMA RequestInv ==
    ASSUME Inv, NEW t \in Workers, Alone(t), NEW d, NEW touched, Request(t, d, touched),
           Typed(d), Sound(d), Vouched(db, d)
    PROVE  Keeps
<1>1. pc[t] = "idle" /\ Execute(d, touched) /\ Enter(t, "idle", arg[t])
  BY DEF Request, Idle, At, Inv, Enter
<1> QED
  BY <1>1, KnowsNothing, OutsideInv

\* A statement of the worker's own transaction.
LEMMA InsideInv ==
    ASSUME Inv, NEW t \in Workers, Alone(t), NEW l, NEW m, NEW d, NEW touched,
           Statement(t, l, m, d, touched), l \in Within, m \in Within,
           Typed(d), Vouched(durable, d), Knows(m, arg[t], d),
           m \in Keeping => d.inv = durable.inv
    PROVE  Keeps
<1>1. pc[t] = l /\ Execute(d, touched) /\ Enter(t, m, arg[t])
  BY GotoIsEnter DEF Statement, At
<1>2. owner = t /\ t # NoOwner
  BY <1>1, AloneIs, WorkersApart
<1>3. db' = d /\ durable' = durable /\ owner' = t
  BY <1>1, <1>2 DEF Execute
<1> QED
  BY <1>1, <1>3, AloneIs, StepInv, SameVouched DEF Keeps

LEMMA EndInv ==
    ASSUME Inv, NEW t \in Workers, Alone(t), NEW l, l \in Within,
           (CommitAt(t, l) /\ Sound(db)) \/ Throw(t, l)
    PROVE  Keeps
<1>1. pc[t] = l /\ Enter(t, "idle", NoArg) /\ owner' = NoOwner
  BY DEF CommitAt, Throw, Commit, Rollback, Return, At
<1>2. \/ db' = db /\ durable' = db /\ Sound(db)
      \/ db' = durable /\ durable' = durable
  BY DEF CommitAt, Throw, Commit, Rollback
<1>3. Typed(db') /\ Typed(durable') /\ Sound(durable') /\ db' = durable'
  BY <1>2, AloneIs
<1> QED
  BY <1>1, <1>2, <1>3, AloneIs, StepInv, KnowsNothing, SameVouched DEF Keeps

-----------------------------------------------------------------------------
(* What the statements make of the tables *)

LEMMA MoreLed ==
    ASSUME NEW d, NEW e, Led(d), HasAnyUser(d), \A v \in User : Leads(d, v) => Leads(e, v)
    PROVE  Led(e)
BY DEF Led

LEMMA AddedUser ==
    ASSUME NEW d, Typed(d), Sound(d), NEW u \in User, ~Exists(d, u), NEW n \in Name,
           NEW r \in Roles, r = "admin" \/ HasAnyUser(d)
    PROVE  LET e == WithUser(d, u, n, r) IN
           /\ Typed(e) /\ Sound(e) /\ e.state[u] = "active" /\ e.pw[u] = 0 /\ e.inv = d.inv
<1> DEFINE e == WithUser(d, u, n, r)
<1>1. /\ Framed(e)
      /\ e.state = [d.state EXCEPT ![u] = "active"] /\ e.role = [d.role EXCEPT ![u] = r]
      /\ e.name = [d.name EXCEPT ![u] = n] /\ e.pw = [d.pw EXCEPT ![u] = 0]
      /\ e.sess = d.sess /\ e.inv = d.inv /\ e.said = d.said
  BY DEF WithUser, Typed, Framed, Fields
<1> HIDE DEF e
<1>2. Typed(e)
  BY <1>1 DEF Typed
<1>3. \A v \in User \ {u} : /\ e.state[v] = d.state[v] /\ e.role[v] = d.role[v]
                            /\ e.name[v] = d.name[v] /\ e.pw[v] = d.pw[v]
  BY <1>1 DEF Typed
<1>4. e.state[u] = "active" /\ e.role[u] = r /\ e.pw[u] = 0
  BY <1>1 DEF Typed
<1>5. Led(e)
  <2>1. CASE r = "admin"
    BY <1>4, <2>1 DEF Led, Leads
  <2>2. CASE HasAnyUser(d)
    <3>1. \A v \in User : Leads(d, v) => Leads(e, v)
      BY <1>3 DEF Leads, Exists
    <3> QED
      BY <2>2, <3>1, MoreLed DEF Sound
  <2> QED
    BY <2>1, <2>2
<1>6. SessionsBut(e, {})
  <2> SUFFICES ASSUME NEW k \in Token, d.sess[k] # NoSession PROVE Stands(e, d.sess[k])
    BY <1>1 DEF SessionsBut
  <2>1. d.sess[k].user \in User /\ Stands(d, d.sess[k])
    BY DEF Typed, SessionRow, Sound, SessionsBut
  <2> QED
    BY <1>3, <2>1 DEF Stands, Exists
<1>7. NamesBut(e, {})
  <2> SUFFICES ASSUME NEW p \in d.said PROVE Exists(e, p[1]) /\ e.name[p[1]] = p[2]
    BY <1>1 DEF NamesBut
  <2>1. p[1] \in User /\ Exists(d, p[1]) /\ d.name[p[1]] = p[2]
    BY DEF Typed, Sound, NamesBut
  <2> QED
    BY <1>3, <2>1 DEF Exists
<1>8. Backed(e)
  BY <1>1, <1>3, <1>4 DEF Sound, Backed, Exists, Typed, InviteRow
<1>9. Typed(e) /\ Sound(e) /\ e.state[u] = "active" /\ e.pw[u] = 0 /\ e.inv = d.inv
  BY <1>1, <1>2, <1>4, <1>5, <1>6, <1>7, <1>8 DEF Sound
<1> QED
  BY <1>9 DEF e

\* One session is there or gone.
LEMMA MovedSession ==
    ASSUME NEW d, Typed(d), Sound(d), NEW k \in Token, NEW s \in SessionRow,
           s = NoSession \/ Stands(d, s)
    PROVE  LET e == [d EXCEPT !.sess[k] = s] IN Typed(e) /\ Sound(e) /\ e.inv = d.inv
<1> DEFINE e == [d EXCEPT !.sess[k] = s]
<1>1. /\ Framed(e) /\ e.sess = [d.sess EXCEPT ![k] = s]
      /\ e.state = d.state /\ e.role = d.role /\ e.name = d.name /\ e.pw = d.pw
      /\ e.inv = d.inv /\ e.said = d.said
  BY DEF Typed, Framed, Fields
<1> HIDE DEF e
<1>2. Typed(e)
  BY <1>1 DEF Typed
<1>3. SessionsBut(e, {})
  BY <1>1 DEF Typed, Sound, SessionsBut, Stands
<1>4. Led(e) /\ NamesBut(e, {}) /\ Backed(e)
  BY <1>1 DEF Sound, Led, HasAnyUser, Leads, NamesBut, Backed, Exists
<1>5. Typed(e) /\ Sound(e) /\ e.inv = d.inv
  BY <1>1, <1>2, <1>3, <1>4 DEF Sound
<1> QED
  BY <1>5 DEF e

\* One invite is another row, by an account that exists or nobody.
LEMMA MovedInvite ==
    ASSUME NEW d, Typed(d), Sound(d), NEW i \in Invite, NEW row \in InviteRow,
           row.by # Nobody => Exists(d, row.by)
    PROVE  LET e == [d EXCEPT !.inv[i] = row] IN
           /\ Typed(e) /\ Sound(e) /\ e.state = d.state /\ e.pw = d.pw
           /\ d.inv[i].used = Nobody => Vouched(d, e)
<1> DEFINE e == [d EXCEPT !.inv[i] = row]
<1>1. /\ Framed(e) /\ e.inv = [d.inv EXCEPT ![i] = row]
      /\ e.state = d.state /\ e.role = d.role /\ e.name = d.name /\ e.pw = d.pw
      /\ e.sess = d.sess /\ e.said = d.said
  BY DEF Typed, Framed, Fields
<1> HIDE DEF e
<1>2. Typed(e)
  BY <1>1 DEF Typed
<1>3. Backed(e)
  BY <1>1 DEF Typed, Sound, Backed, Exists
<1>4. Led(e) /\ NamesBut(e, {}) /\ SessionsBut(e, {})
  BY <1>1 DEF Sound, Led, HasAnyUser, Leads, NamesBut, SessionsBut, Stands, Exists
<1>5. d.inv[i].used = Nobody => Vouched(d, e)
  BY <1>1 DEF Typed, Vouched
<1>6. /\ Typed(e) /\ Sound(e) /\ e.state = d.state /\ e.pw = d.pw
      /\ d.inv[i].used = Nobody => Vouched(d, e)
  BY <1>1, <1>2, <1>3, <1>4, <1>5 DEF Sound
<1> QED
  BY <1>6 DEF e

\* UPDATE users SET password: the sessions of u are behind.
LEMMA MovedPassword ==
    ASSUME NEW d, Typed(d), Sound(d), NEW u \in User, NEW n \in Nat
    PROVE  LET e == [d EXCEPT !.pw[u] = n] IN Typed(e) /\ Repassworded(e, u) /\ e.inv = d.inv
<1> DEFINE e == [d EXCEPT !.pw[u] = n]
<1>1. /\ Framed(e) /\ e.pw = [d.pw EXCEPT ![u] = n]
      /\ e.state = d.state /\ e.role = d.role /\ e.name = d.name /\ e.sess = d.sess
      /\ e.inv = d.inv /\ e.said = d.said
  BY DEF Typed, Framed, Fields
<1> HIDE DEF e
<1>2. Typed(e)
  BY <1>1 DEF Typed
<1>3. SessionsBut(e, {u}) /\ \A k \in Token : e.sess[k].user = u => e.state[u] = "active"
  <2> SUFFICES ASSUME NEW k \in Token, d.sess[k] # NoSession
               PROVE  /\ d.sess[k].user # u => Stands(e, d.sess[k])
                      /\ d.sess[k].user = u => d.state[u] = "active"
    BY <1>1, NobodyApart DEF SessionsBut, NoSession
  <2>1. d.sess[k].user \in User /\ Stands(d, d.sess[k])
    BY DEF Typed, SessionRow, Sound, SessionsBut
  <2> QED
    BY <1>1, <2>1 DEF Stands, Typed
<1>4. Led(e) /\ NamesBut(e, {}) /\ Backed(e)
  BY <1>1 DEF Sound, Led, HasAnyUser, Leads, NamesBut, Backed, Exists
<1>5. Typed(e) /\ Repassworded(e, u) /\ e.inv = d.inv
  BY <1>1, <1>2, <1>3, <1>4 DEF Repassworded
<1> QED
  BY <1>5 DEF e

\* A step that sets no password all the same.
LEMMA SoundIsRepassworded == \A d, u : Typed(d) /\ Sound(d) /\ u \in User => Repassworded(d, u)
BY NobodyApart DEF Sound, Repassworded, SessionsBut, Stands, Typed, NoSession

LEMMA SoundIsClosing == \A d, u : Sound(d) => Closing(d, u)
BY DEF Sound, Closing, SessionsBut

\* DELETE FROM sessions of u, and those kept proved the new password.
LEMMA PurgedSessions ==
    ASSUME NEW d, Typed(d), NEW u \in User, NEW kept,
           Repassworded(d, u) \/ (Closing(d, u) /\ kept = {})
    PROVE  LET e == Proved(WithoutSessions(d, u, kept), u, kept) IN
           Typed(e) /\ Sound(e) /\ e.inv = d.inv
<1> DEFINE w == WithoutSessions(d, u, kept)
           e == Proved(w, u, kept)
<1>1. /\ w = [d EXCEPT !.sess = w.sess]
      /\ w.sess = [k \in Token |-> IF d.sess[k].user = u /\ k \notin kept
                                   THEN NoSession ELSE d.sess[k]]
      /\ w.state = d.state /\ w.role = d.role /\ w.name = d.name /\ w.pw = d.pw
      /\ w.inv = d.inv /\ w.said = d.said /\ Framed(w)
  BY DEF WithoutSessions, Typed, Framed, Fields
<1>2. /\ Framed(e)
      /\ e.sess = [k \in Token |-> IF k \in kept /\ w.sess[k].user = u
                                   THEN [w.sess[k] EXCEPT !.pw = w.pw[u]] ELSE w.sess[k]]
      /\ e.state = w.state /\ e.role = w.role /\ e.name = w.name /\ e.pw = w.pw
      /\ e.inv = w.inv /\ e.said = w.said
  BY <1>1 DEF Proved, Framed, Fields
<1> HIDE DEF e, w
<1>3. ASSUME NEW k \in Token
      PROVE  e.sess[k] \in SessionRow /\ (e.sess[k] # NoSession => Stands(d, e.sess[k]))
  <2>1. d.sess[k] \in SessionRow /\ NoSession \in SessionRow /\ NoSession.user # u
    BY NobodyApart DEF Typed, SessionRow, NoSession
  <2>2. CASE d.sess[k].user = u /\ k \in kept
    <3>1. d.sess[k] \in [user : User, pw : Nat] /\ d.pw[u] \in Nat /\ d.state[u] = "active"
      BY <2>1, <2>2 DEF SessionRow, Repassworded, Typed
    <3>2. e.sess[k] = [d.sess[k] EXCEPT !.pw = d.pw[u]]
      BY <1>1, <1>2, <2>2
    <3>3. e.sess[k] \in [user : User, pw : Nat] /\ e.sess[k].user = u /\ e.sess[k].pw = d.pw[u]
      BY <2>2, <3>1, <3>2
    <3> QED
      BY <3>1, <3>3 DEF SessionRow, Stands
  <2>3. CASE d.sess[k].user = u /\ k \notin kept
    BY <1>1, <1>2, <2>1, <2>3
  <2>4. CASE d.sess[k].user # u
    <3>1. e.sess[k] = d.sess[k]
      BY <1>1, <1>2, <2>4
    <3> QED
      BY <2>1, <2>4, <3>1 DEF Repassworded, Closing, SessionsBut
  <2> QED
    BY <2>2, <2>3, <2>4
<1>4. Typed(e)
  BY <1>1, <1>2, <1>3 DEF Typed
<1>5. SessionsBut(e, {})
  <2>1. e.state = d.state /\ e.pw = d.pw
    BY <1>1, <1>2
  <2>2. \A s : Stands(e, s) <=> Stands(d, s)
    BY <2>1 DEF Stands
  <2> QED
    BY <1>3, <2>2 DEF SessionsBut
<1>6. Led(d) /\ NamesBut(d, {}) /\ Backed(d)
  BY DEF Repassworded, Closing
<1>7. Led(e) /\ NamesBut(e, {}) /\ Backed(e)
  BY <1>1, <1>2, <1>6 DEF Led, HasAnyUser, Leads, NamesBut, Backed, Exists
<1>8. Typed(e) /\ Sound(e) /\ e.inv = d.inv
  BY <1>1, <1>2, <1>4, <1>5, <1>7 DEF Sound
<1> QED
  BY <1>8 DEF e, w

LEMMA PurgedAll ==
    ASSUME NEW d, Typed(d), NEW u \in User, Closing(d, u)
    PROVE  LET e == WithoutSessions(d, u, {}) IN Typed(e) /\ Sound(e) /\ e.inv = d.inv
<1> DEFINE e == WithoutSessions(d, u, {})
<1>1. /\ Framed(e)
      /\ e.sess = [k \in Token |-> IF d.sess[k].user = u THEN NoSession ELSE d.sess[k]]
      /\ e.state = d.state /\ e.role = d.role /\ e.name = d.name /\ e.pw = d.pw
      /\ e.inv = d.inv /\ e.said = d.said
  BY DEF WithoutSessions, Typed, Framed, Fields
<1> HIDE DEF e
<1>2. Typed(e)
  BY <1>1 DEF Typed, SessionRow
<1>3. SessionsBut(e, {})
  BY <1>1 DEF Closing, SessionsBut, Stands
<1>4. Led(e) /\ NamesBut(e, {}) /\ Backed(e)
  BY <1>1 DEF Closing, Led, HasAnyUser, Leads, NamesBut, Backed, Exists
<1>5. Typed(e) /\ Sound(e) /\ e.inv = d.inv
  BY <1>1, <1>2, <1>3, <1>4 DEF Sound
<1> QED
  BY <1>5 DEF e

LEMMA MovedState ==
    ASSUME NEW d, Typed(d), Sound(d), NEW u \in User, Exists(d, u),
           NEW s \in {"active", "disabled"}, s = "disabled" => Other(d, u)
    PROVE  LET e == [d EXCEPT !.state[u] = s] IN
           Typed(e) /\ Closing(e, u) /\ (s = "active" => Sound(e)) /\ e.inv = d.inv
<1> DEFINE e == [d EXCEPT !.state[u] = s]
<1>1. /\ Framed(e) /\ e.state = [d.state EXCEPT ![u] = s]
      /\ e.role = d.role /\ e.name = d.name /\ e.pw = d.pw /\ e.sess = d.sess
      /\ e.inv = d.inv /\ e.said = d.said
  BY DEF Typed, Framed, Fields
<1> HIDE DEF e
<1>2. Typed(e)
  BY <1>1 DEF Typed
<1>3. e.state[u] = s /\ \A v \in User \ {u} : e.state[v] = d.state[v]
  BY <1>1 DEF Typed
<1>4. Led(e)
  <2>1. CASE s = "active"
    <3>1. \A v \in User : Leads(d, v) => Leads(e, v)
      BY <1>1, <1>3, <2>1 DEF Leads
    <3> QED
      BY <3>1, MoreLed DEF Sound, HasAnyUser
  <2>2. CASE s = "disabled"
    BY <1>1, <1>3, <2>2 DEF Led, Leads, Other
  <2> QED
    BY <2>1, <2>2
<1>5. ASSUME NEW k \in Token, d.sess[k] # NoSession, d.sess[k].user # u \/ s = "active"
      PROVE  Stands(e, d.sess[k])
  <2>1. d.sess[k].user \in User /\ Stands(d, d.sess[k])
    BY <1>5 DEF Typed, SessionRow, Sound, SessionsBut
  <2> QED
    BY <1>1, <1>3, <1>5, <2>1 DEF Stands
<1>6. \A v \in User : Exists(d, v) => Exists(e, v)
  BY <1>3 DEF Exists
<1>7. NamesBut(e, {}) /\ Backed(e)
  BY <1>1, <1>6 DEF Sound, NamesBut, Backed, Typed, InviteRow
<1>8. Typed(e) /\ Closing(e, u) /\ (s = "active" => Sound(e)) /\ e.inv = d.inv
  BY <1>1, <1>2, <1>4, <1>5, <1>7 DEF Sound, Closing, SessionsBut
<1> QED
  BY <1>8 DEF e

LEMMA MovedRole ==
    ASSUME NEW d, Typed(d), Sound(d), NEW u \in User, NEW r \in Roles, r # "admin" => Other(d, u)
    PROVE  LET e == [d EXCEPT !.role[u] = r] IN Typed(e) /\ Sound(e) /\ e.inv = d.inv
<1> DEFINE e == [d EXCEPT !.role[u] = r]
<1>1. /\ Framed(e) /\ e.role = [d.role EXCEPT ![u] = r]
      /\ e.state = d.state /\ e.name = d.name /\ e.pw = d.pw /\ e.sess = d.sess
      /\ e.inv = d.inv /\ e.said = d.said
  BY DEF Typed, Framed, Fields
<1> HIDE DEF e
<1>2. Typed(e)
  BY <1>1 DEF Typed
<1>3. e.role[u] = r /\ \A v \in User \ {u} : e.role[v] = d.role[v]
  BY <1>1 DEF Typed
<1>4. Led(e)
  <2>1. CASE r = "admin"
    <3>1. \A v \in User : Leads(d, v) => Leads(e, v)
      BY <1>1, <1>3, <2>1 DEF Leads
    <3> QED
      BY <1>1, <3>1, MoreLed DEF Sound, Led, HasAnyUser, Exists
  <2>2. CASE r # "admin"
    BY <1>1, <1>3, <2>2 DEF Led, Leads, Other
  <2> QED
    BY <2>1, <2>2
<1>5. SessionsBut(e, {}) /\ NamesBut(e, {}) /\ Backed(e)
  BY <1>1 DEF Sound, SessionsBut, Stands, NamesBut, Backed, Exists
<1>6. Typed(e) /\ Sound(e) /\ e.inv = d.inv
  BY <1>1, <1>2, <1>4, <1>5 DEF Sound
<1> QED
  BY <1>6 DEF e

LEMMA MovedName ==
    ASSUME NEW d, Typed(d), Sound(d), NEW u \in User, NEW n \in Name
    PROVE  LET e == [d EXCEPT !.name[u] = n] IN
           Typed(e) /\ Renaming(e, u, n) /\ e.state = d.state /\ e.inv = d.inv
<1> DEFINE e == [d EXCEPT !.name[u] = n]
<1>1. /\ Framed(e) /\ e.name = [d.name EXCEPT ![u] = n]
      /\ e.state = d.state /\ e.role = d.role /\ e.pw = d.pw /\ e.sess = d.sess
      /\ e.inv = d.inv /\ e.said = d.said
  BY DEF Typed, Framed, Fields
<1> HIDE DEF e
<1>2. Typed(e)
  BY <1>1 DEF Typed
<1>3. e.name[u] = n /\ \A v \in User \ {u} : e.name[v] = d.name[v]
  BY <1>1 DEF Typed
<1>4. NamesBut(e, {u})
  <2> SUFFICES ASSUME NEW p \in d.said
               PROVE  Exists(e, p[1]) /\ (p[1] # u => e.name[p[1]] = p[2])
    BY <1>1 DEF NamesBut
  <2>1. p[1] \in User /\ Exists(d, p[1]) /\ d.name[p[1]] = p[2]
    BY DEF Typed, Sound, NamesBut
  <2> QED
    BY <1>1, <1>3, <2>1 DEF Exists
<1>5. Led(e) /\ SessionsBut(e, {}) /\ Backed(e)
  BY <1>1 DEF Sound, Led, HasAnyUser, Leads, SessionsBut, Stands, Backed, Exists
<1>6. Typed(e) /\ Renaming(e, u, n) /\ e.state = d.state /\ e.inv = d.inv
  BY <1>1, <1>2, <1>3, <1>4, <1>5 DEF Renaming
<1> QED
  BY <1>6 DEF e

\* The names kept are another set of pairs that follow.
LEMMA MovedSaid ==
    ASSUME NEW d, Typed(d), Led(d), SessionsBut(d, {}), Backed(d),
           NEW said \in SUBSET (User \X (Name \union {Nobody})),
           \A p \in said : Exists(d, p[1]) /\ d.name[p[1]] = p[2]
    PROVE  LET e == [d EXCEPT !.said = said] IN Typed(e) /\ Sound(e) /\ e.inv = d.inv
<1> DEFINE e == [d EXCEPT !.said = said]
<1>1. /\ Framed(e) /\ e.said = said
      /\ e.state = d.state /\ e.role = d.role /\ e.name = d.name /\ e.pw = d.pw
      /\ e.sess = d.sess /\ e.inv = d.inv
  BY DEF Typed, Framed, Fields
<1> HIDE DEF e
<1>2. Typed(e)
  BY <1>1 DEF Typed
<1>3. Sound(e)
  BY <1>1 DEF Sound, Led, HasAnyUser, Leads, SessionsBut, Stands, NamesBut, Backed, Exists
<1>4. Typed(e) /\ Sound(e) /\ e.inv = d.inv
  BY <1>1, <1>2, <1>3
<1> QED
  BY <1>4 DEF e

\* DELETE FROM users.
LEMMA RemovedUser ==
    ASSUME NEW d, Typed(d), Sound(d), NEW u \in User, Other(d, u)
    PROVE  LET e == WithoutUser(d, u) IN Typed(e) /\ Sound(e) /\ Vouched(d, e)
<1> DEFINE w == WithoutSessions(d, u, {})
           e == WithoutUser(d, u)
<1>0. /\ w = [d EXCEPT !.sess = w.sess]
      /\ w.sess = [k \in Token |-> IF d.sess[k].user = u THEN NoSession ELSE d.sess[k]]
      /\ w.state = d.state /\ w.role = d.role /\ w.name = d.name /\ w.pw = d.pw
      /\ w.inv = d.inv /\ w.said = d.said /\ Framed(w)
  BY DEF WithoutSessions, Typed, Framed, Fields
<1> HIDE DEF w, e
<1> DEFINE invites == [i \in Invite |->
                          IF w.inv[i].by = u THEN NoInvite
                          ELSE IF w.inv[i].used = u THEN [w.inv[i] EXCEPT !.used = Nobody]
                          ELSE w.inv[i]]
           names == {p \in w.said : p[1] # u}
<1>w. e = [w EXCEPT !.state[u] = "none", !.role[u] = "user", !.name[u] = Nobody, !.pw[u] = 0,
                    !.inv = invites, !.said = names]
  BY DEF WithoutUser, w, e, invites, names
<1> HIDE DEF invites, names
<1>f. /\ Framed(e)
      /\ e.state = [w.state EXCEPT ![u] = "none"] /\ e.role = [w.role EXCEPT ![u] = "user"]
      /\ e.name = [w.name EXCEPT ![u] = Nobody] /\ e.pw = [w.pw EXCEPT ![u] = 0]
      /\ e.sess = w.sess /\ e.inv = invites /\ e.said = names
  BY <1>0, <1>w DEF Framed, Fields
<1>1. /\ Framed(e)
      /\ e.state = [d.state EXCEPT ![u] = "none"] /\ e.role = [d.role EXCEPT ![u] = "user"]
      /\ e.name = [d.name EXCEPT ![u] = Nobody] /\ e.pw = [d.pw EXCEPT ![u] = 0]
      /\ e.sess = [k \in Token |-> IF d.sess[k].user = u THEN NoSession ELSE d.sess[k]]
      /\ e.inv = [i \in Invite |-> IF d.inv[i].by = u THEN NoInvite
                     ELSE IF d.inv[i].used = u THEN [d.inv[i] EXCEPT !.used = Nobody]
                     ELSE d.inv[i]]
      /\ e.said = {p \in d.said : p[1] # u}
  BY <1>0, <1>f DEF invites, names
<1>2. ASSUME NEW i \in Invite
      PROVE  /\ e.inv[i] \in InviteRow /\ e.inv[i].by # u
             /\ d.inv[i].by # u => e.inv[i].by = d.inv[i].by
             /\ d.inv[i].by # u /\ d.inv[i].used # u => e.inv[i] = d.inv[i]
             /\ e.inv[i].by = d.inv[i].by \/ e.inv[i].by = Nobody
  <2>1. d.inv[i] \in InviteRow /\ NoInvite \in InviteRow /\ NoInvite.by = Nobody /\ Nobody # u
    BY NobodyApart DEF Typed, InviteRow, NoInvite
  <2> QED
    BY <1>1, <2>1 DEF InviteRow
<1>3. Typed(e)
  BY <1>1, <1>2 DEF Typed, SessionRow, Roles
<1>4. \A v \in User \ {u} : /\ e.state[v] = d.state[v] /\ e.role[v] = d.role[v]
                            /\ e.name[v] = d.name[v] /\ e.pw[v] = d.pw[v]
  BY <1>1 DEF Typed
<1>5. Led(e)
  BY <1>4 DEF Led, Leads, Other
<1>6. SessionsBut(e, {})
  <2> SUFFICES ASSUME NEW k \in Token, e.sess[k] # NoSession PROVE Stands(e, e.sess[k])
    BY DEF SessionsBut
  <2>1. e.sess[k] = d.sess[k] /\ d.sess[k].user # u
    BY <1>1
  <2>2. d.sess[k].user \in User /\ Stands(d, d.sess[k])
    BY <2>1 DEF Typed, SessionRow, Sound, SessionsBut
  <2> QED
    BY <1>4, <2>1, <2>2 DEF Stands
<1>7. NamesBut(e, {})
  <2> SUFFICES ASSUME NEW p \in d.said, p[1] # u PROVE Exists(e, p[1]) /\ e.name[p[1]] = p[2]
    BY <1>1 DEF NamesBut
  <2>1. p[1] \in User /\ Exists(d, p[1]) /\ d.name[p[1]] = p[2]
    BY DEF Typed, Sound, NamesBut
  <2> QED
    BY <1>4, <2>1 DEF Exists
<1>8. Backed(e)
  <2> SUFFICES ASSUME NEW i \in Invite, e.inv[i].by # Nobody PROVE Exists(e, e.inv[i].by)
    BY DEF Backed
  <2>1. e.inv[i].by = d.inv[i].by /\ e.inv[i].by # u /\ e.inv[i].by \in User
    BY <1>2 DEF InviteRow
  <2> QED
    BY <1>4, <2>1 DEF Sound, Backed, Exists
<1>9. Vouched(d, e)
  <2>1. ~Exists(e, u)
    BY <1>1 DEF Typed, Exists
  <2> QED
    BY <1>2, <2>1 DEF Vouched
<1>10. Typed(e) /\ Sound(e) /\ Vouched(d, e)
  BY <1>3, <1>5, <1>6, <1>7, <1>8, <1>9 DEF Sound
<1> QED
  BY <1>10 DEF e

-----------------------------------------------------------------------------
(* The requests *)

LEMMA LoadInv ==
    ASSUME Inv, NEW t \in Workers, Alone(t), NEW l, NEW a, Load(t, l, a),
           l \notin Within, Knows(l, a, db)
    PROVE  Keeps
<1>1. pc[t] = "idle" /\ Query /\ Enter(t, l, a)
  BY DEF Load, Idle, At
<1>2. pc[t] \notin Within /\ l \notin Keeping
  BY <1>1, KnowsNothing
<1> QED
  BY <1>1, <1>2, QuietInv

LEMMA RefusedInv ==
    ASSUME Inv, NEW t \in Workers, Alone(t), pc[t] \notin Within, Query, Return(t)
    PROVE  Keeps
BY KnowsNothing, QuietInv DEF Return

LEMMA ComingInInv ==
    ASSUME Inv, NEW t \in Workers, Alone(t), pc[t] = "idle",
           \/ \E n \in Name : Bootstrap(t, n) \/ \E i \in Invite : Register(t, i, n)
           \/ \E u \in User : Login(t, u)
           \/ \E k \in Token : Logout(t, k) \/ SessionExpires(t, k)
    PROVE  Keeps
<1>0. db = durable /\ Typed(db) /\ Sound(db)
  BY AloneIs, KnowsNothing
<1>1. ASSUME NEW n \in Name, Bootstrap(t, n) PROVE Keeps
  <2>1. "boot_insert" \notin Within /\ Knows("boot_insert", [n |-> n], db)
    BY DEF Knows, Within, Whole, Naming, Abling, HoldsUser
  <2> QED
    BY <1>1, <2>1, LoadInv DEF Bootstrap
<1>2. ASSUME NEW n \in Name, NEW i \in Invite, Register(t, i, n) PROVE Keeps
  <2>1. "reg_insert" \notin Within /\ Knows("reg_insert", [i |-> i, n |-> n], db)
    BY <1>2 DEF Register, Open, Knows, Within, Whole, Naming, Abling, HoldsUser
  <2> QED
    BY <1>2, <2>1, LoadInv DEF Register
<1>3. ASSUME NEW u \in User, Login(t, u) PROVE Keeps
  <2>1. "session" \notin Within /\ Knows("session", [u |-> u, pw |-> db.pw[u]], db)
    BY <1>3 DEF Login, Knows, Within, Whole, Naming, Abling, HoldsUser
  <2> QED
    BY <1>3, <2>1, LoadInv DEF Login
<1>4. ASSUME NEW k \in Token, Logout(t, k) \/ SessionExpires(t, k) PROVE Keeps
  <2> DEFINE d == [db EXCEPT !.sess[k] = NoSession]
  <2>1. Request(t, d, TRUE)
    BY <1>4 DEF Logout, SessionExpires
  <2>2. NoSession \in SessionRow
    BY DEF SessionRow
  <2>3. Typed(d) /\ Sound(d) /\ d.inv = db.inv
    BY <1>0, <2>2, MovedSession
  <2> HIDE DEF d
  <2> QED
    BY <2>1, <2>3, SameVouched, RequestInv
<1> QED
  BY <1>1, <1>2, <1>3, <1>4

LEMMA OwnRequestsInv ==
    ASSUME Inv, NEW t \in Workers, Alone(t), pc[t] = "idle", NEW k \in Token, NEW u \in User,
           \/ ChangePassword(t, k, u) \/ Speak(t, k, u)
           \/ \E i \in Invite : CreateInvite(t, k, u, i) \/ RevokeInvite(t, k, u, i)
    PROVE  Keeps
<1>0. db = durable /\ Typed(db) /\ Sound(db)
  BY AloneIs, KnowsNothing
<1>1. CASE ChangePassword(t, k, u)
  <2>1. "pw_begin" \notin Within /\ Knows("pw_begin", [u |-> u, kept |-> {k}], db)
    BY DEF Knows, Within, Whole, Naming, Abling, HoldsUser
  <2> QED
    BY <1>1, <2>1, LoadInv DEF ChangePassword
<1>2. CASE Speak(t, k, u)
  <2>1. "say" \notin Within /\ Knows("say", [u |-> u, n |-> db.name[u]], db)
    BY DEF Knows, Within, Whole, Naming, Abling, HoldsUser
  <2> QED
    BY <1>2, <2>1, LoadInv DEF Speak
<1>3. ASSUME NEW i \in Invite, CreateInvite(t, k, u, i) PROVE Keeps
  <2> DEFINE row == [by |-> u, used |-> Nobody]
             d   == [db EXCEPT !.inv[i] = row]
  <2>1. db.state[u] = "active" /\ db.inv[i] = NoInvite
    BY <1>3 DEF CreateInvite, Holds, SignedIn
  <2>2. row \in InviteRow /\ Exists(db, u) /\ db.inv[i].used = Nobody
    BY <2>1 DEF InviteRow, Exists, NoInvite
  <2>3. Typed(d) /\ Sound(d) /\ Vouched(db, d)
    BY <1>0, <2>2, MovedInvite
  <2>4. [db EXCEPT !.inv[i].by = u] = d
    BY <2>1 DEF NoInvite
  <2>5. Request(t, [db EXCEPT !.inv[i].by = u], TRUE)
    BY <1>3 DEF CreateInvite
  <2> HIDE DEF d
  <2> QED
    BY <2>3, <2>4, <2>5, RequestInv
<1>4. ASSUME NEW i \in Invite, RevokeInvite(t, k, u, i) PROVE Keeps
  <2> DEFINE d == [db EXCEPT !.inv[i] = NoInvite]
  <2>1. Request(t, d, TRUE) /\ db.inv[i].used = Nobody
    BY <1>4 DEF RevokeInvite, Open
  <2>2. NoInvite \in InviteRow /\ NoInvite.by = Nobody
    BY DEF InviteRow, NoInvite
  <2>3. Typed(d) /\ Sound(d) /\ Vouched(db, d)
    BY <1>0, <2>1, <2>2, MovedInvite
  <2> HIDE DEF d
  <2> QED
    BY <2>1, <2>3, RequestInv
<1> QED
  BY <1>1, <1>2, <1>3, <1>4

LEMMA AdminRequestsInv ==
    ASSUME Inv, NEW t \in Workers, Alone(t), NEW k \in Token, NEW admin \in User, NEW u \in User,
           \/ ResetPassword(t, k, admin, u)
           \/ Disable(t, k, admin, u) \/ Enable(t, k, admin, u)
           \/ DeleteUser(t, k, admin, u)
           \/ \E r \in Roles : SetRole(t, k, admin, u, r)
           \/ \E n \in Name : Rename(t, k, admin, u, n)
    PROVE  Keeps
<1>0. AnotherAdminRemains(u) => Other(db, u)
  BY DEF AnotherAdminRemains, Other, Leads
<1>1. CASE ResetPassword(t, k, admin, u)
  <2>1. "pw_begin" \notin Within /\ Knows("pw_begin", [u |-> u, kept |-> {}], db)
    BY DEF Knows, Within, Whole, Naming, Abling, HoldsUser
  <2> QED
    BY <1>1, <2>1, LoadInv DEF ResetPassword
<1>2. CASE Disable(t, k, admin, u)
  <2>1. "able_begin" \notin Within /\ Knows("able_begin", [u |-> u, s |-> "disabled"], db)
    BY <1>0, <1>2 DEF Disable, Knows, Within, Whole, Naming, Abling, HoldsUser
  <2> QED
    BY <1>2, <2>1, LoadInv DEF Disable
<1>3. CASE Enable(t, k, admin, u)
  <2>1. "able_begin" \notin Within /\ Knows("able_begin", [u |-> u, s |-> "active"], db)
    BY DEF Knows, Within, Whole, Naming, Abling, HoldsUser
  <2> QED
    BY <1>3, <2>1, LoadInv DEF Enable
<1>4. CASE DeleteUser(t, k, admin, u)
  <2>1. "del_begin" \notin Within /\ Knows("del_begin", [u |-> u], db)
    BY <1>0, <1>4 DEF DeleteUser, Knows, Within, Whole, Naming, Abling, HoldsUser
  <2> QED
    BY <1>4, <2>1, LoadInv DEF DeleteUser
<1>5. ASSUME NEW r \in Roles, SetRole(t, k, admin, u, r) PROVE Keeps
  <2>1. "role_update" \notin Within /\ Knows("role_update", [u |-> u, r |-> r], db)
    BY <1>0, <1>5 DEF SetRole, Knows, Within, Whole, Naming, Abling, HoldsUser
  <2> QED
    BY <1>5, <2>1, LoadInv DEF SetRole
<1>6. ASSUME NEW n \in Name, Rename(t, k, admin, u, n) PROVE Keeps
  <2>1. "name_begin" \notin Within /\ Knows("name_begin", [u |-> u, n |-> n], db)
    BY <1>6 DEF Rename, Knows, Within, Whole, Naming, Abling, HoldsUser
  <2> QED
    BY <1>6, <2>1, LoadInv DEF Rename
<1> QED
  BY <1>1, <1>2, <1>3, <1>4, <1>5, <1>6

LEMMA RequestsInv ==
    ASSUME Inv, NEW t \in Workers, Alone(t), Requests(t)
    PROVE  Keeps
<1> DEFINE ComingIn == \/ \E n \in Name : Bootstrap(t, n) \/ \E i \in Invite : Register(t, i, n)
                       \/ \E u \in User : Login(t, u)
                       \/ \E k \in Token : Logout(t, k) \/ SessionExpires(t, k)
           Own(k, u) == \/ ChangePassword(t, k, u) \/ Speak(t, k, u)
                        \/ \E i \in Invite : CreateInvite(t, k, u, i) \/ RevokeInvite(t, k, u, i)
           Admins(k, admin, u) == \/ ResetPassword(t, k, admin, u)
                                  \/ Disable(t, k, admin, u) \/ Enable(t, k, admin, u)
                                  \/ DeleteUser(t, k, admin, u)
                                  \/ \E r \in Roles : SetRole(t, k, admin, u, r)
                                  \/ \E n \in Name : Rename(t, k, admin, u, n)
<1>1. CASE ComingIn
  <2>1. pc[t] = "idle"
    BY <1>1 DEF Bootstrap, Register, Login, Logout, SessionExpires, Load, Request, Idle, At
  <2> QED
    BY <1>1, <2>1, ComingInInv
<1>2. ASSUME NEW k \in Token, NEW u \in User, Own(k, u) PROVE Keeps
  <2>1. pc[t] = "idle"
    BY <1>2 DEF ChangePassword, Speak, CreateInvite, RevokeInvite, Load, Request, Idle, At
  <2> QED
    BY <1>2, <2>1, OwnRequestsInv
<1>3. ASSUME NEW k \in Token, NEW admin \in User, NEW u \in User, Admins(k, admin, u) PROVE Keeps
  <2>1. pc[t] = "idle"
    BY <1>3 DEF ResetPassword, Disable, Enable, DeleteUser, SetRole, Rename, Load, Idle, At
  <2> QED
    BY <1>3, <2>1, AdminRequestsInv
<1>4. \/ ComingIn \/ (\E k \in Token, u \in User : Own(k, u))
      \/ \E k \in Token, admin, u \in User : Admins(k, admin, u)
  BY Zenon DEF Requests
<1> HIDE DEF ComingIn, Own, Admins
<1> QED
  BY <1>1, <1>2, <1>3, <1>4

-----------------------------------------------------------------------------
(* The steps *)

LEMMA StaysVouched ==
    ASSUME NEW c, NEW d, NEW e, c.inv = d.inv, Vouched(d, e)
    PROVE  Vouched(c, e)
BY DEF Vouched

LEMMA ComingInSteps ==
    ASSUME Inv, NEW t \in Workers, Alone(t),
           BootstrapInsert(t) \/ RegisterInsert(t) \/ RegisterConsume(t) \/ StartSession(t)
    PROVE  Keeps
<1> DEFINE a == arg[t]
<1>0. Knows(pc[t], a, db)
  BY AloneIs
<1>1. pc[t] \in {"boot_insert", "reg_insert", "reg_consume", "session"}
  BY DEF BootstrapInsert, RegisterInsert, RegisterConsume, StartSession, At
<1>2. pc[t] \notin Within /\ "session" \notin Within /\ "reg_consume" \notin Within
      /\ "idle" \notin Within
  BY <1>1 DEF Within
<1>3. Typed(db) /\ Sound(db)
  BY <1>2, AloneIs
<1>4. CASE BootstrapInsert(t)
  <2>1. pc[t] = "boot_insert" /\ a.n \in Name
    BY <1>0, <1>4 DEF BootstrapInsert, At, Knows
  <2>2. ASSUME NEW u \in User, ~Exists(db, u), Execute(WithUser(db, u, a.n, "admin"), TRUE),
               Enter(t, "session", [u |-> u, pw |-> 0])
        PROVE  Keeps
    <3> DEFINE d == WithUser(db, u, a.n, "admin")
    <3>1. Typed(d) /\ Sound(d) /\ d.state[u] = "active" /\ d.pw[u] = 0 /\ d.inv = db.inv
      BY <1>3, <2>1, <2>2, AddedUser DEF Roles
    <3>2. Execute(d, TRUE)
      BY <2>2
    <3> HIDE DEF d
    <3>3. Knows("session", [u |-> u, pw |-> 0], d)
      BY <3>1 DEF Knows, Whole, Naming, Abling, HoldsUser
    <3> QED
      BY <1>2, <2>2, <3>1, <3>2, <3>3, SameVouched, OutsideInv
  <2> QED
    BY <1>2, <1>4, <2>2, RefusedInv DEF BootstrapInsert
<1>5. CASE RegisterInsert(t)
  <2>1. /\ pc[t] = "reg_insert" /\ a.n \in Name /\ a.i \in Invite
        /\ db.inv[a.i].used = Nobody /\ db.inv[a.i].by # Nobody
    BY <1>0, <1>5 DEF RegisterInsert, At, Knows, Naming
  <2>2. HasAnyUser(db)
    BY <1>3, <2>1 DEF HasAnyUser, Sound, Backed, Typed, InviteRow
  <2>3. ASSUME NEW u \in User, ~Exists(db, u), Execute(WithUser(db, u, a.n, "user"), TRUE),
               Enter(t, "reg_consume", [i |-> a.i, u |-> u, pw |-> 0])
        PROVE  Keeps
    <3> DEFINE d == WithUser(db, u, a.n, "user")
    <3>1. Typed(d) /\ Sound(d) /\ d.state[u] = "active" /\ d.pw[u] = 0 /\ d.inv = db.inv
      BY <1>3, <2>1, <2>2, <2>3, AddedUser DEF Roles
    <3>2. Execute(d, TRUE)
      BY <2>3
    <3> HIDE DEF d
    <3>3. Knows("reg_consume", [i |-> a.i, u |-> u, pw |-> 0], d)
      BY <2>1, <3>1 DEF Knows, Whole, Naming, Abling, HoldsUser
    <3> QED
      BY <1>2, <2>3, <3>1, <3>2, <3>3, SameVouched, OutsideInv
  <2> QED
    BY <1>2, <1>5, <2>3, RefusedInv DEF RegisterInsert
<1>6. CASE RegisterConsume(t)
  <2>1. /\ pc[t] = "reg_consume" /\ a.u \in User /\ a.i \in Invite /\ db.inv[a.i].used = Nobody
        /\ db.state[a.u] = "active" /\ a.pw = db.pw[a.u]
    BY <1>0, <1>6 DEF RegisterConsume, At, Knows, HoldsUser
  <2> DEFINE row == db.inv[a.i].by # Nobody
             d   == IF row THEN [db EXCEPT !.inv[a.i].used = a.u] ELSE db
  <2>2. Execute(d, row) /\ Enter(t, "session", a)
    BY <1>6, <2>1, GotoIsEnter DEF RegisterConsume, Exists
  <2>3. Typed(d) /\ Sound(d) /\ d.state = db.state /\ d.pw = db.pw /\ Vouched(db, d)
    <3>1. CASE ~row
      BY <1>3, <3>1, SameVouched
    <3>2. CASE row
      <4> DEFINE r == [by |-> db.inv[a.i].by, used |-> a.u]
      <4>1. db.inv[a.i] \in InviteRow
        BY <1>3, <2>1 DEF Typed
      <4>2. r \in InviteRow /\ Exists(db, r.by)
        BY <1>3, <2>1, <3>2, <4>1 DEF InviteRow, Sound, Backed
      <4>3. [db.inv[a.i] EXCEPT !.used = a.u] = r
        BY <4>1 DEF InviteRow
      <4>4. d = [db EXCEPT !.inv[a.i] = r]
        BY <3>2, <4>3
      <4> HIDE DEF r
      <4> QED
        BY <1>3, <2>1, <4>2, <4>4, MovedInvite
    <3> QED
      BY <3>1, <3>2
  <2> HIDE DEF d
  <2>4. Knows("session", a, d)
    BY <2>1, <2>3 DEF Knows, Whole, Naming, Abling, HoldsUser
  <2> QED
    BY <1>2, <2>2, <2>3, <2>4, OutsideInv
<1>7. CASE StartSession(t)
  <2>1. pc[t] = "session" /\ a.u \in User /\ db.state[a.u] = "active" /\ a.pw = db.pw[a.u]
    BY <1>0, <1>7 DEF StartSession, At, Knows, HoldsUser
  <2> DEFINE s == [user |-> a.u, pw |-> a.pw]
  <2>2. s \in SessionRow /\ Stands(db, s)
    BY <1>3, <2>1 DEF SessionRow, Stands, Typed
  <2>3. ASSUME NEW k \in Token, Execute([db EXCEPT !.sess[k] = s], TRUE), Return(t)
        PROVE  Keeps
    <3> DEFINE d == [db EXCEPT !.sess[k] = s]
    <3> HIDE DEF s
    <3>1. Typed(d) /\ Sound(d) /\ d.inv = db.inv
      BY <1>3, <2>2, MovedSession
    <3>2. Execute(d, TRUE) /\ Enter(t, "idle", NoArg)
      BY <2>3 DEF Return
    <3> HIDE DEF d
    <3> QED
      BY <1>2, <3>1, <3>2, SameVouched, KnowsNothing, OutsideInv
  <2> QED
    BY <1>2, <1>7, <2>3, RefusedInv DEF StartSession
<1> QED
  BY <1>4, <1>5, <1>6, <1>7

LEMMA PasswordSteps ==
    ASSUME Inv, NEW t \in Workers, Alone(t),
           \/ PasswordBegin(t) \/ PasswordUpdate(t) \/ PasswordChanges(t) \/ PasswordPurge(t)
           \/ PasswordCommit(t)
    PROVE  Keeps
<1> DEFINE a == arg[t]
<1>0. Knows(pc[t], a, db) /\ Typed(db) /\ (pc[t] \in Keeping => db.inv = durable.inv)
  BY AloneIs
<1>1. CASE PasswordBegin(t)
  <2>1. pc[t] = "pw_begin" /\ "pw_begin" \notin Within /\ "pw_update" \in Within
    BY <1>1 DEF PasswordBegin, BeginAt, At, Within
  <2>2. Sound(db)
    BY <2>1, AloneIs
  <2>3. Knows("pw_update", a, db)
    BY <1>0, <2>1, <2>2 DEF Knows, Whole, Naming, Abling, HoldsUser
  <2> QED
    BY <1>1, <2>1, <2>3, BeginInv DEF PasswordBegin
<1>2. CASE PasswordUpdate(t)
  <2> DEFINE u == a.u
             d == IF Exists(db, u) /\ db.pw[u] < MaxPassword
                  THEN [db EXCEPT !.pw[u] = @ + 1] ELSE db
  <2>1. /\ pc[t] = "pw_update" /\ "pw_update" \in Within /\ "pw_changes" \in Within
        /\ "pw_update" \in Keeping
    BY <1>2 DEF PasswordUpdate, Statement, At, Within, Keeping
  <2>2. Sound(db) /\ a.u \in User
    BY <1>0, <2>1 DEF Knows, Whole, HoldsUser
  <2>3. Typed(d) /\ Repassworded(d, u) /\ d.inv = db.inv
    <3>1. db.pw[u] + 1 \in Nat
      BY <1>0, <2>2 DEF Typed
    <3> QED
      BY <1>0, <2>2, <3>1, MovedPassword, SoundIsRepassworded
  <2>4. Statement(t, "pw_update", "pw_changes", d, Exists(db, u))
    BY <1>2 DEF PasswordUpdate
  <2> HIDE DEF d
  <2>5. Knows("pw_changes", a, d)
    BY <2>2, <2>3 DEF Knows, Whole, Naming, Abling, HoldsUser
  <2> QED
    BY <1>0, <2>1, <2>3, <2>4, <2>5, SameVouched, InsideInv
<1>3. CASE PasswordChanges(t)
  <2>1. /\ pc[t] = "pw_changes" /\ "pw_changes" \in Within /\ "pw_purge" \in Within
        /\ "pw_changes" \in Keeping
    BY <1>3 DEF PasswordChanges, At, Within, Keeping
  <2>2. Knows("pw_purge", a, db)
    BY <1>0, <2>1 DEF Knows, Whole, Naming, Abling, HoldsUser
  <2> QED
    BY <1>3, <2>1, <2>2, GotoIsEnter, QuietInv, EndInv DEF PasswordChanges
<1>4. CASE PasswordPurge(t)
  <2> DEFINE d == Proved(WithoutSessions(db, a.u, a.kept), a.u, a.kept)
  <2>1. /\ pc[t] = "pw_purge" /\ "pw_purge" \in Within /\ "pw_commit" \in Within
        /\ "pw_purge" \in Keeping
    BY <1>4 DEF PasswordPurge, Statement, At, Within, Keeping
  <2>2. Repassworded(db, a.u) /\ a.u \in User
    BY <1>0, <2>1 DEF Knows, HoldsUser
  <2>3. Typed(d) /\ Sound(d) /\ d.inv = db.inv
    BY <1>0, <2>2, PurgedSessions
  <2>4. PICK touched : Statement(t, "pw_purge", "pw_commit", d, touched)
    BY <1>4 DEF PasswordPurge
  <2> HIDE DEF d
  <2>5. Knows("pw_commit", a, d)
    BY <2>3 DEF Knows, Whole, Naming, Abling, HoldsUser
  <2> QED
    BY <1>0, <2>1, <2>3, <2>4, <2>5, SameVouched, InsideInv
<1>5. CASE PasswordCommit(t)
  <2>1. pc[t] = "pw_commit" /\ "pw_commit" \in Within
    BY <1>5 DEF PasswordCommit, CommitAt, At, Within
  <2>2. Sound(db)
    BY <1>0, <2>1 DEF Knows, Whole
  <2> QED
    BY <1>5, <2>1, <2>2, EndInv DEF PasswordCommit
<1> QED
  BY <1>1, <1>2, <1>3, <1>4, <1>5

LEMMA RoleStep ==
    ASSUME Inv, NEW t \in Workers, Alone(t), RoleUpdate(t)
    PROVE  Keeps
<1> DEFINE a == arg[t]
           d == IF Exists(db, a.u) THEN [db EXCEPT !.role[a.u] = a.r] ELSE db
<1>1. pc[t] = "role_update" /\ "role_update" \notin Within /\ "idle" \notin Within
  BY DEF RoleUpdate, Finish, At, Within
<1>2. Typed(db) /\ Sound(db) /\ Knows("role_update", a, db)
  BY <1>1, AloneIs
<1>3. Typed(d) /\ Sound(d) /\ d.inv = db.inv
  BY <1>2, MovedRole DEF Knows, HoldsUser
<1>4. Execute(d, Exists(db, a.u)) /\ Enter(t, "idle", NoArg)
  BY DEF RoleUpdate, Finish, Return
<1> HIDE DEF d
<1> QED
  BY <1>1, <1>3, <1>4, SameVouched, KnowsNothing, OutsideInv

LEMMA AbleSteps ==
    ASSUME Inv, NEW t \in Workers, Alone(t),
           AbleBegin(t) \/ AbleUpdate(t) \/ AbleChanges(t) \/ AblePurge(t) \/ AbleCommit(t)
    PROVE  Keeps
<1> DEFINE a == arg[t]
<1>0. Knows(pc[t], a, db) /\ Typed(db) /\ (pc[t] \in Keeping => db.inv = durable.inv)
  BY AloneIs
<1>1. CASE AbleBegin(t)
  <2>1. pc[t] = "able_begin" /\ "able_begin" \notin Within /\ "able_update" \in Within
    BY <1>1 DEF AbleBegin, BeginAt, At, Within
  <2>2. Sound(db)
    BY <2>1, AloneIs
  <2>3. Knows("able_update", a, db)
    BY <1>0, <2>1, <2>2 DEF Knows, Whole, Naming, Abling, HoldsUser
  <2> QED
    BY <1>1, <2>1, <2>3, BeginInv DEF AbleBegin
<1>2. CASE AbleUpdate(t)
  <2> DEFINE d == IF Exists(db, a.u) THEN [db EXCEPT !.state[a.u] = a.s] ELSE db
  <2>1. /\ pc[t] = "able_update" /\ "able_update" \in Within /\ "able_changes" \in Within
        /\ "able_update" \in Keeping
    BY <1>2 DEF AbleUpdate, Statement, At, Within, Keeping
  <2>2. /\ Sound(db) /\ a.u \in User /\ a.s \in {"active", "disabled"}
        /\ a.s = "disabled" => Other(db, a.u)
    BY <1>0, <2>1 DEF Knows, Whole, HoldsUser, Abling
  <2>3. Typed(d) /\ Closing(d, a.u) /\ (a.s = "active" => Sound(d)) /\ d.inv = db.inv
    BY <1>0, <2>2, MovedState, SoundIsClosing
  <2>4. Statement(t, "able_update", "able_changes", d, Exists(db, a.u))
    BY <1>2 DEF AbleUpdate
  <2> HIDE DEF d
  <2>5. Knows("able_changes", a, d)
    BY <2>2, <2>3 DEF Knows, Whole, Naming, Abling, HoldsUser
  <2> QED
    BY <1>0, <2>1, <2>3, <2>4, <2>5, SameVouched, InsideInv
<1>3. CASE AbleChanges(t)
  <2>1. /\ pc[t] = "able_changes" /\ "able_changes" \in Within /\ "able_purge" \in Within
        /\ "able_commit" \in Within /\ "able_changes" \in Keeping
    BY <1>3 DEF AbleChanges, Throw, At, Within, Keeping
  <2>2. a.s \in {"active", "disabled"} /\ Knows("able_purge", a, db)
    BY <1>0, <2>1 DEF Knows, Whole, Naming, Abling, HoldsUser
  <2>3. a.s = "active" => Knows("able_commit", a, db)
    BY <1>0, <2>1 DEF Knows, Whole, Naming, Abling, HoldsUser
  <2>4. CASE Throw(t, "able_changes")
    BY <2>1, <2>4, EndInv
  <2>5. CASE Query /\ Goto(t, IF a.s = "disabled" THEN "able_purge" ELSE "able_commit")
    BY <2>1, <2>2, <2>3, <2>5, GotoIsEnter, QuietInv
  <2> QED
    BY <1>3, <2>4, <2>5 DEF AbleChanges
<1>4. CASE AblePurge(t)
  <2> DEFINE d == WithoutSessions(db, a.u, {})
  <2>1. /\ pc[t] = "able_purge" /\ "able_purge" \in Within /\ "able_commit" \in Within
        /\ "able_purge" \in Keeping
    BY <1>4 DEF AblePurge, Statement, At, Within, Keeping
  <2>2. Closing(db, a.u) /\ a.u \in User /\ a.s \in {"active", "disabled"}
    BY <1>0, <2>1 DEF Knows, HoldsUser, Abling
  <2>3. Typed(d) /\ Sound(d) /\ d.inv = db.inv
    BY <1>0, <2>2, PurgedAll
  <2>4. PICK touched : Statement(t, "able_purge", "able_commit", d, touched)
    BY <1>4 DEF AblePurge
  <2> HIDE DEF d
  <2>5. Knows("able_commit", a, d)
    BY <2>2, <2>3 DEF Knows, Whole, Naming, Abling, HoldsUser
  <2> QED
    BY <1>0, <2>1, <2>3, <2>4, <2>5, SameVouched, InsideInv
<1>5. CASE AbleCommit(t)
  <2>1. pc[t] = "able_commit" /\ "able_commit" \in Within
    BY <1>5 DEF AbleCommit, CommitAt, At, Within
  <2>2. Sound(db)
    BY <1>0, <2>1 DEF Knows, Whole
  <2> QED
    BY <1>5, <2>1, <2>2, EndInv DEF AbleCommit
<1> QED
  BY <1>1, <1>2, <1>3, <1>4, <1>5

LEMMA DeleteSteps ==
    ASSUME Inv, NEW t \in Workers, Alone(t),
           DeleteBegin(t) \/ DeleteRow(t) \/ DeleteChanges(t) \/ DeleteCommit(t)
    PROVE  Keeps
<1> DEFINE a == arg[t]
<1>0. Knows(pc[t], a, db) /\ Typed(db) /\ (pc[t] \in Keeping => db.inv = durable.inv)
  BY AloneIs
<1>1. CASE DeleteBegin(t)
  <2>1. pc[t] = "del_begin" /\ "del_begin" \notin Within /\ "del_row" \in Within
    BY <1>1 DEF DeleteBegin, BeginAt, At, Within
  <2>2. Sound(db)
    BY <2>1, AloneIs
  <2>3. Knows("del_row", a, db)
    BY <1>0, <2>1, <2>2 DEF Knows, Whole, Naming, Abling, HoldsUser
  <2> QED
    BY <1>1, <2>1, <2>3, BeginInv DEF DeleteBegin
<1>2. CASE DeleteRow(t)
  <2> DEFINE d == WithoutUser(db, a.u)
  <2>1. /\ pc[t] = "del_row" /\ "del_row" \in Within /\ "del_changes" \in Within
        /\ "del_row" \in Keeping /\ "del_changes" \notin Keeping
    BY <1>2 DEF DeleteRow, Statement, At, Within, Keeping
  <2>2. Sound(db) /\ a.u \in User /\ Other(db, a.u)
    BY <1>0, <2>1 DEF Knows, Whole, HoldsUser
  <2>3. Typed(d) /\ Sound(d) /\ Vouched(db, d)
    BY <1>0, <2>2, RemovedUser
  <2>4. Statement(t, "del_row", "del_changes", d, Exists(db, a.u))
    BY <1>2 DEF DeleteRow
  <2> HIDE DEF d
  <2>5. Knows("del_changes", a, d)
    BY <2>3 DEF Knows, Whole, Naming, Abling, HoldsUser
  <2>6. Vouched(durable, d)
    BY <1>0, <2>1, <2>3, StaysVouched
  <2> QED
    BY <2>1, <2>3, <2>4, <2>5, <2>6, InsideInv
<1>3. CASE DeleteChanges(t)
  <2>1. /\ pc[t] = "del_changes" /\ "del_changes" \in Within /\ "del_commit" \in Within
        /\ "del_commit" \notin Keeping
    BY <1>3 DEF DeleteChanges, Throw, At, Within, Keeping
  <2>2. Knows("del_commit", a, db)
    BY <1>0, <2>1 DEF Knows, Whole, Naming, Abling, HoldsUser
  <2> QED
    BY <1>3, <2>1, <2>2, GotoIsEnter, QuietInv, EndInv DEF DeleteChanges
<1>4. CASE DeleteCommit(t)
  <2>1. pc[t] = "del_commit" /\ "del_commit" \in Within
    BY <1>4 DEF DeleteCommit, CommitAt, At, Within
  <2>2. Sound(db)
    BY <1>0, <2>1 DEF Knows, Whole
  <2> QED
    BY <1>4, <2>1, <2>2, EndInv DEF DeleteCommit
<1> QED
  BY <1>1, <1>2, <1>3, <1>4

LEMMA NameSteps ==
    ASSUME Inv, NEW t \in Workers, Alone(t),
           RenameBegin(t) \/ RenameUpdate(t) \/ RenameSaid(t) \/ RenameCommit(t)
    PROVE  Keeps
<1> DEFINE a == arg[t]
<1>0. Knows(pc[t], a, db) /\ Typed(db) /\ (pc[t] \in Keeping => db.inv = durable.inv)
  BY AloneIs
<1>1. CASE RenameBegin(t)
  <2>1. pc[t] = "name_begin" /\ "name_begin" \notin Within /\ "name_update" \in Within
    BY <1>1 DEF RenameBegin, BeginAt, At, Within
  <2>2. Sound(db)
    BY <2>1, AloneIs
  <2>3. Knows("name_update", a, db)
    BY <1>0, <2>1, <2>2 DEF Knows, Whole, Naming, Abling, HoldsUser
  <2> QED
    BY <1>1, <2>1, <2>3, BeginInv DEF RenameBegin
<1>2. CASE RenameUpdate(t)
  <2> DEFINE d == [db EXCEPT !.name[a.u] = a.n]
  <2>1. /\ pc[t] = "name_update" /\ "name_update" \in Within /\ "name_said" \in Within
        /\ "name_update" \in Keeping
    BY <1>2 DEF RenameUpdate, At, Within, Keeping
  <2>2. Sound(db) /\ a.u \in User /\ a.n \in Name /\ Exists(db, a.u)
    BY <1>0, <2>1 DEF Knows, Whole, HoldsUser, Naming
  <2>3. Typed(d) /\ Renaming(d, a.u, a.n) /\ d.state = db.state /\ d.inv = db.inv
    BY <1>0, <2>2, MovedName
  <2>4. \/ Throw(t, "name_update")
        \/ Statement(t, "name_update", "name_said", d, Exists(db, a.u))
    BY <1>2, <2>2 DEF RenameUpdate
  <2> HIDE DEF d
  <2>5. Knows("name_said", a, d)
    BY <2>2, <2>3 DEF Knows, Whole, Naming, Abling, HoldsUser, Exists
  <2> QED
    BY <1>0, <2>1, <2>3, <2>4, <2>5, SameVouched, InsideInv, EndInv
<1>3. CASE RenameSaid(t)
  <2> DEFINE said == {<<p[1], IF p[1] = a.u THEN a.n ELSE p[2]>> : p \in db.said}
             d    == [db EXCEPT !.said = said]
  <2>1. /\ pc[t] = "name_said" /\ "name_said" \in Within /\ "name_commit" \in Within
        /\ "name_said" \in Keeping
    BY <1>3 DEF RenameSaid, Statement, At, Within, Keeping
  <2>2. Renaming(db, a.u, a.n) /\ a.u \in User /\ a.n \in Name
    BY <1>0, <2>1 DEF Knows, HoldsUser, Naming
  <2>3. /\ said \in SUBSET (User \X (Name \union {Nobody}))
        /\ \A q \in said : Exists(db, q[1]) /\ db.name[q[1]] = q[2]
    <3> SUFFICES ASSUME NEW p \in db.said
                 PROVE  LET q == <<p[1], IF p[1] = a.u THEN a.n ELSE p[2]>> IN
                        /\ q \in User \X (Name \union {Nobody})
                        /\ Exists(db, q[1]) /\ db.name[q[1]] = q[2]
      OBVIOUS
    <3>1. p \in User \X (Name \union {Nobody})
      BY <1>0 DEF Typed
    <3>2. Exists(db, p[1]) /\ (p[1] # a.u => db.name[p[1]] = p[2]) /\ db.name[a.u] = a.n
      BY <2>2 DEF Renaming, NamesBut
    <3> QED
      BY <2>2, <3>1, <3>2
  <2> HIDE DEF said
  <2>4. Typed(d) /\ Sound(d) /\ d.inv = db.inv
    BY <1>0, <2>2, <2>3, MovedSaid DEF Renaming
  <2>5. PICK touched : Statement(t, "name_said", "name_commit", d, touched)
    BY <1>3 DEF RenameSaid, said
  <2> HIDE DEF d
  <2>6. Knows("name_commit", a, d)
    BY <2>4 DEF Knows, Whole, Naming, Abling, HoldsUser
  <2> QED
    BY <1>0, <2>1, <2>4, <2>5, <2>6, SameVouched, InsideInv
<1>4. CASE RenameCommit(t)
  <2>1. pc[t] = "name_commit" /\ "name_commit" \in Within
    BY <1>4 DEF RenameCommit, CommitAt, At, Within
  <2>2. Sound(db)
    BY <1>0, <2>1 DEF Knows, Whole
  <2> QED
    BY <1>4, <2>1, <2>2, EndInv DEF RenameCommit
<1> QED
  BY <1>1, <1>2, <1>3, <1>4

LEMMA SayStep ==
    ASSUME Inv, NEW t \in Workers, Alone(t), Say(t)
    PROVE  Keeps
<1> DEFINE a    == arg[t]
           said == db.said \union {<<a.u, a.n>>}
           d    == [db EXCEPT !.said = said]
<1>1. pc[t] = "say" /\ "say" \notin Within /\ "idle" \notin Within
  BY DEF Say, At, Within
<1>2. Typed(db) /\ Sound(db) /\ Knows("say", a, db)
  BY <1>1, AloneIs
<1>3. a.u \in User /\ a.n = db.name[a.u]
  BY <1>2 DEF Knows, HoldsUser
<1>4. CASE ~Exists(db, a.u)
  BY <1>1, <1>4, RefusedInv DEF Say
<1>5. CASE Exists(db, a.u)
  <2>1. /\ said \in SUBSET (User \X (Name \union {Nobody}))
        /\ \A q \in said : Exists(db, q[1]) /\ db.name[q[1]] = q[2]
    BY <1>2, <1>3, <1>5 DEF Typed, Sound, NamesBut
  <2> HIDE DEF said
  <2>2. Typed(d) /\ Sound(d) /\ d.inv = db.inv
    BY <1>2, <2>1, MovedSaid DEF Sound
  <2>3. Execute(d, TRUE) /\ Enter(t, "idle", NoArg)
    BY <1>5 DEF Say, Return, said
  <2> HIDE DEF d
  <2> QED
    BY <1>1, <2>2, <2>3, SameVouched, KnowsNothing, OutsideInv
<1> QED
  BY <1>4, <1>5

-----------------------------------------------------------------------------
(* The theorems *)

LEMMA RestartInv == Inv /\ Restart => Keeps
<1> SUFFICES ASSUME Inv, Restart PROVE Keeps
  OBVIOUS
<1>1. /\ db' = durable /\ durable' = durable /\ owner' = NoOwner
      /\ pc' = [t \in Workers |-> "idle"] /\ arg' = [t \in Workers |-> NoArg]
  BY DEF Restart, Reopen
<1>2. Typed(durable) /\ Sound(durable)
  BY DEF Inv
<1>3. \A t \in Workers : Knows(pc'[t], arg'[t], db') /\ pc'[t] \notin Within
  BY <1>1, KnowsNothing
<1>4. Typed(db') /\ Typed(durable') /\ Sound(durable') /\ Vouched(durable', db')
  BY <1>1, <1>2, SameVouched
<1>5. Inv'
  BY <1>1, <1>3, <1>4, KnowsNothing, WorkersApart DEF Inv, Idle, At
<1> QED
  BY <1>1, <1>5, SameVouched DEF Keeps

LEMMA StutterInv == Inv /\ UNCHANGED vars => Keeps
<1> SUFFICES ASSUME Inv, UNCHANGED vars PROVE Keeps
  OBVIOUS
<1>1. db' = db /\ durable' = durable /\ owner' = owner /\ pc' = pc /\ arg' = arg
  BY DEF vars, server, conn
<1>2. Inv'
  BY <1>1 DEF Inv, Idle, At
<1> QED
  BY <1>1, <1>2, SameVouched DEF Keeps

LEMMA NextInv == Inv /\ [Next]_vars => Keeps
<1> SUFFICES ASSUME Inv, [Next]_vars PROVE Keeps
  OBVIOUS
<1>1. ASSUME NEW t \in Workers, Alone(t), Requests(t) PROVE Keeps
  BY <1>1, RequestsInv
<1>2. ASSUME NEW t \in Workers, Alone(t), Steps(t) PROVE Keeps
  BY <1>2, ComingInSteps, PasswordSteps, RoleStep, AbleSteps, DeleteSteps, NameSteps, SayStep
     DEF Steps
<1> QED
  BY <1>1, <1>2, RestartInv, StutterInv DEF Next

\* With no transaction open the tables are those on disk, and they are sound.
LEMMA SettledIsSound == Inv /\ Settled => Typed(db) /\ Sound(db)
BY DEF Inv, Settled

THEOREM Invariant == Spec => []Inv
<1>1. Inv /\ [Next]_vars => Inv'
  BY NextInv DEF Keeps
<1> QED
  BY <1>1, InitInv, PTL DEF Spec

\* requireAnotherAdminRemains: once there are accounts there is always an
\* administrator who can sign in.
THEOREM AdminAlwaysRemains == Spec => []AnAdminRemains
<1>1. Inv => AnAdminRemains
  BY SettledIsSound DEF AnAdminRemains, Sound, Led, Leads
<1> QED
  BY <1>1, Invariant, PTL

\* The session purges of auth.cc and admin.cc: whoever holds a session has
\* proved the present password of an active account.
THEOREM SessionsAlwaysStand == Spec => []SessionsStand
<1>1. Inv => SessionsStand
  BY SettledIsSound DEF SessionsStand, Sound, SessionsBut, Stands
<1> QED
  BY <1>1, Invariant, PTL

\* renameUser and the authors of messages: a snapshot carries its account's name.
THEOREM SnapshotsAlwaysFollow == Spec => []SnapshotsFollow
<1>1. Inv => SnapshotsFollow
  BY SettledIsSound DEF SnapshotsFollow, Sound, NamesBut
<1> QED
  BY <1>1, Invariant, PTL

\* revokeInvite and the foreign keys of invites: a redeemed invite keeps the two
\* accounts it names for as long as both exist.
THEOREM VouchRecordAlwaysKept == Spec => VouchRecordKept
<1>1. Inv /\ [Next]_vars => Vouched(durable, durable')
  BY NextInv DEF Keeps
<1>2. Inv /\ [Next]_vars =>
         [\A i \in Invite : LET v == durable.inv[i] IN
             v.used # Nobody /\ durable'.inv[i] # v =>
                ~Exists(durable', v.used) \/ ~Exists(durable', v.by)]_vars
  BY <1>1 DEF Vouched
<1> QED
  BY <1>2, Invariant, PTL DEF Spec, VouchRecordKept

=============================================================================
