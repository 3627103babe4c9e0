-------------------------------- MODULE Accounts --------------------------------
(***************************************************************************)
(* Accounts, sessions and invites: auth.cc and the parts of admin.cc that  *)
(* manage people.  Passwords are numbers counting an account's changes of  *)
(* it; a request that gives a wrong one, and an invite or a session that   *)
(* has expired, changes nothing and is not modelled.  A session row also   *)
(* records which password its owner last proved (history: the code has no  *)
(* such column).  The snapshots of an author's name are pairs of account   *)
(* and name, standing for messages.author_name and rooms.creator_name.     *)
(***************************************************************************)
EXTENDS Handlers, Naturals

CONSTANTS
    User,         \* users.id
    Name, Token, Invite,
    Nobody,       \* NULL, or no row
    MaxPassword   \* bound: changes of one account's password

ASSUME PasswordBound == MaxPassword \in Nat
ASSUME NobodyApart == Nobody \notin User \union Name

vars == server

Roles == {"user", "privileged", "admin"}
\* roleRank
Rank(r) == CASE r = "user" -> 0 [] r = "privileged" -> 1 [] r = "admin" -> 2

NoSession == [user |-> Nobody, pw |-> 0]
NoInvite  == [by |-> Nobody, used |-> Nobody]

\* state: "none", "active", or "disabled" (disabled_at is set); inv: who made the
\* invite and whose account it became; said: the names messages and rooms keep.
Empty == [state |-> [u \in User |-> "none"], role |-> [u \in User |-> "user"],
          name  |-> [u \in User |-> Nobody], pw |-> [u \in User |-> 0],
          sess  |-> [k \in Token |-> NoSession], inv |-> [i \in Invite |-> NoInvite],
          said  |-> {}]

Init == HandlersInit(Empty)

-----------------------------------------------------------------------------
(* The tables *)

Exists(d, u)  == d.state[u] # "none"
Taken(d, n)   == \E u \in User : Exists(d, u) /\ d.name[u] = n
HasAnyUser(d) == \E u \in User : Exists(d, u)
Open(d, i)    == d.inv[i].by # Nobody /\ d.inv[i].used = Nobody

\* userForSession: the row, and an account that is not disabled.
SignedIn(k, u) == db.sess[k].user = u /\ db.state[u] = "active"
\* requireRole
Holds(k, u, minimum) == SignedIn(k, u) /\ Rank(db.role[u]) >= Rank(minimum)

\* INSERT INTO users; a new row starts with its first password.
WithUser(d, u, n, r) ==
    [d EXCEPT !.state[u] = "active", !.role[u] = r, !.name[u] = n, !.pw[u] = 0]

\* DELETE FROM sessions WHERE user_id = u, the rows of kept apart.
WithoutSessions(d, u, kept) ==
    [d EXCEPT !.sess = [k \in Token |-> IF @[k].user = u /\ k \notin kept
                                        THEN NoSession ELSE @[k]]]

\* History: whoever holds the session k of kept proved u's password just now.
Proved(d, u, kept) ==
    [d EXCEPT !.sess = [k \in Token |-> IF k \in kept /\ @[k].user = u
                                        THEN [@[k] EXCEPT !.pw = d.pw[u]] ELSE @[k]]]

\* DELETE FROM users, and what the foreign keys do: sessions and the invites
\* an account made go with it, the invite it came by is unused again, and its
\* messages and rooms keep the name and lose the account.
WithoutUser(d, u) ==
    [WithoutSessions(d, u, {}) EXCEPT
        !.state[u] = "none", !.role[u] = "user", !.name[u] = Nobody, !.pw[u] = 0,
        !.inv = [i \in Invite |->
                    IF @[i].by = u THEN NoInvite
                    ELSE IF @[i].used = u THEN [@[i] EXCEPT !.used = Nobody] ELSE @[i]],
        !.said = {p \in @ : p[1] # u}]

-----------------------------------------------------------------------------
(* Coming in: bootstrap, registration, login, logout *)

\* startSession: a new token; the foreign key needs the account.
StartSession(t) ==
    LET a == arg[t] IN
    /\ At(t, "session")
    /\ \/ /\ Exists(db, a.u)
          /\ \E k \in Token :
                /\ db.sess[k] = NoSession
                /\ Execute([db EXCEPT !.sess[k] = [user |-> a.u, pw |-> a.pw]], TRUE)
       \/ ~Exists(db, a.u) /\ Query
    /\ Return(t)

Bootstrap(t, n) == ~HasAnyUser(db) /\ Load(t, "boot_insert", [n |-> n])

\* INSERT ... 'admin'; lastInsertId() is taken to return this row's id.
BootstrapInsert(t) ==
    LET n == arg[t].n IN
    /\ At(t, "boot_insert")
    /\ \/ /\ ~Taken(db, n)
          /\ \E u \in User :
                /\ ~Exists(db, u)
                /\ Execute(WithUser(db, u, n, "admin"), TRUE)
                /\ Enter(t, "session", [u |-> u, pw |-> 0])
       \/ Taken(db, n) /\ Query /\ Return(t)

\* The invite is open and the name is free; the password is hashed next.
Register(t, i, n) ==
    Open(db, i) /\ ~Taken(db, n) /\ Load(t, "reg_insert", [i |-> i, n |-> n])

RegisterInsert(t) ==
    LET a == arg[t] IN
    /\ At(t, "reg_insert")
    /\ \/ /\ ~Taken(db, a.n)
          /\ \E u \in User :
                /\ ~Exists(db, u)
                /\ Execute(WithUser(db, u, a.n, "user"), TRUE)
                /\ Enter(t, "reg_consume", [i |-> a.i, u |-> u, pw |-> 0])
       \/ Taken(db, a.n) /\ Query /\ Return(t)

\* UPDATE invites SET used_by, whether or not it is still unused; the foreign
\* key needs the account.
RegisterConsume(t) ==
    LET a == arg[t]
        row == db.inv[a.i].by # Nobody IN
    /\ At(t, "reg_consume")
    /\ IF row /\ ~Exists(db, a.u)
       THEN Query /\ Return(t)
       ELSE /\ Execute(IF row THEN [db EXCEPT !.inv[a.i].used = a.u] ELSE db, row)
            /\ Goto(t, "session")

\* The right password; a disabled account is a 403.
Login(t, u) ==
    db.state[u] = "active" /\ Load(t, "session", [u |-> u, pw |-> db.pw[u]])

Logout(t, k) ==
    /\ db.sess[k] # NoSession
    /\ Request(t, [db EXCEPT !.sess[k] = NoSession], TRUE)

-----------------------------------------------------------------------------
(* Passwords: changePassword keeps the session k it was asked from, and      *)
(* resetPassword, an administrator's, keeps none.                            *)

ChangePassword(t, k, u) ==
    /\ SignedIn(k, u) /\ db.pw[u] < MaxPassword
    /\ Load(t, "pw_begin", [u |-> u, kept |-> {k}])

ResetPassword(t, k, admin, u) ==
    /\ Holds(k, admin, "admin") /\ u # admin /\ db.pw[u] < MaxPassword
    /\ Load(t, "pw_begin", [u |-> u, kept |-> {}])

PasswordBegin(t) == BeginAt(t, "pw_begin", "pw_update")

PasswordUpdate(t) ==
    LET u == arg[t].u IN
    Statement(t, "pw_update", "pw_changes",
              IF Exists(db, u) /\ db.pw[u] < MaxPassword THEN [db EXCEPT !.pw[u] = @ + 1] ELSE db,
              Exists(db, u))

\* A reset of no account is a 404.  changePassword does not ask.
PasswordChanges(t) ==
    /\ At(t, "pw_changes")
    /\ IF chg \/ arg[t].kept # {} THEN Query /\ Goto(t, "pw_purge")
                                  ELSE Throw(t, "pw_changes")

\* Mutant: the sessions stay.
PasswordPurgeNothing(t) ==
    Statement(t, "pw_purge", "pw_commit", Proved(db, arg[t].u, arg[t].kept), FALSE)

PasswordPurge(t) ==
    LET left == WithoutSessions(db, arg[t].u, arg[t].kept) IN
    Statement(t, "pw_purge", "pw_commit", Proved(left, arg[t].u, arg[t].kept), left # db)

PasswordCommit(t) == CommitAt(t, "pw_commit")

-----------------------------------------------------------------------------
(* Invites *)

CreateInvite(t, k, u, i) ==
    /\ Holds(k, u, "privileged") /\ db.inv[i] = NoInvite
    /\ Request(t, [db EXCEPT !.inv[i].by = u], TRUE)

\* Mutant: a redeemed code can be deleted too.
RevokeAnyInvite(t, k, admin, i) ==
    /\ Holds(k, admin, "admin")
    /\ Request(t, [db EXCEPT !.inv[i] = NoInvite], TRUE)

\* DELETE FROM invites ... AND used_by IS NULL
RevokeInvite(t, k, admin, i) ==
    /\ Holds(k, admin, "admin") /\ Open(db, i)
    /\ Request(t, [db EXCEPT !.inv[i] = NoInvite], TRUE)

-----------------------------------------------------------------------------
(* Administration *)

\* Mutant: disabled administrators count.
AnyOtherAdmin(excluding) ==
    \E u \in User : u # excluding /\ Exists(db, u) /\ db.role[u] = "admin"

\* requireAnotherAdminRemains
AnotherAdminRemains(excluding) ==
    \E u \in User : u # excluding /\ db.state[u] = "active" /\ db.role[u] = "admin"

\* Nothing keeps administrators from demoting themselves.
SetRole(t, k, admin, u, r) ==
    /\ Holds(k, admin, "admin") /\ Exists(db, u) /\ db.role[u] # r
    /\ r # "admin" => AnotherAdminRemains(u)
    /\ Load(t, "role_update", [u |-> u, r |-> r])

RoleUpdate(t) ==
    LET a == arg[t] IN
    Finish(t, "role_update", IF Exists(db, a.u) THEN [db EXCEPT !.role[a.u] = a.r] ELSE db,
           Exists(db, a.u))

Disable(t, k, admin, u) ==
    /\ Holds(k, admin, "admin") /\ u # admin /\ AnotherAdminRemains(u)
    /\ Load(t, "able_begin", [u |-> u, s |-> "disabled"])

Enable(t, k, admin, u) ==
    /\ Holds(k, admin, "admin")
    /\ Load(t, "able_begin", [u |-> u, s |-> "active"])

AbleBegin(t) == BeginAt(t, "able_begin", "able_update")

AbleUpdate(t) ==
    LET a == arg[t] IN
    Statement(t, "able_update", "able_changes",
              IF Exists(db, a.u) THEN [db EXCEPT !.state[a.u] = a.s] ELSE db, Exists(db, a.u))

AbleChanges(t) ==
    \/ chg /\ At(t, "able_changes") /\ Query
           /\ Goto(t, IF arg[t].s = "disabled" THEN "able_purge" ELSE "able_commit")
    \/ ~chg /\ Throw(t, "able_changes")

AblePurge(t) ==
    LET left == WithoutSessions(db, arg[t].u, {}) IN
    Statement(t, "able_purge", "able_commit", left, left # db)

AbleCommit(t) == CommitAt(t, "able_commit")

\* DELETE /api/admin/users/{id}; what becomes of its links and blobs is
\* Storage's DeleteKeeper.
DeleteUser(t, k, admin, u) ==
    /\ Holds(k, admin, "admin") /\ u # admin /\ AnotherAdminRemains(u)
    /\ Load(t, "del_begin", [u |-> u])

DeleteBegin(t) == BeginAt(t, "del_begin", "del_row")

DeleteRow(t) ==
    Statement(t, "del_row", "del_changes", WithoutUser(db, arg[t].u), Exists(db, arg[t].u))

DeleteChanges(t) ==
    \/ chg /\ At(t, "del_changes") /\ Query /\ Goto(t, "del_commit")
    \/ ~chg /\ Throw(t, "del_changes")

DeleteCommit(t) == CommitAt(t, "del_commit")

-----------------------------------------------------------------------------
(* Names: renameUser, and a message that takes its author's name *)

Rename(t, k, admin, u, n) ==
    /\ Holds(k, admin, "admin") /\ Exists(db, u) /\ ~Taken(db, n)
    /\ Load(t, "name_begin", [u |-> u, n |-> n])

RenameBegin(t) == BeginAt(t, "name_begin", "name_update")

\* UPDATE users; usernames are UNIQUE.
RenameUpdate(t) ==
    LET a == arg[t] IN
    /\ At(t, "name_update")
    /\ IF Taken(db, a.n)
       THEN Throw(t, "name_update")
       ELSE Statement(t, "name_update", "name_said",
                      IF Exists(db, a.u) THEN [db EXCEPT !.name[a.u] = a.n] ELSE db,
                      Exists(db, a.u))

\* Mutant: the snapshots are left behind.
RenameKeepsSnapshots(t) == Statement(t, "name_said", "name_commit", db, FALSE)

\* UPDATE messages SET author_name, UPDATE rooms SET creator_name
RenameSaid(t) ==
    LET a == arg[t] IN
    Statement(t, "name_said", "name_commit",
              [db EXCEPT !.said = {<<p[1], IF p[1] = a.u THEN a.n ELSE p[2]>> : p \in @}],
              \E p \in db.said : p[1] = a.u)

RenameCommit(t) == CommitAt(t, "name_commit")

\* POST of a message or a room, with the name requireUser read.
Speak(t, k, u) == SignedIn(k, u) /\ Load(t, "say", [u |-> u, n |-> db.name[u]])

Say(t) ==
    LET a == arg[t] IN
    /\ At(t, "say")
    /\ IF Exists(db, a.u) THEN Execute([db EXCEPT !.said = @ \union {<<a.u, a.n>>}], TRUE)
                          ELSE Query
    /\ Return(t)

-----------------------------------------------------------------------------
\* A session's expires_at passes and purgeExpiredSessions takes the row; in
\* between userForSession already ignores it.
SessionExpires(t, k) ==
    /\ db.sess[k] # NoSession
    /\ Request(t, [db EXCEPT !.sess[k] = NoSession], TRUE)

Requests(t) ==
    \/ \E n \in Name : Bootstrap(t, n) \/ \E i \in Invite : Register(t, i, n)
    \/ \E u \in User : Login(t, u)
    \/ \E k \in Token : Logout(t, k) \/ SessionExpires(t, k)
    \/ \E k \in Token, u \in User :
          \/ ChangePassword(t, k, u) \/ Speak(t, k, u)
          \/ \E i \in Invite : CreateInvite(t, k, u, i) \/ RevokeInvite(t, k, u, i)
    \/ \E k \in Token, admin, u \in User :
          \/ ResetPassword(t, k, admin, u)
          \/ Disable(t, k, admin, u) \/ Enable(t, k, admin, u)
          \/ DeleteUser(t, k, admin, u)
          \/ \E r \in Roles : SetRole(t, k, admin, u, r)
          \/ \E n \in Name : Rename(t, k, admin, u, n)

Steps(t) ==
    \/ BootstrapInsert(t) \/ RegisterInsert(t) \/ RegisterConsume(t) \/ StartSession(t)
    \/ PasswordBegin(t) \/ PasswordUpdate(t) \/ PasswordChanges(t) \/ PasswordPurge(t)
    \/ PasswordCommit(t)
    \/ RoleUpdate(t)
    \/ AbleBegin(t) \/ AbleUpdate(t) \/ AbleChanges(t) \/ AblePurge(t) \/ AbleCommit(t)
    \/ DeleteBegin(t) \/ DeleteRow(t) \/ DeleteChanges(t) \/ DeleteCommit(t)
    \/ RenameBegin(t) \/ RenameUpdate(t) \/ RenameSaid(t) \/ RenameCommit(t)
    \/ Say(t)

\* Requests come one at a time, and may be cut short by a crash anywhere.
Next == (\E t \in Workers : Alone(t) /\ (Requests(t) \/ Steps(t))) \/ Restart

Spec == Init /\ [][Next]_vars

-----------------------------------------------------------------------------
(* Properties, of requests one at a time, cut short by a crash anywhere *)

\* "Guards against locking everyone out" (requireAnotherAdminRemains): once
\* there are accounts, one of them is an administrator who can sign in,
\* whatever administrators do to themselves and to each other.
AnAdminRemains ==
    Settled /\ HasAnyUser(db) =>
        \E u \in User : db.state[u] = "active" /\ db.role[u] = "admin"

\* "A new password with the old sessions still live is exactly the state the
\* purge exists to prevent", and disabling an account leaves no session to
\* resurrect: whoever holds a session has proved the present password of an
\* account that is active, through changes, resets, disabling, deletion and
\* crashes.
SessionsStand ==
    Settled => \A k \in Token : LET s == db.sess[k] IN
        s # NoSession => db.state[s.user] = "active" /\ s.pw = db.pw[s.user]

\* "The record of who vouched for an existing member" is kept: who made the
\* invite an account came by stays as it is until one of the two is deleted.
VouchRecordKept ==
    [][\A i \in Invite : LET v == durable.inv[i] IN
          v.used # Nobody /\ durable'.inv[i] # v =>
             ~Exists(durable', v.used) \/ ~Exists(durable', v.by)]_vars

\* "The chat snapshots follow the account": what an account said never
\* carries a name that is not its own (any more).
SnapshotsFollow == Settled => \A p \in db.said : db.name[p[1]] = p[2]

=============================================================================
