--------------------------------- MODULE Rooms ----------------------------------
(***************************************************************************)
(* Who reaches whom: rooms, invitations and blocks (chat.cc), and links    *)
(* sent to one member's inbox (inbox.cc), which a block stops as well.     *)
(* What is said in a room is Messages'; here a room may hold one message   *)
(* with photos, whose link was made for it.  Links end and accounts are    *)
(* deleted elsewhere: an action each.  A room's name and topic are left    *)
(* out.                                                                    *)
(***************************************************************************)
EXTENDS Handlers, FiniteSets, Naturals

CONSTANTS
    User, Admins,      \* accounts that may exist, those with the role admin
    Room, Share,
    Owner,             \* who made a link
    Batch,             \* inbox items (random tokens)
    Nobody             \* NULL, or no row

ASSUME AdminsAreUsers == Admins \subseteq User
ASSUME OwnersAreUsers == Owner \in [Share -> User]
ASSUME RoomsApart == User \intersect Room = {}
ASSUME TokensAreNotNull == Nobody \notin Batch

vars == server

MemberStates == {"none", "invited", "member", "declined", "left", "removed"}
NoItem == [from |-> Nobody, batch |-> Nobody, seen |-> FALSE]

Init ==
    HandlersInit([users  |-> User, rooms |-> {},
                  made   |-> [r \in Room |-> Nobody],                    \* rooms.created_by
                  mem    |-> [r \in Room |-> [u \in User |-> "none"]],    \* room_members.state
                  by     |-> [r \in Room |-> [u \in User |-> Nobody]],    \* room_members.invited_by
                  blocks |-> {},       \* user_blocks and room_blocks: <<user, whom or what>>
                  photos |-> {},       \* <<room, user>>: the link of the user's photo there is good
                  live   |-> Share,
                  box    |-> [s \in Share |-> [u \in User |-> NoItem]]])  \* share_deliveries

-----------------------------------------------------------------------------
(* The tables *)

\* requireRoomMember, requireRoomManager
IsMember(r, u)  == r \in db.rooms /\ u \in db.users /\ db.mem[r][u] = "member"
IsManager(r, u) == /\ r \in db.rooms /\ u \in db.users
                   /\ u \in Admins \/ (db.made[r] = u /\ db.mem[r][u] = "member")

\* An UPDATE of a membership row; without one it hits nothing.
Changes(d, r, u) == d.mem[r][u] # "none"
WithState(d, r, u, s) == IF Changes(d, r, u) THEN [d EXCEPT !.mem[r][u] = s] ELSE d

\* DELETE FROM rooms cascades to its members, blocks and messages; not to the
\* link of a photo.
WithoutRoom(d, r) ==
    [d EXCEPT !.rooms = @ \ {r}, !.made[r] = Nobody,
              !.mem[r] = [u \in User |-> "none"], !.by[r] = [u \in User |-> Nobody],
              !.blocks = {b \in @ : b[2] # r}]

\* DELETE FROM users: memberships, blocks either way, links and deliveries go
\* too; who made a room, or sent an invitation, is forgotten.
WithoutUser(d, u) ==
    [d EXCEPT !.users = @ \ {u},
              !.made = [r \in Room |-> IF @[r] = u THEN Nobody ELSE @[r]],
              !.mem  = [r \in Room |-> [@[r] EXCEPT ![u] = "none"]],
              !.by   = [r \in Room |-> [v \in User |-> IF v = u \/ @[r][v] = u
                                                       THEN Nobody ELSE @[r][v]]],
              !.blocks = {b \in @ : b[1] # u /\ b[2] # u},
              !.photos = {p \in @ : p[2] # u},
              !.live = {s \in @ : Owner[s] # u},
              !.box = [s \in Share |-> [v \in User |->
                          IF u \in {v, @[s][v].from, Owner[s]} THEN NoItem ELSE @[s][v]]]]

-----------------------------------------------------------------------------
(* Rooms *)

\* POST /api/chat/rooms: the room and its creator's membership, together.
CreateBegin(t, r, u) ==
    /\ Idle(t) /\ r \notin db.rooms /\ u \in db.users
    /\ Begin(t) /\ Enter(t, "create_room", [r |-> r, u |-> u])

CreateRoom(t) ==
    LET a == arg[t] IN
    Statement(t, "create_room", "create_member",
              [db EXCEPT !.rooms = @ \union {a.r}, !.made[a.r] = a.u], TRUE)

CreateMember(t) ==
    LET a == arg[t] IN
    Statement(t, "create_member", "create_commit",
              [db EXCEPT !.mem[a.r][a.u] = "member", !.by[a.r][a.u] = a.u], TRUE)

CreateCommit(t) == CommitAt(t, "create_commit")

Blocked(u, r, sender) == <<u, sender>> \in db.blocks \/ <<u, r>> \in db.blocks

\* POST .../invite; a blocked invitation is answered alike and changes nothing.
Invite(t, r, sender, u) ==
    /\ IsManager(r, sender) /\ u \in db.users /\ ~Blocked(u, r, sender)
    /\ Load(t, "invite", [r |-> r, by |-> sender, u |-> u])

\* The upsert: a member stays one, everybody else is asked (again).
InviteUpsert(t) ==
    LET a == arg[t] IN
    Finish(t, "invite",
           [db EXCEPT !.mem[a.r][a.u] = IF @ = "member" THEN @ ELSE "invited",
                      !.by[a.r][a.u] = a.by], TRUE)

Answers == {"accept", "decline", "block_room", "block_user"}

\* Mutant: any row will do, not only a pending invitation.
AnswerAny(t, r, u, answer) ==
    /\ u \in db.users /\ db.mem[r][u] # "none"
    /\ Load(t, "answer_begin", [r |-> r, u |-> u, answer |-> answer, by |-> db.by[r][u]])

\* POST .../respond: the invitation is pending, and who sent it is noted.
Answer(t, r, u, answer) ==
    /\ u \in db.users /\ db.mem[r][u] = "invited"
    /\ Load(t, "answer_begin", [r |-> r, u |-> u, answer |-> answer, by |-> db.by[r][u]])

AnswerBegin(t) == BeginAt(t, "answer_begin", "answer")

\* UPDATE room_members SET state, without asking for the state again.
AnswerUpdate(t) ==
    LET a == arg[t] IN
    /\ At(t, "answer")
    /\ Execute(WithState(db, a.r, a.u, IF a.answer = "accept" THEN "member" ELSE "declined"),
               Changes(db, a.r, a.u))
    /\ Goto(t, IF a.answer \in {"block_room", "block_user"} THEN "block" ELSE "answer_commit")

\* INSERT INTO room_blocks or user_blocks.  An invitation whose sender's
\* account is gone has nobody to block: 409, and it is still pending.
AnswerBlock(t) ==
    LET a == arg[t]
        x == IF a.answer = "block_room" THEN a.r ELSE a.by IN
    /\ At(t, "block")
    /\ IF x = Nobody
       THEN Throw(t, "block")
       ELSE Statement(t, "block", "answer_commit", [db EXCEPT !.blocks = @ \union {<<a.u, x>>}], TRUE)

AnswerCommit(t) == CommitAt(t, "answer_commit")

Leave(t, r, u) == IsMember(r, u) /\ Load(t, "leave", [r |-> r, u |-> u])

LeaveUpdate(t) ==
    LET a == arg[t] IN
    Finish(t, "leave", WithState(db, a.r, a.u, "left"), Changes(db, a.r, a.u))

\* POST .../members/{username}/remove; not the room's creator.
Remove(t, r, manager, u) ==
    /\ IsManager(r, manager) /\ db.mem[r][u] \in {"member", "invited"} /\ db.made[r] # u
    /\ Load(t, "remove", [r |-> r, u |-> u])

RemoveUpdate(t) ==
    LET a == arg[t] IN
    Finish(t, "remove", WithState(db, a.r, a.u, "removed"), Changes(db, a.r, a.u))

\* Mutant: the room first; its photos can then no longer be told.
DeleteRoomFirst(t, r, u) == IsManager(r, u) /\ Load(t, "delete_room", [r |-> r])

\* DELETE /api/chat/rooms/{id}: two statements, and no transaction around them.
DeleteRoom(t, r, u) == IsManager(r, u) /\ Load(t, "delete_photos", [r |-> r])

DeletePhotos(t) ==
    LET left == {p \in db.photos : p[1] # arg[t].r} IN
    Statement(t, "delete_photos", "delete_room", [db EXCEPT !.photos = left], left # db.photos)

DeleteRow(t) ==
    LET r == arg[t].r IN
    Finish(t, "delete_room", WithoutRoom(db, r), r \in db.rooms)

\* DELETE /api/chat/blocks/...
Unblock(t, u, x) ==
    /\ <<u, x>> \in db.blocks
    /\ Request(t, [db EXCEPT !.blocks = @ \ {<<u, x>>}], TRUE)

-----------------------------------------------------------------------------
(* The inbox: share_deliveries, one row per link and recipient *)

InItem(d, b) == {s \in Share : \E v \in User : d.box[s][v].batch = b}

\* Mutant: the recipient's blocks are not asked.
SendPastBlock(t, u, v, links, b) ==
    /\ u \in db.users /\ v \in db.users \ {u}
    /\ \A s \in links : s \in db.live /\ Owner[s] = u
    /\ InItem(db, b) = {}
    /\ Load(t, "send_begin", [from |-> u, to |-> v, sent |-> links, left |-> links, b |-> b])

\* sendLinks: every link is the sender's own and live, and the recipient is
\* somebody else who has not blocked the sender.
Send(t, u, v, links, b) == <<v, u>> \notin db.blocks /\ SendPastBlock(t, u, v, links, b)

\* Mutant: no transaction around the rows.
SendUnprotected(t) == At(t, "send_begin") /\ Query /\ Goto(t, "send")

SendBegin(t) == BeginAt(t, "send_begin", "send")

Row(a) == [from |-> a.from, batch |-> a.b, seen |-> FALSE]

\* Mutant: what was seen stays seen.
RowKeepsSeen(s, a) == [Row(a) EXCEPT !.seen = db.box[s][a.to].seen]

\* The upsert: a link already there moves into this item, unread again.
Delivered(s, a) == Row(a)

\* One link of the request.
SendUpsert(t) ==
    LET a == arg[t] IN
    /\ At(t, "send")
    /\ \E s \in a.left :
          /\ Execute([db EXCEPT !.box[s][a.to] = Delivered(s, a)], TRUE)
          /\ Enter(t, IF a.left = {s} THEN "send_commit" ELSE "send",
                   [a EXCEPT !.left = @ \ {s}])

SendCommit(t) == CommitAt(t, "send_commit")

\* The rows of u's inbox for which P holds, replaced.
Inbox(u, P(_), New(_)) ==
    [db EXCEPT !.box = [s \in Share |-> [v \in User |->
        IF v = u /\ P(@[s][v]) THEN New(@[s][v]) ELSE @[s][v]]]]

\* POST /api/inbox/seen
MarkSeen(t, u) ==
    /\ \E s \in Share : db.box[s][u].batch # Nobody /\ ~db.box[s][u].seen
    /\ Request(t, Inbox(u, LAMBDA row : row.batch # Nobody,
                           LAMBDA row : [row EXCEPT !.seen = TRUE]), TRUE)

\* DELETE /api/inbox/items/{id}
Dismiss(t, u, b) ==
    /\ \E s \in Share : db.box[s][u].batch = b
    /\ Request(t, Inbox(u, LAMBDA row : row.batch = b, LAMBDA row : NoItem), TRUE)

-----------------------------------------------------------------------------
(* What other parts of the server do to these tables *)

\* A message with a photo is posted.
PostPhoto(t, r, u) ==
    /\ IsMember(r, u) /\ <<r, u>> \notin db.photos
    /\ Request(t, [db EXCEPT !.photos = @ \union {<<r, u>>}], TRUE)

\* A link is revoked or expires; its row, and its deliveries, stay.
LinkEnds(t, s) == s \in db.live /\ Request(t, [db EXCEPT !.live = @ \ {s}], TRUE)

DeleteAccount(t, u) == u \in db.users /\ Request(t, WithoutUser(db, u), TRUE)

-----------------------------------------------------------------------------
Requests(t) ==
    \/ \E r \in Room, u \in User :
          \/ CreateBegin(t, r, u) \/ Leave(t, r, u) \/ DeleteRoom(t, r, u)
          \/ \E answer \in Answers : Answer(t, r, u, answer)
          \/ \E by \in User : Invite(t, r, by, u) \/ Remove(t, r, by, u)
          \/ PostPhoto(t, r, u)
    \/ \E u \in User, x \in User \union Room : Unblock(t, u, x)
    \/ \E u, v \in User, links \in SUBSET Share \ {{}}, b \in Batch : Send(t, u, v, links, b)
    \/ \E u \in User : MarkSeen(t, u) \/ DeleteAccount(t, u) \/ \E b \in Batch : Dismiss(t, u, b)
    \/ \E s \in Share : LinkEnds(t, s)

Steps(t) ==
    \/ CreateRoom(t) \/ CreateMember(t) \/ CreateCommit(t)
    \/ InviteUpsert(t)
    \/ AnswerBegin(t) \/ AnswerUpdate(t) \/ AnswerBlock(t) \/ AnswerCommit(t)
    \/ LeaveUpdate(t) \/ RemoveUpdate(t) \/ DeletePhotos(t) \/ DeleteRow(t)
    \/ SendBegin(t) \/ SendUpsert(t) \/ SendCommit(t)

\* Requests come one at a time, and may be cut short by a crash anywhere.
Next == (\E t \in Workers : Alone(t) /\ (Requests(t) \/ Steps(t))) \/ Restart

Spec == Init /\ [][Next]_vars

-----------------------------------------------------------------------------
(* Properties, of requests one at a time, cut short by a crash anywhere *)

Relation(state) == CASE state = "member" -> "in" [] state = "invited" -> "asked" [] OTHER -> "out"

\* The committed tables keep the promise of Membership: nobody is put in a
\* room, no invitation passes a block, an answer and its block are one.
M == INSTANCE Membership WITH
        blocks <- durable.blocks,
        rel <- [r \in Room |-> [u \in User |-> Relation(durable.mem[r][u])]]

MembershipSpec == M!Spec

\* "photos posted into the room, whose links existed only for it": none
\* outlives its room, wherever the deletion is cut short.
PhotosGoWithRoom == Settled => \A p \in db.photos : p[1] \in db.rooms

\* The links of one send arrive as one inbox item or not at all, crashes
\* included.
SentWhole ==
    [][\A b \in Batch : InItem(durable, b) = {} /\ InItem(durable', b) # {} =>
          \E t \in Workers : /\ At(t, "send_commit")
                             /\ arg[t].b = b /\ arg[t].sent = InItem(durable', b)]_vars

\* "Every row of a send shares its sender, note and time, so the bare columns
\* are well defined": one item is one recipient's, and its rows agree on who
\* sent them and on whether they were seen.
ItemsAgree ==
    Settled => \A s, x \in Share, u, v \in User :
        db.box[s][u].batch = db.box[x][v].batch /\ db.box[s][u] # NoItem =>
            u = v /\ db.box[s][u] = db.box[x][v]

\* What a member is sent after blocking the sender never arrives.
BlockedNotHeard ==
    [][\A s \in Share, u \in User : LET row == durable'.box[s][u] IN
          row # durable.box[s][u] /\ row # NoItem /\ row.batch # durable.box[s][u].batch =>
              <<u, row.from>> \notin durable.blocks]_vars

=============================================================================
