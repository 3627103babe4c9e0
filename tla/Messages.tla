-------------------------------- MODULE Messages --------------------------------
(***************************************************************************)
(* What is said in one room (chat.cc): messages, their mentions, photos,   *)
(* reactions and pins, how far each member has read, and removal, which    *)
(* erases.  Handlers overlap on the shared connection.  A text is a model  *)
(* value; Names says whom it mentions.  Every user here is a member of the *)
(* room (Rooms has how one becomes a member); reactions are of one emoji.  *)
(* When a client hears of a change is Feed's.                              *)
(***************************************************************************)
EXTENDS Handlers, Naturals, FiniteSets

CONSTANTS
    User, Admins,     \* members of the room, those with the role admin
    Text, NoText,     \* bodies, and the empty one
    Names,            \* the users a body names with @
    MaxMsg,           \* bound: messages.id
    MaxPins           \* kMaxPinsPerRoom

ASSUME TextNamesUsers == Names \in [Text \union {NoText} -> SUBSET User] /\ Names[NoText] = {}
ASSUME BoundsNat == MaxMsg \in Nat /\ MaxPins \in Nat /\ NoText \notin Text

VARIABLE
    overlapped    \* history: a request has come while another was in progress

vars == <<server, overlapped>>

Id == 1..MaxMsg

\* No row of messages, or one just inserted: its author and text, whether it is
\* pinned, cleared away by an administrator, who is mentioned and who has reacted,
\* and whether message_shares has a link made for its photos.
NoRow == [st |-> "none", author |-> NoArg, body |-> NoText, pinned |-> FALSE,
          cleared |-> FALSE, mentions |-> {}, reactions |-> {}, photo |-> FALSE]

\* link: that link is good; read: room_members.last_read_id.
Init ==
    /\ HandlersInit([msg  |-> [i \in Id |-> NoRow], link |-> [i \in Id |-> FALSE],
                     read |-> [u \in User |-> 0]])
    /\ overlapped = FALSE

Live(i) == db.msg[i].st = "live"
Gone(i) == db.msg[i].st = "none"

\* An UPDATE of message i that finds its row by this condition.
Update(t, l, m, i, found, row) ==
    Statement(t, l, m, IF found THEN [db EXCEPT !.msg[i] = row] ELSE db, found)

-----------------------------------------------------------------------------
(* POST /api/chat/rooms/{id}/messages *)

Post(t, u, body, photo) ==
    /\ body # NoText \/ photo
    /\ Load(t, "post_begin", [u |-> u, body |-> body, photo |-> photo])

\* Bound: not when every id is taken.
PostBegin(t) == (\E i \in Id : db.msg[i].st = "none") /\ BeginAt(t, "post_begin", "post_insert")

\* SQLite gives the row one id more than the largest there is, also when that
\* one was rolled back before.  lastInsertId() is taken to return it.
PostInsert(t) ==
    LET a == arg[t] IN
    /\ At(t, "post_insert")
    /\ \E i \in Id :
          /\ db.msg[i].st = "none" /\ \A j \in 1..(i - 1) : db.msg[j].st # "none"
          /\ Execute([db EXCEPT !.msg[i] = [NoRow EXCEPT !.st = "live", !.author = a.u,
                                                         !.body = a.body]], TRUE)
          /\ Enter(t, "post_mentions", [i |-> i, u |-> a.u, body |-> a.body, photo |-> a.photo])

\* recordMentions: one INSERT for each member named.
PostMentions(t) ==
    LET a == arg[t] IN
    Statement(t, "post_mentions", IF a.photo THEN "post_photo" ELSE "post_read",
              [db EXCEPT !.msg[a.i].mentions = @ \union Names[a.body]], Names[a.body] # {})

\* createChatPhotoShare and the row that attaches its link.  An upload that is
\* not the poster's, not finished or not a picture is refused, and everything
\* since BEGIN with it.
PostPhoto(t) ==
    LET a == arg[t] IN
    /\ At(t, "post_photo")
    /\ \/ Statement(t, "post_photo", "post_read",
                    [db EXCEPT !.msg[a.i].photo = TRUE, !.link[a.i] = TRUE], TRUE)
       \/ Throw(t, "post_photo")

\* Mutant: the marker goes to what was just read or posted, wherever it was.
ReadUpToAnyhow(u, i) == [db EXCEPT !.read[u] = i]

\* UPDATE room_members SET last_read_id ... AND last_read_id < ?
ReadUpTo(u, i) == [db EXCEPT !.read[u] = IF @ < i THEN i ELSE @]

PostRead(t) ==
    LET a == arg[t] IN
    Statement(t, "post_read", "post_commit", ReadUpTo(a.u, a.i), db.read[a.u] < a.i)

PostCommit(t) == CommitAt(t, "post_commit")

\* POST .../read, up to a message the client was shown.
MarkRead(t, u, i) ==
    /\ db.msg[i].st # "none"
    /\ Request(t, ReadUpTo(u, i), db.read[u] < i)

-----------------------------------------------------------------------------
(* PATCH /api/chat/messages/{id}: the author's alone *)

Edit(t, u, i, body) ==
    /\ Live(i) /\ db.msg[i].author = u
    /\ body = NoText => db.msg[i].photo
    /\ Load(t, "edit_begin", [i |-> i, body |-> body])

EditBegin(t) == BeginAt(t, "edit_begin", "edit_update")

\* Mutant: without AND deleted_at IS NULL.
EditUpdateAny(t) ==
    LET a == arg[t] IN
    Update(t, "edit_update", "edit_clear", a.i, TRUE, [db.msg[a.i] EXCEPT !.body = a.body])

\* UPDATE messages SET body ... AND deleted_at IS NULL
EditUpdate(t) ==
    LET a == arg[t] IN
    Update(t, "edit_update", "edit_clear", a.i, Live(a.i), [db.msg[a.i] EXCEPT !.body = a.body])

\* The mentions are rewritten whether or not the UPDATE found the message.
EditClear(t) ==
    LET i == arg[t].i IN
    Update(t, "edit_clear", "edit_mentions", i, db.msg[i].mentions # {},
           [db.msg[i] EXCEPT !.mentions = {}])

\* recordMentions; a message whose INSERT was undone fails the foreign key.
EditMentions(t) ==
    LET a == arg[t] IN
    /\ At(t, "edit_mentions")
    /\ IF Gone(a.i) /\ Names[a.body] # {}
       THEN Throw(t, "edit_mentions")
       ELSE Update(t, "edit_mentions", "edit_commit", a.i, Names[a.body] # {},
                   [db.msg[a.i] EXCEPT !.mentions = @ \union Names[a.body]])

EditCommit(t) == CommitAt(t, "edit_commit")

-----------------------------------------------------------------------------
(* DELETE /api/chat/messages/{id}: removal erases *)

Remove(t, u, i) ==
    /\ Live(i) /\ (db.msg[i].author = u \/ u \in Admins)
    /\ Load(t, "remove_begin", [i |-> i])

RemoveBegin(t) == BeginAt(t, "remove_begin", "remove_update")

RemoveUpdate(t) ==
    LET i == arg[t].i IN
    Update(t, "remove_update", "remove_changes", i, Live(i),
           [db.msg[i] EXCEPT !.st = "removed", !.body = NoText, !.pinned = FALSE])

\* changes() == 0: somebody else removed it first, 404.
RemoveChanges(t) ==
    /\ At(t, "remove_changes")
    /\ IF chg THEN Query /\ Goto(t, "remove_mentions") ELSE Throw(t, "remove_changes")

RemoveMentions(t) ==
    LET i == arg[t].i IN
    Update(t, "remove_mentions", "remove_photo", i, db.msg[i].mentions # {},
           [db.msg[i] EXCEPT !.mentions = {}])

\* Mutant: the rows that say which link it was are deleted first.
RemovePhotoLate(t) ==
    LET i == arg[t].i IN
    Update(t, "remove_photo", "remove_links", i, db.msg[i].photo, [db.msg[i] EXCEPT !.photo = FALSE])

\* The link made for its photos is revoked, while message_shares still tells
\* which that is.
RemovePhoto(t) ==
    LET i == arg[t].i
        hit == db.msg[i].photo /\ db.link[i] IN
    Statement(t, "remove_photo", "remove_links", IF hit THEN [db EXCEPT !.link[i] = FALSE] ELSE db, hit)

RemoveLinks(t) ==
    LET i == arg[t].i IN
    Update(t, "remove_links", "remove_reactions", i, db.msg[i].photo,
           [db.msg[i] EXCEPT !.photo = FALSE])

\* Mutant: the reactions stay.
RemoveNoReactions(t) == Statement(t, "remove_reactions", "remove_commit", db, FALSE)

RemoveReactions(t) ==
    LET i == arg[t].i IN
    Update(t, "remove_reactions", "remove_commit", i, db.msg[i].reactions # {},
           [db.msg[i] EXCEPT !.reactions = {}])

RemoveCommit(t) == CommitAt(t, "remove_commit")

\* POST /api/chat/messages/{id}/clear, an administrator's, one statement.
Clear(t, i) ==
    /\ db.msg[i].st = "removed" /\ ~db.msg[i].cleared
    /\ Request(t, [db EXCEPT !.msg[i].cleared = TRUE], TRUE)

-----------------------------------------------------------------------------
(* Reactions and pins: liveMessageIn is asked first, and not again *)

React(t, u, i, on) == Live(i) /\ Load(t, "react_begin", [i |-> i, u |-> u, on |-> on])

ReactBegin(t) == BeginAt(t, "react_begin", "react_write")

\* INSERT ... ON CONFLICT DO NOTHING, which needs the message, or DELETE
ReactWrite(t) ==
    LET a == arg[t]
        was == db.msg[a.i].reactions
        now == IF a.on THEN was \union {a.u} ELSE was \ {a.u} IN
    /\ At(t, "react_write")
    /\ IF a.on /\ Gone(a.i)
       THEN Throw(t, "react_write")
       ELSE Update(t, "react_write", "react_touch", a.i, now # was,
                   [db.msg[a.i] EXCEPT !.reactions = now])

\* UPDATE messages SET updated_at
ReactTouch(t) == Statement(t, "react_touch", "react_commit", db, ~Gone(arg[t].i))

ReactCommit(t) == CommitAt(t, "react_commit")

Pinned(d) == {i \in Id : d.msg[i].pinned}

Pin(t, i) == Live(i) /\ Load(t, "pin_count", [i |-> i])

\* SELECT COUNT(*) ... pinned_at IS NOT NULL; at the limit, 409.
PinCount(t) ==
    /\ At(t, "pin_count") /\ Query
    /\ IF Cardinality(Pinned(db)) >= MaxPins THEN Return(t) ELSE Goto(t, "pin_update")

\* UPDATE ... WHERE pinned_at IS NULL; it does not ask for deleted_at.
PinUpdate(t) ==
    LET i == arg[t].i
        hit == ~db.msg[i].pinned /\ ~Gone(i) IN
    Finish(t, "pin_update", IF hit THEN [db EXCEPT !.msg[i].pinned = TRUE] ELSE db, hit)

Unpin(t, i) == Live(i) /\ Load(t, "unpin", [i |-> i])

UnpinUpdate(t) ==
    LET i == arg[t].i IN Finish(t, "unpin", [db EXCEPT !.msg[i].pinned = FALSE], ~Gone(i))

-----------------------------------------------------------------------------
Refused(t) ==
    /\ pc[t] \in {"post_begin", "edit_begin", "remove_begin", "react_begin"}
    /\ BeginRefused(t)

Requests(t) ==
    \/ \E u \in User, body \in Text \union {NoText}, photo \in BOOLEAN : Post(t, u, body, photo)
    \/ \E i \in Id :
          \/ Clear(t, i) \/ Pin(t, i) \/ Unpin(t, i)
          \/ \E u \in User :
                \/ Remove(t, u, i) \/ MarkRead(t, u, i)
                \/ \E on \in BOOLEAN : React(t, u, i, on)
                \/ \E body \in Text \union {NoText} : Edit(t, u, i, body)

Steps(t) ==
    \/ PostBegin(t) \/ PostInsert(t) \/ PostMentions(t) \/ PostPhoto(t) \/ PostRead(t)
    \/ PostCommit(t)
    \/ EditBegin(t) \/ EditUpdate(t) \/ EditClear(t) \/ EditMentions(t) \/ EditCommit(t)
    \/ RemoveBegin(t) \/ RemoveUpdate(t) \/ RemoveChanges(t) \/ RemoveMentions(t)
    \/ RemovePhoto(t) \/ RemoveLinks(t) \/ RemoveReactions(t) \/ RemoveCommit(t)
    \/ ReactBegin(t) \/ ReactWrite(t) \/ ReactTouch(t) \/ ReactCommit(t)
    \/ PinCount(t) \/ PinUpdate(t) \/ UnpinUpdate(t)
    \/ Refused(t)

Next ==
    \/ \E t \in Workers : /\ Requests(t) \/ Steps(t)
                          /\ overlapped' = (overlapped \/ ~Alone(t))
    \/ Restart /\ UNCHANGED overlapped

Spec == Init /\ [][Next]_vars

-----------------------------------------------------------------------------
(* Properties, of requests that overlap unless said otherwise *)

\* "Its text is overwritten": a removed message has no text and carries no
\* photo in what is committed, whatever edit was on its way meanwhile.
RemovedIsErased ==
    \A i \in Id : durable.msg[i].st = "removed" =>
        durable.msg[i].body = NoText /\ ~durable.msg[i].photo

\* "Photos posted with it were made for it": the link of a photo works just
\* as long as the message that carries it.
PhotoLinkFollows ==
    \A i \in Id : durable.link[i] <=> durable.msg[i].st = "live" /\ durable.msg[i].photo

\* "What people made of it - reactions, a pin - has nothing left to be about":
\* nothing refers to a removed message, as long as requests came one by one.
RemovedKeepsNothing ==
    ~overlapped => \A i \in Id : durable.msg[i].st = "removed" =>
        /\ durable.msg[i].reactions = {} /\ durable.msg[i].mentions = {}
        /\ ~durable.msg[i].pinned

\* "Never moves backwards: two tabs open at different scroll positions would
\* otherwise keep resurrecting an unread count."
ReadNeverBack == [][\A u \in User : durable'.read[u] >= durable.read[u]]_vars

=============================================================================
