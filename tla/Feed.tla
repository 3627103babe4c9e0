---------------------------------- MODULE Feed ----------------------------------
(***************************************************************************)
(* How a member with a room open hears of what is said in it: the polling  *)
(* GET of chat.cc against #pollMessages of web/src/lib/chat.svelte.ts.     *)
(* Writes are one step each here, Messages has their statements; what a    *)
(* message shows (text, pin, reactions) is one value of Body.  Several     *)
(* polls can be on their way at once (the timer's, and those after sending *)
(* and editing): they may be delayed and overtake each other, and one that *)
(* fails changes nothing, like one delayed for good.                       *)
(***************************************************************************)
EXTENDS Naturals, FiniteSets

CONSTANTS
    Poll,        \* polls the client may have under way at once
    Body,        \* what a message may show
    MaxSaid,     \* bound: messages.id
    MaxTime,     \* bound: nowSeconds()
    Page         \* kMaxMessagesPerFetch and kMaxChangedPerFetch

ASSUME FeedBounds == MaxSaid \in Nat /\ MaxTime \in Nat \ {0} /\ Page \in Nat \ {0}
ASSUME BodiesApart == "none" \notin Body /\ "removed" \notin Body

VARIABLES
    said,      \* the room's messages, as committed
    now,       \* nowSeconds()
    poll,      \* each poll's request or response on its way
    held,      \* messages: the copies on screen
    cursor,    \* #cursor
    since,     \* #changedSince
    lapse      \* history: see Lapses

feedVars == <<said, now, poll, held, cursor, since, lapse>>

Msg    == 1..MaxSaid
Shows  == Body \union {"removed"}
Absent == [shows |-> "none", at |-> 0, reply |-> 0]       \* at: updated_at, 0 for NULL
NoCopy == [shows |-> "none", quote |-> "none"]
NoPoll == [st |-> "idle"]

Exists(i) == said[i] # Absent

\* The row builder, collect(): what a message shows, and for a reply what the
\* message it answers shows now.
Copy(i) ==
    LET quotes == said[i].reply # 0 /\ said[i].shows # "removed" IN
    [shows |-> said[i].shows, quote |-> IF quotes THEN said[said[i].reply].shows ELSE "none"]

FeedInit ==
    /\ said = [i \in Msg |-> Absent] /\ now = 1
    /\ poll = [p \in Poll |-> NoPoll]
    /\ held = [i \in Msg |-> NoCopy] /\ cursor = 0 /\ since = 0 /\ lapse = FALSE

\* Lapses: responses the client cannot make up for.  One was merged into what
\* is held that its LIMIT had cut; or a second first load, which says nothing
\* of what changed between the two; or a page that was asked for when nothing
\* was held, under a newer page with a gap between them; or one arrived that an
\* answer of a later second had overtaken, and turned the clock back under a
\* poll already sent.

client == <<held, cursor, since, lapse>>

-----------------------------------------------------------------------------
(* The room *)

Tick == now < MaxTime /\ now' = now + 1 /\ UNCHANGED <<said, poll, client>>

Write(i, row) ==
    said' = [said EXCEPT ![i] = row] /\ UNCHANGED <<now, poll, client>>

\* A message may answer one that is still there.
Say(i, b, parent) ==
    /\ ~Exists(i) /\ \A j \in 1..(i - 1) : Exists(j)
    /\ parent # 0 => Exists(parent) /\ said[parent].shows # "removed"
    /\ Write(i, [shows |-> b, at |-> 0, reply |-> parent])

\* Mutant: the stamp is forgotten.
ChangeUnstamped(i, s) ==
    /\ Exists(i) /\ said[i].shows \notin {"removed", s}
    /\ Write(i, [said[i] EXCEPT !.shows = s])

\* An edit, a removal, a reaction or a pin sets updated_at to now.
Change(i, s) ==
    /\ Exists(i) /\ said[i].shows \notin {"removed", s}
    /\ Write(i, [said[i] EXCEPT !.shows = s, !.at = now])

-----------------------------------------------------------------------------
(* A poll *)

\* The request carries the client's cursor and its last `now`.
Ask(p) ==
    /\ poll[p] = NoPoll
    /\ poll' = [poll EXCEPT ![p] = [st |-> "ask", from |-> cursor, changed |-> since]]
    /\ UNCHANGED <<said, now, client>>

\* ORDER BY id DESC LIMIT: the newest of them.
Newest(ids) == {i \in ids : Cardinality({j \in ids : j > i}) < Page}
New(q)      == {i \in Msg : Exists(i) /\ i > q.from}

\* Mutant: what changed in the second of the last poll was shown then.
ChangedAfter(q) == {i \in Msg : Exists(i) /\ q.changed > 0 /\ said[i].at > q.changed}

Changed(q)  == {i \in Msg : Exists(i) /\ q.changed > 0 /\ said[i].at >= q.changed}

\* The response; its clock is read before its rows are.
Answer(p) ==
    LET q == poll[p] IN
    /\ q.st = "ask"
    /\ poll' = [poll EXCEPT ![p] =
          [st |-> "reply", from |-> q.from, first |-> q.changed = 0, now |-> now,
           new     |-> [i \in Newest(New(q)) |-> Copy(i)],
           changed |-> [i \in Newest(Changed(q)) |-> Copy(i)],
           cut     |-> Newest(New(q)) # New(q) \/ Newest(Changed(q)) # Changed(q)]]
    /\ UNCHANGED <<said, now, client>>

\* A reply that does not match what the client holds by now: see Lapses.
Unmatched(r) ==
    cursor # 0 /\ (r.cut \/ r.first \/ (r.from = 0 /\ held[1] = NoCopy))

Highest(ids) == CHOOSE i \in ids : \A j \in ids : j <= i

\* What the client holds once the reply's new messages are merged in.
Merged(r) ==
    [i \in Msg |->
        IF i \in DOMAIN r.new /\ (cursor = 0 \/ held[i] = NoCopy) THEN r.new[i]
        ELSE IF cursor = 0 THEN NoCopy ELSE held[i]]

\* #pollMessages after its await: messages held are not replaced by new ones,
\* they are by changed ones.
Apply(p) ==
    LET r == poll[p] IN
    /\ r.st = "reply"
    /\ held' = [i \in Msg |->
                  IF i \in DOMAIN r.changed /\ Merged(r)[i] # NoCopy
                  THEN r.changed[i] ELSE Merged(r)[i]]
    /\ cursor' = Highest({cursor} \union DOMAIN r.new)
    /\ since' = r.now
    /\ lapse' = (lapse \/ Unmatched(r) \/ r.now < since)
    /\ poll' = [poll EXCEPT ![p] = NoPoll]
    /\ UNCHANGED <<said, now>>

-----------------------------------------------------------------------------
Advance(p) == Ask(p) \/ Answer(p) \/ Apply(p)

FeedNext ==
    \/ Tick
    \/ \E i \in Msg, b \in Body, parent \in Msg \union {0} : Say(i, b, parent)
    \/ \E i \in Msg, s \in Shows : Change(i, s)
    \/ \E p \in Poll : Advance(p)

\* A room that is open is polled every two seconds, and the server answers.
FeedFairness == \A p \in Poll : WF_feedVars(Advance(p))

FeedSpec == FeedInit /\ [][FeedNext]_feedVars /\ FeedFairness

-----------------------------------------------------------------------------
\* A copy that differs from the message will come again with the next poll.
WillHear(i) == said[i].at >= since

\* "A client that passes it back as `changed` misses nothing", of what a
\* message itself shows: a stale copy is due again, however polls overtook
\* each other, and no message between those held is missing.
NothingMissed ==
    ~lapse => \A i \in Msg : Exists(i) =>
        /\ held[i] # NoCopy /\ held[i].shows # said[i].shows => WillHear(i)
        /\ held[i] = NoCopy => i > cursor \/ \A j \in Msg : held[j] # NoCopy => j > i

\* The same sentence of everything a response contains, the quote in a reply
\* included.
NothingMissedInQuotes ==
    ~lapse => \A i \in Msg : held[i] # NoCopy /\ held[i] # Copy(i) => WillHear(i)

Shown == \A i \in Msg : Exists(i) /\ cursor # 0 =>
            held[i].shows = said[i].shows \/ \A j \in Msg : held[j] # NoCopy => j > i

\* When the room falls silent, what is on screen becomes what was said.
CatchesUp == <>[][FALSE]_said => <>[](lapse \/ Shown)

=============================================================================
