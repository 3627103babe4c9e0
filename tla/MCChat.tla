--------------------------------- MODULE MCChat ---------------------------------
(***************************************************************************)
(* Small instances for TLC of what is said in a room (Messages) and of how *)
(* a client hears of it (Feed).  They share no state, so a behaviour is of *)
(* one or of the other.                                                    *)
(***************************************************************************)
EXTENDS Messages, Feed, TLC

CONSTANTS a1, y

VARIABLE focus

MCNames == [body \in Text \union {NoText} |-> IF body = y THEN {a1} ELSE {}]

ChatInit == Init /\ FeedInit /\ focus \in {"server", "client"}

ServerNext == focus = "server" /\ Next /\ UNCHANGED <<feedVars, focus>>
ClientNext == focus = "client" /\ FeedNext /\ UNCHANGED <<vars, focus>>

ChatNext == ServerNext \/ ClientNext

chat == <<vars, feedVars, focus>>

ChatSpec ==
    /\ ChatInit /\ [][ChatNext]_chat
    /\ \A p \in Poll : WF_chat(ClientNext /\ Advance(p))

\* Bound: requests overlap over one message; over two, which carry nothing
\* but a text and pins, they come one by one.
Plain(row) == row.reactions = {} /\ ~row.photo /\ ~row.cleared
Bounded == db.msg[2] # NoRow \/ durable.msg[2] # NoRow =>
               ~overlapped /\ Plain(db.msg[1]) /\ Plain(db.msg[2])

\* Bound: of three messages none answers another or is changed; pages that
\* leave a gap need three.
Unchanging == \A i \in 1..(MaxSaid - 1) : said[i].at = 0 /\ said[i].reply = 0
Short == said[MaxSaid] # Absent => Unchanging /\ said[MaxSaid].reply = 0

=============================================================================
