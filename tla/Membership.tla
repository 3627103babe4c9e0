------------------------------- MODULE Membership -------------------------------
(***************************************************************************)
(* What rooms and blocks promise, said of committed tables only: who is in *)
(* a room, who has been asked, and whom a member will not hear from.       *)
(* Nobody is in a room they neither made nor accepted an invitation to;    *)
(* having left it, been removed or declined, they come back by a new       *)
(* invitation only; and no invitation reaches past a standing block.       *)
(* Each step is one atomic answer to a person.                             *)
(***************************************************************************)
CONSTANTS Room, User

VARIABLES
    rel,      \* each user's relation to each room
    blocks    \* <<u, x>>: u does not want to hear of x, a room or a person

mvars == <<rel, blocks>>

Relations == {"out", "asked", "in"}
Become(r, u, x) == rel' = [rel EXCEPT ![r][u] = x]

Init ==
    /\ rel = [r \in Room |-> [u \in User |-> "out"]]
    /\ blocks = {}

Empty(r) == \A u \in User : rel[r][u] = "out"

Create(r, u) == Empty(r) /\ Become(r, u, "in") /\ UNCHANGED blocks

Invite(r, by, u) ==
    /\ rel[r][u] = "out" /\ <<u, r>> \notin blocks /\ <<u, by>> \notin blocks
    /\ Become(r, u, "asked") /\ UNCHANGED blocks

Accept(r, u) == rel[r][u] = "asked" /\ Become(r, u, "in") /\ UNCHANGED blocks

\* Declining may add one block, in the same moment.
Decline(r, u) ==
    /\ rel[r][u] = "asked" /\ Become(r, u, "out")
    /\ blocks' \in {blocks} \union {blocks \union {<<u, x>>} : x \in User \union {r}}

\* Leaving, being removed, having an invitation withdrawn.
Drop(r, u) == rel[r][u] # "out" /\ Become(r, u, "out") /\ UNCHANGED blocks

Unblock(u, x) == <<u, x>> \in blocks /\ blocks' = blocks \ {<<u, x>>} /\ UNCHANGED rel

\* What is gone is out of everything, and in nobody's blocks.
Without(x) == {b \in blocks : b[1] # x /\ b[2] # x}
RoomGone(r) == rel' = [rel EXCEPT ![r] = [u \in User |-> "out"]] /\ blocks' = Without(r)
UserGone(u) == rel' = [r \in Room |-> [rel[r] EXCEPT ![u] = "out"]] /\ blocks' = Without(u)

Next ==
    \/ \E r \in Room, u \in User :
          \/ Create(r, u) \/ Accept(r, u) \/ Decline(r, u) \/ Drop(r, u)
          \/ \E by \in User : Invite(r, by, u)
    \/ \E u \in User, x \in User \union Room : Unblock(u, x)
    \/ \E r \in Room : RoomGone(r)
    \/ \E u \in User : UserGone(u)

Spec == Init /\ [][Next]_mvars

=============================================================================
