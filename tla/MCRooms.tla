-------------------------------- MODULE MCRooms ---------------------------------
(***************************************************************************)
(* A small instance of Rooms for TLC: an administrator, another member,    *)
(* one room, two links of the administrator's.                             *)
(***************************************************************************)
EXTENDS Rooms, TLC

CONSTANT a1

MCOwner == [s \in Share |-> a1]

\* Bound: a room's photos and the inbox share no table, so they are explored
\* one beside the other, never together.
Apart == db.photos = {} \/ \A s \in Share, u \in User : db.box[s][u] = NoItem

Interchangeable == Permutations(Batch) \union Permutations(Share)

=============================================================================
