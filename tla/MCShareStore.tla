------------------------------ MODULE MCShareStore ------------------------------
(***************************************************************************)
(* Small instances of ShareStore for TLC.  Every upload has the same       *)
(* bytes: one blob that several uploads and links share is where the       *)
(* deduplication, the counting and the collecting meet.                    *)
(***************************************************************************)
EXTENDS ShareStore, TLC

SameContent == [u \in Upload |-> CHOOSE h \in Hash : TRUE]

\* With equal contents uploads are interchangeable, as are links and workers.
Interchangeable ==
    Permutations(Workers) \union Permutations(Upload) \union Permutations(Share)

\* chg matters from a write until the changes() that reads it, which comes
\* next in the writer's handler; acked matters to RevokedStaysRevoked only.
ChangesAwaited ==
    \E t \in Threads : pc[t] \in {"orphan_changes", "revoke_changes", "collect_changes"}
View == <<db, durable, owner, ChangesAwaited /\ chg, pc, arg, work, disk, clock>>

=============================================================================
