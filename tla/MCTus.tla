--------------------------------- MODULE MCTus ---------------------------------
(***************************************************************************)
(* A small instance of Tus for TLC.                                        *)
(***************************************************************************)
EXTENDS Tus, TLC

=============================================================================
