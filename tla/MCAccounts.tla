------------------------------- MODULE MCAccounts -------------------------------
(***************************************************************************)
(* Small instances for TLC of accounts and sessions (Accounts), of the     *)
(* throttle that guards their passwords and those of links (Throttle), and *)
(* of what accounts keep (Storage).  A behaviour is of one of them: to the *)
(* throttle and the store, an account is a name.  Accounts, names and      *)
(* session tokens are interchangeable.                                     *)
(***************************************************************************)
EXTENDS Accounts, Throttle, Storage, TLC

CONSTANT h1

VARIABLE focus

MCSize == [h \in Hash |-> IF h = h1 THEN 1 ELSE 2]

AccountsNext ==
    focus = "accounts" /\ Next /\ UNCHANGED <<throttleVars, storageVars, focus>>
GuessNext == focus = "throttle" /\ ThrottleNext /\ UNCHANGED <<vars, storageVars, focus>>
KeepNext  == focus = "storage" /\ StorageNext /\ UNCHANGED <<vars, throttleVars, focus>>

MCInit ==
    /\ Init /\ ThrottleInit /\ StorageInit /\ focus \in {"accounts", "throttle", "storage"}
    /\ focus # "storage" => \A u \in Member : limit[u] = NoLimit

MCSpec ==
    MCInit /\ [][AccountsNext \/ GuessNext \/ KeepNext]_<<vars, throttleVars, storageVars, focus>>

Interchangeable ==
    UNION {Permutations(S) : S \in {User, Name, Token}}

=============================================================================
