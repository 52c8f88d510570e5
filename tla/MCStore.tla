------------------------------ MODULE MCStore ------------------------------
(* Small instances of Store for TLC. *)
EXTENDS Store, TLC

\* One format, which accepts every PID.
OneFormat == {PIDs}

StoreSymmetry ==
    Permutations(Usernames) \cup Permutations(KeyIDs) \cup Permutations(PIDs)
=============================================================================
