------------------------------- MODULE MCGorm -------------------------------
(***************************************************************************)
(* Small instances of Gorm for TLC.  A run starts from the empty tables,   *)
(* from tables in which every kind of row occurs, with or without the      *)
(* credentials, written at time 1, from a user and a namespace alone, or   *)
(* while the owner of a key sets a password.                               *)
(***************************************************************************)
EXTENDS Gorm, TLC

CONSTANTS taken, tagged, password, key, prefix, suffix, full

OneFormat == {PIDs}

FilledRow(row, credentials) ==
    CASE row[1] = "users"             -> [superuser |-> TRUE]
      [] row[1] = "user_passwords"    ->
             IF credentials THEN PasswordHash(password) ELSE None
      [] row[1] = "user_api_keys"     ->
             IF credentials /\ row[3] = key
             THEN [prefix |-> prefix, digest |-> Digest(suffix), expiresAt |-> None,
                   scopes |-> full]
             ELSE None
      [] row[1] = "user_mount_grants" -> "granted"
      [] row[1] = "namespaces"        -> [pidFormat |-> PIDs, dateCreated |-> 1, dateUpdated |-> 1]
      [] row[1] = "namespace_tags"    -> tagged
      [] row[1] = "namespace_roles"   -> "editor"
      [] row[1] = "mounts"            -> CHOOSE n \in NamespaceIDs : TRUE
      [] row[1] = "resources"         ->
             IF row[3] = taken
             THEN [content |-> tagged, deleted |-> FALSE, dateCreated |-> 1, dateUpdated |-> 1]
             ELSE None
      [] row[1] = "resource_tags"     -> IF row[3] = taken THEN tagged ELSE None

Filled ==
    /\ \E credentials \in BOOLEAN : db = [row \in Rows |-> FilledRow(row, credentials)]
    /\ SessionsInit

\* Only a user and a namespace are stored.
Bare ==
    /\ db = [row \in Rows |-> IF row[1] \in {"users", "namespaces"}
                             THEN FilledRow(row, FALSE) ELSE None]
    /\ SessionsInit

\* Only a user with a key is stored, and SetPassword has found the user.
Midway ==
    /\ db = [row \in Rows |-> IF row[1] \in {"users", "user_api_keys"}
                             THEN FilledRow(row, TRUE) ELSE None]
    /\ \E u \in Usernames, t \in Sessions :
           /\ op = [s \in Sessions |->
                      IF s = t THEN [kind |-> "SetPassword", user |-> u, password |-> password]
                      ELSE None]
           /\ at = [s \in Sessions |-> IF s = t THEN 2 ELSE 1]
    /\ IdleSessions

MCInit == GormInit \/ Filled \/ Bare \/ Midway
MCSpec == MCInit /\ [][GormNext]_gormVars

SessionSymmetry == Permutations(Sessions)
=============================================================================
