----------------------------- MODULE MCRequests -----------------------------
(***************************************************************************)
(* Small instances of Requests for TLC.  A run does not start from an      *)
(* empty store, where every request is refused, but from one that root, a  *)
(* superuser, has filled: alice has an account; both have a password and a *)
(* key, the one of root being restricted and expiring.  Alice is an editor *)
(* of home, where a resource is deleted, nothing in away, and is granted   *)
(* mounts.  Others may take any of this back.                              *)
(***************************************************************************)
EXTENDS Requests, TLC

CONSTANTS
    root, alice, home, away, key, old, new, prefix, pid, base,
    pattern, password, content

AllPIDs == {PIDs, {}}
AllCovered == [p \in Patterns |-> BaseURIs]

\* A key without restrictions, and one for two user and two namespace scopes.
Full == [user |-> {}, ns |-> {}]
Narrow == [user |-> {"listOwnKeys", "listUsers"},
           ns   |-> {<<home, "getResource">>, <<home, "updateResource">>}]
SomeScopes == {Full, Narrow}

Key(suffix, expiresAt, scopes) ==
    [prefix |-> prefix, digest |-> Digest(suffix), expiresAt |-> expiresAt,
     scopes |-> scopes]

Account(superuser, k) ==
    [superuser |-> superuser, passwordHash |-> PasswordHash(password),
     keys |-> [NoKeys EXCEPT ![key] = k]]

FilledStore ==
    /\ users = (root  :> Account(TRUE, Key(old, 2, Narrow)) @@
                alice :> Account(FALSE, Key(new, None, Full)))
    /\ namespaces = (home :> [pidFormat |-> PIDs, tags |-> content,
                              dateCreated |-> 1, dateUpdated |-> 1] @@
                     away :> [pidFormat |-> {}, tags |-> content,
                              dateCreated |-> 1, dateUpdated |-> 1])
    /\ resources = (home :> [p \in PIDs |->
                               [content |-> content, deleted |-> TRUE,
                                dateCreated |-> 1, dateUpdated |-> 1]] @@
                    away :> NoResources)
    /\ roles = (home :> (root :> "none" @@ alice :> "editor") @@
                away :> (root :> "manager" @@ alice :> "none"))
    /\ mounts = [b \in BaseURIs |-> home]
    /\ mountGrants = (root :> {} @@ alice :> Patterns)

MCInit == FilledStore /\ RequestsInit
MCSpec == MCInit /\ [][RequestsNext]_allVars

FairMCSpec == MCSpec /\ RequestsFairness

AllOffered == AllRoutes \cup {Documentation}
KeyOffer == {"issueUserKey"}
DocumentationOffer == {Documentation}
=============================================================================
