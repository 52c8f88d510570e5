------------------------------- MODULE Store -------------------------------
(***************************************************************************)
(* The storage contract of quickpid as backend/memory implements it: the   *)
(* maps behind one mutex and the operations of backend.Backend that write  *)
(* them.  Every operation holds mu from its first check to its last write, *)
(* so each one is a single step.  The sentinel error an operation returns  *)
(* is the value of an operator <Op>Err; an operation that returns an error *)
(* leaves the store alone and is a stuttering step here.                   *)
(*                                                                         *)
(* Abstractions.  None is the absent map entry and the nil pointer.  The   *)
(* optional URL, tags and metadata of a resource are treated alike by the  *)
(* code and are one value of Contents; the tags of a namespace likewise.   *)
(* A PID format is the set of PIDs it accepts.  Times are the readings of  *)
(* the injected clock, which need not be monotonic; a resource keeps them  *)
(* to the second, and nothing here compares them.                          *)
(***************************************************************************)
EXTENDS Naturals, Sequences, FiniteSets

CONSTANTS
    Usernames, NamespaceIDs, PIDs, BaseURIs,
    Patterns,            \* mount grant patterns
    KeyIDs,              \* public ids of API keys
    Prefixes, Suffixes,  \* the two parts of a raw API key
    KeyScopes,           \* what an API key may be restricted to
    Passwords, Times, Contents,
    Formats,             \* PID formats, each a set of PIDs
    MaxBatch,            \* bound: longest batch of resources TLC tries
    None

ASSUME StoreAssumption ==
    /\ MaxBatch \in Nat
    /\ Formats \subseteq SUBSET PIDs
    /\ None \notin NamespaceIDs \cup Usernames \cup Passwords \cup Contents
    /\ None \notin BOOLEAN

VARIABLES users, namespaces, resources, roles, mounts, mountGrants

vars == <<users, namespaces, resources, roles, mounts, mountGrants>>

-----------------------------------------------------------------------------
(* Records kept in the maps. *)

Roles == {"none", "contributor", "editor", "manager"}

RawKeys == Prefixes \X Suffixes

\* apikey.Format.Hash: the prefix stays in clear, only the rest is digested.
Digest(suffix) == [sha256 |-> suffix]
Hash(raw) == [prefix |-> raw[1], digest |-> Digest(raw[2])]
Verify(raw, stored) ==
    raw[1] = stored.prefix /\ Digest(raw[2]) = stored.digest

\* password.Hash: what is kept of a password.
PasswordHash(password) == [bcrypt |-> password]

Optional(S) == S \cup {None}

KeyRecord ==
    [prefix    : Prefixes,
     digest    : [sha256 : Suffixes],
     expiresAt : Optional(Times),
     scopes    : KeyScopes]

UserRecord ==
    [superuser    : BOOLEAN,
     passwordHash : Optional([bcrypt : Passwords]),
     keys         : [KeyIDs -> Optional(KeyRecord)]]

NamespaceRecord ==
    [pidFormat   : Formats,
     tags        : Contents,
     dateCreated : Times,
     dateUpdated : Times]

ResourceRecord ==
    [content     : Contents,
     deleted     : BOOLEAN,
     dateCreated : Times,
     dateUpdated : Times]

\* An absent entry is told apart from every record.
ASSUME NoneIsNoRecord ==
    /\ None \notin KeyRecord
    /\ None \notin UserRecord
    /\ None \notin NamespaceRecord
    /\ None \notin ResourceRecord

\* The six maps of the backend hold records of their kind or nothing.
TypeOK ==
    /\ users \in [Usernames -> Optional(UserRecord)]
    /\ namespaces \in [NamespaceIDs -> Optional(NamespaceRecord)]
    /\ resources \in [NamespaceIDs -> [PIDs -> Optional(ResourceRecord)]]
    /\ roles \in [NamespaceIDs -> [Usernames -> Roles]]
    /\ mounts \in [BaseURIs -> Optional(NamespaceIDs)]
    /\ mountGrants \in [Usernames -> SUBSET Patterns]

NoKeys == [k \in KeyIDs |-> None]
NoResources == [p \in PIDs |-> None]

Init ==
    /\ users = [u \in Usernames |-> None]
    /\ namespaces = [n \in NamespaceIDs |-> None]
    /\ resources = [n \in NamespaceIDs |-> NoResources]
    /\ roles = [n \in NamespaceIDs |-> [u \in Usernames |-> "none"]]
    /\ mounts = [b \in BaseURIs |-> None]
    /\ mountGrants = [u \in Usernames |-> {}]

UserExists(u) == users[u] # None
NamespaceExists(n) == namespaces[n] # None

-----------------------------------------------------------------------------
(* Users: backend/memory/memory_user.go *)

CreateUserErr(u) == IF UserExists(u) THEN "ErrDuplicateUsername" ELSE "nil"

CreateUser(u, superuser) ==
    /\ CreateUserErr(u) = "nil"
    /\ users' = [users EXCEPT ![u] = [superuser    |-> superuser,
                                      passwordHash |-> None,
                                      keys         |-> NoKeys]]
    /\ UNCHANGED <<namespaces, resources, roles, mounts, mountGrants>>

UserErr(u) == IF UserExists(u) THEN "nil" ELSE "ErrUserNotFound"

\* Mutant of GrantsWithout: the grants of a deleted user stay behind.
KeepGrants(u) == mountGrants

\* The grants that survive the deletion of u.
GrantsWithout(u) == [mountGrants EXCEPT ![u] = {}]

\* Deleting a user drops its record (keys and password with it), every role
\* it holds in any namespace, and its mount grants.
DeleteUser(u) ==
    /\ UserErr(u) = "nil"
    /\ users' = [users EXCEPT ![u] = None]
    /\ roles' = [n \in NamespaceIDs |-> [roles[n] EXCEPT ![u] = "none"]]
    /\ mountGrants' = GrantsWithout(u)
    /\ UNCHANGED <<namespaces, resources, mounts>>

\* Mutant of UpdatedSuperuser: an absent field is written as nil.
UpdatedSuperuserNil(old, superuser) == superuser

\* superuser = None is a request without that field.
UpdatedSuperuser(old, superuser) == IF superuser = None THEN old ELSE superuser

UpdateUser(u, superuser) ==
    /\ UserErr(u) = "nil"
    /\ users' = [users EXCEPT ![u].superuser = UpdatedSuperuser(@, superuser)]
    /\ UNCHANGED <<namespaces, resources, roles, mounts, mountGrants>>

-----------------------------------------------------------------------------
(* Credentials: backend/memory/memory_credentials.go *)

\* password = None unsets the password.
SetPassword(u, password) ==
    /\ UserErr(u) = "nil"
    /\ users' = [users EXCEPT ![u].passwordHash =
                     IF password = None THEN None ELSE PasswordHash(password)]
    /\ UNCHANGED <<namespaces, resources, roles, mounts, mountGrants>>

CheckPassword(u, candidate) ==
    UserExists(u) /\ users[u].passwordHash = PasswordHash(candidate)

KeyAt(u, k) == IF UserExists(u) THEN users[u].keys[k] ELSE None

\* Mutant of SecretTaken: only the user's own keys are compared.
SecretTakenByOwner(u, stored) ==
    \E k \in KeyIDs :
        /\ KeyAt(u, k) # None
        /\ KeyAt(u, k).prefix = stored.prefix
        /\ KeyAt(u, k).digest = stored.digest

\* Some user, not only u, has a key with this prefix and digest.
SecretTaken(u, stored) ==
    \E w \in Usernames, k \in KeyIDs :
        /\ KeyAt(w, k) # None
        /\ KeyAt(w, k).prefix = stored.prefix
        /\ KeyAt(w, k).digest = stored.digest

CreateKeyErr(u, k, raw) ==
    IF ~UserExists(u) THEN "ErrUserNotFound"
    ELSE IF KeyAt(u, k) # None \/ SecretTaken(u, Hash(raw)) THEN "ErrKeyCollision"
    ELSE "nil"

CreateKey(u, k, raw, expiresAt, scopes) ==
    /\ CreateKeyErr(u, k, raw) = "nil"
    /\ users' = [users EXCEPT ![u].keys[k] = [prefix    |-> Hash(raw).prefix,
                                              digest    |-> Hash(raw).digest,
                                              expiresAt |-> expiresAt,
                                              scopes    |-> scopes]]
    /\ UNCHANGED <<namespaces, resources, roles, mounts, mountGrants>>

RevokeKeyErr(u, k) ==
    IF ~UserExists(u) THEN "ErrUserNotFound"
    ELSE IF KeyAt(u, k) = None THEN "ErrKeyNotFound"
    ELSE "nil"

RevokeKey(u, k) ==
    /\ RevokeKeyErr(u, k) = "nil"
    /\ users' = [users EXCEPT ![u].keys[k] = None]
    /\ UNCHANGED <<namespaces, resources, roles, mounts, mountGrants>>

\* Mutant of Valid: a key without expiry counts as expired.
ValidUntil(expiresAt, now) == expiresAt # None /\ expiresAt > now

\* APIKeyInfo.Valid
Valid(expiresAt, now) == expiresAt # None => expiresAt > now

\* The users and keys the raw key opens; the code returns the first it meets
\* while ranging over a map, so the answer is defined only when there is one.
LookupUserByKey(raw) ==
    {uk \in Usernames \X KeyIDs :
        /\ KeyAt(uk[1], uk[2]) # None
        /\ Verify(raw, KeyAt(uk[1], uk[2]))}

-----------------------------------------------------------------------------
(* Namespaces: backend/memory/memory_namespaces.go *)

\* Mutant of CreateNamespaceErr: the duplicate check is missing.
CreateNamespaceErrNoDup(n, owner) ==
    IF owner # None /\ ~UserExists(owner) THEN "ErrUserNotFound" ELSE "nil"

\* owner = None is a namespace created in anonymous mode.
CreateNamespaceErr(n, owner) ==
    IF owner # None /\ ~UserExists(owner) THEN "ErrUserNotFound"
    ELSE IF NamespaceExists(n) THEN "ErrDuplicateNamespaceID"
    ELSE "nil"

CreateNamespace(n, owner, format, tags, now) ==
    /\ CreateNamespaceErr(n, owner) = "nil"
    /\ namespaces' = [namespaces EXCEPT ![n] = [pidFormat   |-> format,
                                                tags        |-> tags,
                                                dateCreated |-> now,
                                                dateUpdated |-> now]]
    /\ resources' = [resources EXCEPT ![n] = NoResources]
    /\ roles' = IF owner = None THEN roles
                ELSE [roles EXCEPT ![n][owner] = "manager"]
    /\ UNCHANGED <<users, mounts, mountGrants>>

NamespaceErr(n) == IF NamespaceExists(n) THEN "nil" ELSE "ErrNamespaceNotFound"

\* tags = None is a request without tags; dateUpdated moves even then.
UpdatedNamespace(old, tags, now) ==
    [pidFormat   |-> old.pidFormat,
     tags        |-> IF tags = None THEN old.tags ELSE tags,
     dateCreated |-> old.dateCreated,
     dateUpdated |-> now]

UpdateNamespace(n, tags, now) ==
    /\ NamespaceErr(n) = "nil"
    /\ namespaces' = [namespaces EXCEPT ![n] =
                          UpdatedNamespace(namespaces[n], tags, now)]
    /\ UNCHANGED <<users, resources, roles, mounts, mountGrants>>

-----------------------------------------------------------------------------
(* Resources: backend/memory/memory_resources.go *)

NewResource(content, now) ==
    [content |-> content, deleted |-> FALSE,
     dateCreated |-> now, dateUpdated |-> now]

CreateResourceErr(n, p) ==
    IF ~NamespaceExists(n) THEN "ErrNamespaceNotFound"
    ELSE IF resources[n][p] # None THEN "ErrPIDAllocationFailed"
    ELSE "nil"

CreateResource(n, p, content, now) ==
    /\ CreateResourceErr(n, p) = "nil"
    /\ resources' = [resources EXCEPT ![n][p] = NewResource(content, now)]
    /\ UNCHANGED <<users, namespaces, roles, mounts, mountGrants>>

\* Mutant of BatchCreateResourcesErr: only the first PID of the batch is
\* compared with what the namespace holds.
BatchCreateResourcesErrFirst(n, pids) ==
    IF ~NamespaceExists(n) THEN "ErrNamespaceNotFound"
    ELSE IF pids # <<>> /\ resources[n][pids[1]] # None
         THEN "ErrPIDAllocationFailed"
    ELSE "nil"

\* One duplicate within the batch, or one PID already in use, fails it whole.
BatchCreateResourcesErr(n, pids) ==
    IF ~NamespaceExists(n) THEN "ErrNamespaceNotFound"
    ELSE IF \/ \E i, j \in DOMAIN pids : i # j /\ pids[i] = pids[j]
            \/ \E i \in DOMAIN pids : resources[n][pids[i]] # None
         THEN "ErrPIDAllocationFailed"
    ELSE "nil"

BatchCreateResources(n, pids, contents, now) ==
    /\ BatchCreateResourcesErr(n, pids) = "nil"
    /\ resources' = [resources EXCEPT ![n] =
           [p \in PIDs |->
               IF \E i \in DOMAIN pids : pids[i] = p
               THEN NewResource(contents[CHOOSE i \in DOMAIN pids : pids[i] = p], now)
               ELSE resources[n][p]]]
    /\ UNCHANGED <<users, namespaces, roles, mounts, mountGrants>>

ResourceErr(n, p) ==
    IF ~NamespaceExists(n) THEN "ErrNamespaceNotFound"
    ELSE IF resources[n][p] = None THEN "ErrResourceNotFound"
    ELSE "nil"

\* Mutant of UpdatedResource: an absent field is written as nil.
UpdatedResourceNil(old, content, deleted, now) ==
    [content |-> content, deleted |-> deleted,
     dateCreated |-> old.dateCreated, dateUpdated |-> now]

\* A field that is None is absent from the request and keeps its value.
UpdatedResource(old, content, deleted, now) ==
    [content     |-> IF content = None THEN old.content ELSE content,
     deleted     |-> IF deleted = None THEN old.deleted ELSE deleted,
     dateCreated |-> old.dateCreated,
     dateUpdated |-> now]

UpdateResource(n, p, content, deleted, now) ==
    /\ ResourceErr(n, p) = "nil"
    /\ resources' = [resources EXCEPT ![n][p] =
                         UpdatedResource(resources[n][p], content, deleted, now)]
    /\ UNCHANGED <<users, namespaces, roles, mounts, mountGrants>>

-----------------------------------------------------------------------------
(* Roles: backend/memory/memory_roles.go.  The user need not exist. *)

\* Setting "none" removes the explicit role.
SetNamespaceRole(n, u, role) ==
    /\ NamespaceErr(n) = "nil"
    /\ roles' = [roles EXCEPT ![n][u] = role]
    /\ UNCHANGED <<users, namespaces, resources, mounts, mountGrants>>

DeleteNamespaceRoleErr(n, u) ==
    IF roles[n][u] = "none" THEN "ErrRoleNotFound" ELSE "nil"

DeleteNamespaceRole(n, u) ==
    /\ DeleteNamespaceRoleErr(n, u) = "nil"
    /\ roles' = [roles EXCEPT ![n][u] = "none"]
    /\ UNCHANGED <<users, namespaces, resources, mounts, mountGrants>>

-----------------------------------------------------------------------------
(* Mounts and mount grants: memory_mounts.go, memory_mount_grants.go *)

\* Mutant of SetMount: the namespace is not looked up.
SetMountAnywhere(b, n) ==
    /\ mounts' = [mounts EXCEPT ![b] = n]
    /\ UNCHANGED <<users, namespaces, resources, roles, mountGrants>>

SetMount(b, n) ==
    /\ NamespaceErr(n) = "nil"
    /\ mounts' = [mounts EXCEPT ![b] = n]
    /\ UNCHANGED <<users, namespaces, resources, roles, mountGrants>>

MountErr(b) == IF mounts[b] = None THEN "ErrMountNotFound" ELSE "nil"

DeleteMount(b) ==
    /\ MountErr(b) = "nil"
    /\ mounts' = [mounts EXCEPT ![b] = None]
    /\ UNCHANGED <<users, namespaces, resources, roles, mountGrants>>

SetMountGrant(u, pattern) ==
    /\ UserErr(u) = "nil"
    /\ mountGrants' = [mountGrants EXCEPT ![u] = @ \cup {pattern}]
    /\ UNCHANGED <<users, namespaces, resources, roles, mounts>>

DeleteMountGrantErr(u, pattern) ==
    IF ~UserExists(u) THEN "ErrUserNotFound"
    ELSE IF pattern \notin mountGrants[u] THEN "ErrMountGrantNotFound"
    ELSE "nil"

DeleteMountGrant(u, pattern) ==
    /\ DeleteMountGrantErr(u, pattern) = "nil"
    /\ mountGrants' = [mountGrants EXCEPT ![u] = @ \ {pattern}]
    /\ UNCHANGED <<users, namespaces, resources, roles, mounts>>

-----------------------------------------------------------------------------

Batches == UNION {[1..len -> PIDs] : len \in 0..MaxBatch}

UserStep ==
    \E u \in Usernames :
        \/ \E s \in BOOLEAN : CreateUser(u, s)
        \/ DeleteUser(u)
        \/ \E s \in Optional(BOOLEAN) : UpdateUser(u, s)
        \/ \E p \in Optional(Passwords) : SetPassword(u, p)
        \/ \E pattern \in Patterns :
               SetMountGrant(u, pattern) \/ DeleteMountGrant(u, pattern)

KeyStep ==
    \E u \in Usernames, k \in KeyIDs :
        \/ \E raw \in RawKeys, t \in Optional(Times), g \in KeyScopes :
               CreateKey(u, k, raw, t, g)
        \/ RevokeKey(u, k)

NamespaceStep ==
    \E n \in NamespaceIDs :
        \/ \E owner \in Optional(Usernames), f \in Formats, c \in Contents,
              now \in Times : CreateNamespace(n, owner, f, c, now)
        \/ \E c \in Optional(Contents), now \in Times : UpdateNamespace(n, c, now)
        \/ \E u \in Usernames :
               \/ \E role \in Roles : SetNamespaceRole(n, u, role)
               \/ DeleteNamespaceRole(n, u)
        \/ \E b \in BaseURIs : SetMount(b, n) \/ DeleteMount(b)

ResourceStep ==
    \E n \in NamespaceIDs, now \in Times :
        \/ \E p \in PIDs, c \in Contents : CreateResource(n, p, c, now)
        \/ \E pids \in Batches : \E cs \in [DOMAIN pids -> Contents] :
               BatchCreateResources(n, pids, cs, now)
        \/ \E p \in PIDs, c \in Optional(Contents), d \in Optional(BOOLEAN) :
               UpdateResource(n, p, c, d, now)

Next == UserStep \/ KeyStep \/ NamespaceStep \/ ResourceStep

Spec == Init /\ [][Next]_vars

-----------------------------------------------------------------------------
(* Properties *)

\* A mount grant in the store belongs to an account that exists: DeleteUser
\* removes the grants with the account, so none waits for the next user who
\* registers the name.
GrantsBelongToUsers ==
    \A u \in Usernames : mountGrants[u] # {} => UserExists(u)

\* Everything filed under a namespace (mounts that lead to it, roles, and
\* resources) is filed under one that exists; resolving a mount never meets
\* ErrNamespaceNotFound.
FiledUnderNamespaces ==
    /\ \A b \in BaseURIs : mounts[b] # None => NamespaceExists(mounts[b])
    /\ \A n \in NamespaceIDs :
        ~NamespaceExists(n) =>
            /\ resources[n] = NoResources
            /\ \A u \in Usernames : roles[n][u] = "none"

\* A raw API key opens at most one key of at most one user, although
\* LookupUserByKey returns the first match of a map iteration: CreateKey
\* refuses a secret any user already has.
KeysIdentifyOneUser ==
    \A u, w \in Usernames : \A k, l \in KeyIDs :
        /\ KeyAt(u, k) # None
        /\ KeyAt(w, l) # None
        /\ KeyAt(u, k).prefix = KeyAt(w, l).prefix
        /\ KeyAt(u, k).digest = KeyAt(w, l).digest
        => u = w /\ k = l

\* The same for what a client presents: at most one account answers.
LookupIsUnambiguous ==
    \A raw \in RawKeys : \A x, y \in LookupUserByKey(raw) : x = y

\* A persistent identifier is persistent: no operation removes a PID, gives
\* it to a new resource or touches its creation date, and the format of a
\* namespace and its creation date never change.
KeepsPIDs ==
    /\ \A n \in NamespaceIDs, p \in PIDs :
           resources[n][p] # None =>
               /\ resources'[n][p] # None
               /\ resources'[n][p].dateCreated = resources[n][p].dateCreated
    /\ \A n \in NamespaceIDs :
           NamespaceExists(n) =>
               /\ namespaces'[n] # None
               /\ namespaces'[n].pidFormat = namespaces[n].pidFormat
               /\ namespaces'[n].dateCreated = namespaces[n].dateCreated

\* Every step of every client keeps all PIDs.
PIDsArePermanent == [][KeepsPIDs]_vars

\* An account registered under a name that was used before starts without
\* the credentials and mount grants of its predecessor.
StartsClean ==
    \A u \in Usernames :
        ~UserExists(u) /\ users'[u] # None =>
            /\ users'[u].passwordHash = None
            /\ users'[u].keys = NoKeys
            /\ mountGrants'[u] = {}

\* Every account, at the step that registers it, starts clean.
NewAccountsAreClean == [][StartsClean]_vars

=============================================================================
