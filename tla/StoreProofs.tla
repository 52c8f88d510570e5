---------------------------- MODULE StoreProofs ----------------------------
(***************************************************************************)
(* What Store guarantees for every set of users, namespaces, PIDs and keys.*)
(***************************************************************************)
EXTENDS Store, TLAPS

-----------------------------------------------------------------------------
(* Type correctness, one lemma per group of operations. *)

\* The user operations keep the maps well typed.
LEMMA UserStepType == TypeOK /\ UserStep => TypeOK'
  <1> SUFFICES ASSUME TypeOK, NEW u \in Usernames,
                      \/ \E s \in BOOLEAN : CreateUser(u, s)
                      \/ DeleteUser(u)
                      \/ \E s \in Optional(BOOLEAN) : UpdateUser(u, s)
                      \/ \E p \in Optional(Passwords) : SetPassword(u, p)
                      \/ \E pattern \in Patterns :
                             SetMountGrant(u, pattern) \/ DeleteMountGrant(u, pattern)
               PROVE  TypeOK'
    BY DEF UserStep
  <1>1. ASSUME NEW s \in BOOLEAN, CreateUser(u, s) PROVE TypeOK'
    BY <1>1 DEF TypeOK, CreateUser, UserRecord, NoKeys, Optional
  <1>2. CASE DeleteUser(u)
    BY <1>2 DEF TypeOK, DeleteUser, GrantsWithout, Roles, Optional
  <1>3. ASSUME NEW s \in Optional(BOOLEAN), UpdateUser(u, s) PROVE TypeOK'
    BY <1>3 DEF TypeOK, UpdateUser, UpdatedSuperuser, UserErr, UserExists,
                UserRecord, Optional
  <1>4. ASSUME NEW p \in Optional(Passwords), SetPassword(u, p) PROVE TypeOK'
    BY <1>4 DEF TypeOK, SetPassword, UserErr, UserExists, UserRecord,
                Optional, PasswordHash
  <1>5. ASSUME NEW pattern \in Patterns, SetMountGrant(u, pattern) PROVE TypeOK'
    BY <1>5 DEF TypeOK, SetMountGrant
  <1>6. ASSUME NEW pattern \in Patterns, DeleteMountGrant(u, pattern) PROVE TypeOK'
    BY <1>6 DEF TypeOK, DeleteMountGrant
  <1> QED BY <1>1, <1>2, <1>3, <1>4, <1>5, <1>6

\* Issuing and revoking keys keeps the maps well typed.
LEMMA KeyStepType == TypeOK /\ KeyStep => TypeOK'
  <1> SUFFICES ASSUME TypeOK, NEW u \in Usernames, NEW k \in KeyIDs,
                      \/ \E raw \in RawKeys, t \in Optional(Times), g \in KeyScopes :
                             CreateKey(u, k, raw, t, g)
                      \/ RevokeKey(u, k)
               PROVE  TypeOK'
    BY DEF KeyStep
  <1>1. ASSUME NEW raw \in RawKeys, NEW t \in Optional(Times), NEW g \in KeyScopes,
               CreateKey(u, k, raw, t, g)
        PROVE  TypeOK'
    <2>1. users[u] \in UserRecord
      BY <1>1 DEF TypeOK, CreateKey, CreateKeyErr, UserExists, Optional
    <2>2. [prefix |-> Hash(raw).prefix, digest |-> Hash(raw).digest,
           expiresAt |-> t, scopes |-> g] \in KeyRecord
      BY DEF Hash, Digest, RawKeys, KeyRecord
    <2> QED BY <1>1, <2>1, <2>2 DEF TypeOK, CreateKey, UserRecord, Optional
  <1>2. CASE RevokeKey(u, k)
    <2>1. users[u] \in UserRecord
      BY <1>2 DEF TypeOK, RevokeKey, RevokeKeyErr, UserExists, Optional
    <2> QED BY <1>2, <2>1 DEF TypeOK, RevokeKey, UserRecord, Optional
  <1> QED BY <1>1, <1>2

\* Namespaces, roles and mounts stay well typed.
LEMMA NamespaceStepType == TypeOK /\ NamespaceStep => TypeOK'
  <1> SUFFICES ASSUME TypeOK, NEW n \in NamespaceIDs,
                      \/ \E owner \in Optional(Usernames), f \in Formats,
                            c \in Contents, now \in Times :
                             CreateNamespace(n, owner, f, c, now)
                      \/ \E c \in Optional(Contents), now \in Times :
                             UpdateNamespace(n, c, now)
                      \/ \E u \in Usernames :
                             \/ \E role \in Roles : SetNamespaceRole(n, u, role)
                             \/ DeleteNamespaceRole(n, u)
                      \/ \E b \in BaseURIs : SetMount(b, n) \/ DeleteMount(b)
               PROVE  TypeOK'
    BY DEF NamespaceStep
  <1>1. ASSUME NEW owner \in Optional(Usernames), NEW f \in Formats,
               NEW c \in Contents, NEW now \in Times,
               CreateNamespace(n, owner, f, c, now)
        PROVE  TypeOK'
    BY <1>1 DEF TypeOK, CreateNamespace, NamespaceRecord, NoResources,
                Optional, Roles
  <1>2. ASSUME NEW c \in Optional(Contents), NEW now \in Times,
               UpdateNamespace(n, c, now)
        PROVE  TypeOK'
    <2>1. namespaces[n] \in NamespaceRecord
      BY <1>2 DEF TypeOK, UpdateNamespace, NamespaceErr, NamespaceExists, Optional
    <2>2. UpdatedNamespace(namespaces[n], c, now) \in NamespaceRecord
      BY <2>1 DEF UpdatedNamespace, NamespaceRecord, Optional
    <2> QED BY <1>2, <2>2 DEF TypeOK, UpdateNamespace, Optional
  <1>3. ASSUME NEW u \in Usernames, NEW role \in Roles,
               SetNamespaceRole(n, u, role)
        PROVE  TypeOK'
    BY <1>3 DEF TypeOK, SetNamespaceRole
  <1>4. ASSUME NEW u \in Usernames, DeleteNamespaceRole(n, u) PROVE TypeOK'
    BY <1>4 DEF TypeOK, DeleteNamespaceRole, Roles
  <1>5. ASSUME NEW b \in BaseURIs, SetMount(b, n) \/ DeleteMount(b)
        PROVE  TypeOK'
    BY <1>5 DEF TypeOK, SetMount, DeleteMount, Optional
  <1> QED BY <1>1, <1>2, <1>3, <1>4, <1>5

\* A new resource is a record, not an absent entry.
LEMMA NewResourceType ==
    ASSUME NEW content \in Contents, NEW now \in Times
    PROVE  /\ NewResource(content, now) \in ResourceRecord
           /\ NewResource(content, now) # None
  <1>1. NewResource(content, now) \in ResourceRecord
    BY DEF NewResource, ResourceRecord
  <1> QED BY <1>1, NoneIsNoRecord DEF NoneIsNoRecord

\* What a successful batch writes: a new record under each PID of the batch,
\* and nothing anywhere else.
LEMMA BatchEffect ==
    ASSUME TypeOK, NEW n \in NamespaceIDs, NEW pids,
           NEW contents \in [DOMAIN pids -> Contents], NEW now \in Times,
           BatchCreateResources(n, pids, contents, now)
    PROVE  /\ resources' \in [NamespaceIDs -> [PIDs -> Optional(ResourceRecord)]]
           /\ \A p \in PIDs :
                  IF \E i \in DOMAIN pids : pids[i] = p
                  THEN resources[n][p] = None /\ resources'[n][p] \in ResourceRecord
                  ELSE resources'[n][p] = resources[n][p]
           /\ \A m \in NamespaceIDs \ {n} : resources'[m] = resources[m]
  <1> DEFINE new == [p \in PIDs |->
               IF \E i \in DOMAIN pids : pids[i] = p
               THEN NewResource(contents[CHOOSE i \in DOMAIN pids : pids[i] = p], now)
               ELSE resources[n][p]]
  <1>1. resources' = [resources EXCEPT ![n] = new]
    BY DEF BatchCreateResources
  <1>2. ASSUME NEW p \in PIDs, \E i \in DOMAIN pids : pids[i] = p
        PROVE  new[p] \in ResourceRecord
    <2> DEFINE at == CHOOSE i \in DOMAIN pids : pids[i] = p
    <2>1. at \in DOMAIN pids
      BY <1>2
    <2>2. contents[at] \in Contents
      BY <2>1
    <2>3. new[p] = NewResource(contents[at], now)
      BY <1>2
    <2> QED BY <2>2, <2>3, NewResourceType
  <1>3. ASSUME NEW p \in PIDs, ~\E i \in DOMAIN pids : pids[i] = p
        PROVE  new[p] = resources[n][p]
    BY <1>3
  <1>4. new \in [PIDs -> Optional(ResourceRecord)]
    <2>1. \A p \in PIDs : new[p] \in Optional(ResourceRecord)
      BY <1>2, <1>3 DEF TypeOK, Optional
    <2> QED BY <2>1
  <1>5. resources'[n] = new
    BY <1>1 DEF TypeOK
  <1>6. \A p \in PIDs : (\E i \in DOMAIN pids : pids[i] = p) => resources[n][p] = None
    BY DEF BatchCreateResources, BatchCreateResourcesErr
  <1> HIDE DEF new
  <1>7. resources' \in [NamespaceIDs -> [PIDs -> Optional(ResourceRecord)]]
    BY <1>1, <1>4 DEF TypeOK
  <1>8. \A p \in PIDs :
            IF \E i \in DOMAIN pids : pids[i] = p
            THEN resources[n][p] = None /\ resources'[n][p] \in ResourceRecord
            ELSE resources'[n][p] = resources[n][p]
    BY <1>2, <1>3, <1>5, <1>6
  <1>9. \A m \in NamespaceIDs \ {n} : resources'[m] = resources[m]
    BY <1>1 DEF TypeOK
  <1> QED BY <1>7, <1>8, <1>9

\* What an update writes: the record stays, with its creation date.
LEMMA UpdateEffect ==
    ASSUME TypeOK, NEW n \in NamespaceIDs, NEW p \in PIDs,
           NEW c \in Optional(Contents), NEW d \in Optional(BOOLEAN),
           NEW now \in Times, UpdateResource(n, p, c, d, now)
    PROVE  \E new \in ResourceRecord :
               /\ resources' = [resources EXCEPT ![n][p] = new]
               /\ resources[n][p] # None
               /\ new.dateCreated = resources[n][p].dateCreated
  <1> DEFINE new == UpdatedResource(resources[n][p], c, d, now)
  <1>1. resources[n][p] \in ResourceRecord /\ resources[n][p] # None
    BY DEF TypeOK, UpdateResource, ResourceErr, Optional
  <1>2. new \in ResourceRecord
    BY <1>1 DEF UpdatedResource, ResourceRecord, Optional
  <1>3. new.dateCreated = resources[n][p].dateCreated
    BY DEF UpdatedResource
  <1>4. resources' = [resources EXCEPT ![n][p] = new]
    BY DEF UpdateResource
  <1> QED BY <1>1, <1>2, <1>3, <1>4

\* Creating and updating resources keeps the maps well typed.
LEMMA ResourceStepType == TypeOK /\ ResourceStep => TypeOK'
  <1> SUFFICES ASSUME TypeOK, NEW n \in NamespaceIDs, NEW now \in Times,
                      \/ \E p \in PIDs, c \in Contents : CreateResource(n, p, c, now)
                      \/ \E pids \in Batches : \E cs \in [DOMAIN pids -> Contents] :
                             BatchCreateResources(n, pids, cs, now)
                      \/ \E p \in PIDs, c \in Optional(Contents),
                            d \in Optional(BOOLEAN) : UpdateResource(n, p, c, d, now)
               PROVE  TypeOK'
    BY DEF ResourceStep
  <1>1. ASSUME NEW p \in PIDs, NEW c \in Contents, CreateResource(n, p, c, now)
        PROVE  TypeOK'
    BY <1>1, NewResourceType DEF TypeOK, CreateResource, Optional
  <1>2. ASSUME NEW pids \in Batches, NEW cs \in [DOMAIN pids -> Contents],
               BatchCreateResources(n, pids, cs, now)
        PROVE  TypeOK'
    <2>1. resources' \in [NamespaceIDs -> [PIDs -> Optional(ResourceRecord)]]
      BY <1>2, BatchEffect
    <2> QED BY <1>2, <2>1 DEF TypeOK, BatchCreateResources
  <1>3. ASSUME NEW p \in PIDs, NEW c \in Optional(Contents),
               NEW d \in Optional(BOOLEAN), UpdateResource(n, p, c, d, now)
        PROVE  TypeOK'
    <2>1. PICK new \in ResourceRecord :
              resources' = [resources EXCEPT ![n][p] = new]
      BY <1>3, UpdateEffect
    <2> QED BY <1>3, <2>1 DEF TypeOK, UpdateResource, Optional
  <1> QED BY <1>1, <1>2, <1>3

\* The maps behind the mutex always have the types the code gives them.
THEOREM TypeCorrect == Spec => []TypeOK
  <1>1. Init => TypeOK
    BY DEF Init, TypeOK, Optional, NoResources, Roles
  <1>2. TypeOK /\ [Next]_vars => TypeOK'
    <2>1. TypeOK /\ UNCHANGED vars => TypeOK'
      BY DEF TypeOK, vars
    <2> QED BY <2>1, UserStepType, KeyStepType, NamespaceStepType,
               ResourceStepType DEF Next
  <1> QED BY <1>1, <1>2, PTL DEF Spec

-----------------------------------------------------------------------------
(* Referential integrity *)

\* The state the integrity of the store is read off.
Integrity == TypeOK /\ GrantsBelongToUsers /\ FiledUnderNamespaces

\* Changing an account's superuser flag or password, and issuing or revoking
\* a key, changes no other account and keeps this one.
LEMMA UserUpdatesKeepUsers ==
    ASSUME TypeOK, NEW u \in Usernames,
           \/ \E s \in Optional(BOOLEAN) : UpdateUser(u, s)
           \/ \E p \in Optional(Passwords) : SetPassword(u, p)
           \/ \E k \in KeyIDs, raw \in RawKeys, t \in Optional(Times), g \in KeyScopes :
                  CreateKey(u, k, raw, t, g)
           \/ \E k \in KeyIDs : RevokeKey(u, k)
    PROVE  /\ users'[u] # None
           /\ \A w \in Usernames \ {u} : users'[w] = users[w]
  <1>1. users[u] \in UserRecord
    BY DEF TypeOK, UpdateUser, SetPassword, CreateKey, RevokeKey, CreateKeyErr,
           RevokeKeyErr, UserErr, UserExists, Optional
  <1>2. ASSUME NEW s \in Optional(BOOLEAN), UpdateUser(u, s)
        PROVE  users'[u] \in UserRecord /\ \A w \in Usernames \ {u} : users'[w] = users[w]
    BY <1>1, <1>2 DEF TypeOK, UpdateUser, UpdatedSuperuser, UserRecord, Optional
  <1>3. ASSUME NEW p \in Optional(Passwords), SetPassword(u, p)
        PROVE  users'[u] \in UserRecord /\ \A w \in Usernames \ {u} : users'[w] = users[w]
    BY <1>1, <1>3 DEF TypeOK, SetPassword, UserRecord, Optional, PasswordHash
  <1>4. ASSUME NEW k \in KeyIDs, NEW raw \in RawKeys,
               NEW t \in Optional(Times), NEW g \in KeyScopes,
               CreateKey(u, k, raw, t, g)
        PROVE  users'[u] \in UserRecord /\ \A w \in Usernames \ {u} : users'[w] = users[w]
    <2>1. [prefix |-> Hash(raw).prefix, digest |-> Hash(raw).digest,
           expiresAt |-> t, scopes |-> g] \in KeyRecord
      BY DEF Hash, Digest, RawKeys, KeyRecord
    <2> QED BY <1>1, <1>4, <2>1 DEF TypeOK, CreateKey, UserRecord, Optional
  <1>5. ASSUME NEW k \in KeyIDs, RevokeKey(u, k)
        PROVE  users'[u] \in UserRecord /\ \A w \in Usernames \ {u} : users'[w] = users[w]
    BY <1>1, <1>5 DEF TypeOK, RevokeKey, UserRecord, Optional
  <1> QED BY <1>2, <1>3, <1>4, <1>5, NoneIsNoRecord DEF NoneIsNoRecord

\* Users come and go without leaving grants behind.
LEMMA UserStepIntegrity == Integrity /\ UserStep => Integrity'
  <1> SUFFICES ASSUME Integrity, UserStep
               PROVE  GrantsBelongToUsers' /\ FiledUnderNamespaces'
    BY UserStepType DEF Integrity
  <1> USE DEF Integrity
  <1>1. PICK u \in Usernames :
            \/ \E s \in BOOLEAN : CreateUser(u, s)
            \/ DeleteUser(u)
            \/ \E s \in Optional(BOOLEAN) : UpdateUser(u, s)
            \/ \E p \in Optional(Passwords) : SetPassword(u, p)
            \/ \E pattern \in Patterns :
                   SetMountGrant(u, pattern) \/ DeleteMountGrant(u, pattern)
    BY DEF UserStep
  <1>2. TypeOK'
    BY UserStepType
  <1>3. ASSUME NEW s \in BOOLEAN, CreateUser(u, s)
        PROVE  GrantsBelongToUsers' /\ FiledUnderNamespaces'
    <2>1. users' = [users EXCEPT ![u] = [superuser |-> s, passwordHash |-> None,
                                         keys |-> NoKeys]]
      BY <1>3 DEF CreateUser
    <2>2. [superuser |-> s, passwordHash |-> None, keys |-> NoKeys] \in UserRecord
      BY DEF UserRecord, NoKeys, Optional
    <2>3. users'[u] # None
      BY <2>1, <2>2, NoneIsNoRecord DEF NoneIsNoRecord, TypeOK
    <2> QED BY <1>3, <2>1, <2>3 DEF GrantsBelongToUsers, FiledUnderNamespaces,
               CreateUser, UserExists, NamespaceExists, TypeOK
  <1>4. CASE DeleteUser(u)
    BY <1>4 DEF GrantsBelongToUsers, FiledUnderNamespaces, DeleteUser,
                GrantsWithout, UserExists, NamespaceExists, TypeOK
  <1>5. ASSUME NEW s \in Optional(BOOLEAN), UpdateUser(u, s)
        PROVE  GrantsBelongToUsers' /\ FiledUnderNamespaces'
    BY <1>5, UserUpdatesKeepUsers DEF GrantsBelongToUsers, FiledUnderNamespaces,
       UpdateUser, UserExists, NamespaceExists, TypeOK
  <1>7. ASSUME NEW p \in Optional(Passwords), SetPassword(u, p)
        PROVE  GrantsBelongToUsers' /\ FiledUnderNamespaces'
    BY <1>7, UserUpdatesKeepUsers DEF GrantsBelongToUsers, FiledUnderNamespaces,
       SetPassword, UserExists, NamespaceExists, TypeOK
  <1>6. ASSUME NEW pattern \in Patterns,
               SetMountGrant(u, pattern) \/ DeleteMountGrant(u, pattern)
        PROVE  GrantsBelongToUsers' /\ FiledUnderNamespaces'
    BY <1>6 DEF GrantsBelongToUsers, FiledUnderNamespaces, SetMountGrant,
                DeleteMountGrant, DeleteMountGrantErr, UserErr, UserExists,
                NamespaceExists, TypeOK
  <1> QED BY <1>1, <1>3, <1>4, <1>5, <1>6, <1>7

\* Keys are stored in accounts that exist and touch nothing else.
LEMMA KeyStepIntegrity == Integrity /\ KeyStep => Integrity'
  <1> SUFFICES ASSUME Integrity, KeyStep
               PROVE  GrantsBelongToUsers' /\ FiledUnderNamespaces'
    BY KeyStepType DEF Integrity
  <1> USE DEF Integrity
  <1>1. PICK u \in Usernames, k \in KeyIDs :
            \/ \E raw \in RawKeys, t \in Optional(Times), g \in KeyScopes :
                   CreateKey(u, k, raw, t, g)
            \/ RevokeKey(u, k)
    BY DEF KeyStep
  <1>2. users'[u] # None /\ \A w \in Usernames \ {u} : users'[w] = users[w]
    BY <1>1, UserUpdatesKeepUsers
  <1>3. UNCHANGED <<namespaces, resources, roles, mounts, mountGrants>>
    BY <1>1 DEF CreateKey, RevokeKey
  <1> QED BY <1>2, <1>3 DEF GrantsBelongToUsers, FiledUnderNamespaces,
             UserExists, NamespaceExists, TypeOK

\* A namespace is created empty and never goes away; roles and mounts are
\* only filed under one that exists.
LEMMA NamespaceStepIntegrity == Integrity /\ NamespaceStep => Integrity'
  <1> SUFFICES ASSUME Integrity, NamespaceStep
               PROVE  GrantsBelongToUsers' /\ FiledUnderNamespaces'
    BY NamespaceStepType DEF Integrity
  <1> USE DEF Integrity
  <1>1. PICK n \in NamespaceIDs :
            \/ \E owner \in Optional(Usernames), f \in Formats,
                  c \in Contents, now \in Times :
                   CreateNamespace(n, owner, f, c, now)
            \/ \E c \in Optional(Contents), now \in Times :
                   UpdateNamespace(n, c, now)
            \/ \E u \in Usernames :
                   \/ \E role \in Roles : SetNamespaceRole(n, u, role)
                   \/ DeleteNamespaceRole(n, u)
            \/ \E b \in BaseURIs : SetMount(b, n) \/ DeleteMount(b)
    BY DEF NamespaceStep
  <1>2. UNCHANGED <<users, mountGrants>>
    BY <1>1 DEF CreateNamespace, UpdateNamespace, SetNamespaceRole,
                DeleteNamespaceRole, SetMount, DeleteMount
  <1>3. GrantsBelongToUsers'
    BY <1>2 DEF GrantsBelongToUsers, UserExists
  <1>4. ASSUME NEW owner \in Optional(Usernames), NEW f \in Formats,
               NEW c \in Contents, NEW now \in Times,
               CreateNamespace(n, owner, f, c, now)
        PROVE  FiledUnderNamespaces'
    <2>1. [pidFormat |-> f, tags |-> c, dateCreated |-> now, dateUpdated |-> now]
              \in NamespaceRecord
      BY DEF NamespaceRecord
    <2>2. namespaces'[n] # None
      BY <1>4, <2>1, NoneIsNoRecord DEF NoneIsNoRecord, CreateNamespace, TypeOK
    <2>3. \A m \in NamespaceIDs \ {n} :
              namespaces'[m] = namespaces[m] /\ resources'[m] = resources[m]
              /\ roles'[m] = roles[m]
      BY <1>4 DEF CreateNamespace, TypeOK
    <2> QED BY <1>4, <2>2, <2>3 DEF FiledUnderNamespaces, NamespaceExists,
               CreateNamespace, TypeOK, Optional
  <1>5. ASSUME NEW c \in Optional(Contents), NEW now \in Times,
               UpdateNamespace(n, c, now)
        PROVE  FiledUnderNamespaces'
    <2>1. namespaces[n] \in NamespaceRecord
      BY <1>5 DEF TypeOK, UpdateNamespace, NamespaceErr, NamespaceExists, Optional
    <2>2. UpdatedNamespace(namespaces[n], c, now) \in NamespaceRecord
      BY <2>1 DEF UpdatedNamespace, NamespaceRecord, Optional
    <2>3. namespaces'[n] # None
      BY <1>5, <2>2, NoneIsNoRecord DEF NoneIsNoRecord, UpdateNamespace, TypeOK
    <2> QED BY <1>5, <2>3 DEF FiledUnderNamespaces, NamespaceExists,
               UpdateNamespace, TypeOK, Optional
  <1>6. ASSUME NEW u \in Usernames,
               \/ \E role \in Roles : SetNamespaceRole(n, u, role)
               \/ DeleteNamespaceRole(n, u)
        PROVE  FiledUnderNamespaces'
    BY <1>6 DEF FiledUnderNamespaces, NamespaceExists, NamespaceErr,
                SetNamespaceRole, DeleteNamespaceRole, TypeOK
  <1>7. ASSUME NEW b \in BaseURIs, SetMount(b, n) \/ DeleteMount(b)
        PROVE  FiledUnderNamespaces'
    BY <1>7 DEF FiledUnderNamespaces, NamespaceExists, NamespaceErr, SetMount,
                DeleteMount, TypeOK
  <1> QED BY <1>1, <1>3, <1>4, <1>5, <1>6, <1>7

\* Resources are only filed under namespaces that exist.
LEMMA ResourceStepIntegrity == Integrity /\ ResourceStep => Integrity'
  <1> SUFFICES ASSUME Integrity, ResourceStep
               PROVE  GrantsBelongToUsers' /\ FiledUnderNamespaces'
    BY ResourceStepType DEF Integrity
  <1>1. PICK n \in NamespaceIDs, now \in Times :
            \/ \E p \in PIDs, c \in Contents : CreateResource(n, p, c, now)
            \/ \E pids \in Batches : \E cs \in [DOMAIN pids -> Contents] :
                   BatchCreateResources(n, pids, cs, now)
            \/ \E p \in PIDs, c \in Optional(Contents),
                  d \in Optional(BOOLEAN) : UpdateResource(n, p, c, d, now)
    BY DEF ResourceStep
  <1>2. UNCHANGED <<users, namespaces, roles, mounts, mountGrants>>
    BY <1>1 DEF CreateResource, BatchCreateResources, UpdateResource
  <1>3. NamespaceExists(n)
    BY <1>1 DEF CreateResource, BatchCreateResources, UpdateResource,
                CreateResourceErr, BatchCreateResourcesErr, ResourceErr
  <1>4. \A m \in NamespaceIDs \ {n} : resources'[m] = resources[m]
    BY <1>1 DEF CreateResource, BatchCreateResources, UpdateResource,
                Integrity, TypeOK
  <1> QED BY <1>2, <1>3, <1>4 DEF GrantsBelongToUsers, FiledUnderNamespaces,
             NamespaceExists, UserExists, Integrity

\* No mount grant outlives its account, and mounts, roles and resources are
\* only ever found under namespaces that exist.
THEOREM StoreIntegrity == Spec => [](GrantsBelongToUsers /\ FiledUnderNamespaces)
  <1>1. Init => Integrity
    BY DEF Init, Integrity, TypeOK, Optional, NoResources, Roles,
           GrantsBelongToUsers, FiledUnderNamespaces
  <1>2. Integrity /\ [Next]_vars => Integrity'
    <2>1. Integrity /\ UNCHANGED vars => Integrity'
      BY DEF Integrity, TypeOK, GrantsBelongToUsers, FiledUnderNamespaces,
             UserExists, NamespaceExists, vars
    <2> QED BY <2>1, UserStepIntegrity, KeyStepIntegrity,
               NamespaceStepIntegrity, ResourceStepIntegrity DEF Next
  <1>3. Integrity => GrantsBelongToUsers /\ FiledUnderNamespaces
    BY DEF Integrity
  <1> QED BY <1>1, <1>2, <1>3, PTL DEF Spec

\* No mount grant waits for whoever registers the name of a deleted account.
THEOREM GrantsHaveOwners == Spec => []GrantsBelongToUsers
  BY StoreIntegrity, PTL

-----------------------------------------------------------------------------
(* API keys *)

\* The record a user operation finds.
LEMMA UserRecordFound ==
    ASSUME TypeOK, NEW u \in Usernames, UserExists(u)
    PROVE  users[u] \in UserRecord
  BY DEF TypeOK, UserExists, Optional

\* Apart from CreateKey, an operation leaves each key alone or drops it.
LEMMA KeysOnlyLost ==
    ASSUME TypeOK, NEW w \in Usernames, NEW l \in KeyIDs,
           \/ UserStep
           \/ \E u \in Usernames, k \in KeyIDs : RevokeKey(u, k)
           \/ NamespaceStep
           \/ ResourceStep
           \/ UNCHANGED vars
    PROVE  KeyAt(w, l)' = KeyAt(w, l) \/ KeyAt(w, l)' = None
  <1>1. CASE users' = users
    BY <1>1 DEF KeyAt, UserExists
  <1>2. CASE NamespaceStep \/ ResourceStep \/ UNCHANGED vars
    <2>1. users' = users
      BY <1>2 DEF NamespaceStep, ResourceStep, CreateNamespace, UpdateNamespace,
         SetNamespaceRole, DeleteNamespaceRole, SetMount, DeleteMount,
         CreateResource, BatchCreateResources, UpdateResource, vars
    <2> QED BY <1>1, <2>1
  <1>3. ASSUME NEW u \in Usernames, NEW k \in KeyIDs, RevokeKey(u, k)
        PROVE  KeyAt(w, l)' = KeyAt(w, l) \/ KeyAt(w, l)' = None
    <2>1. users[u] \in UserRecord
      BY <1>3, UserRecordFound DEF RevokeKey, RevokeKeyErr
    <2>2. users' = [users EXCEPT ![u].keys[k] = None]
      BY <1>3 DEF RevokeKey
    <2>3. CASE w = u
      <3>1. users'[w].keys[l] = IF l = k THEN None ELSE users[w].keys[l]
        BY <2>1, <2>2, <2>3 DEF TypeOK, UserRecord
      <3> QED BY <3>1, <2>3, <1>3 DEF KeyAt, UserExists, RevokeKey, RevokeKeyErr
    <2>4. CASE w # u
      BY <2>2, <2>4 DEF KeyAt, UserExists, TypeOK
    <2> QED BY <2>3, <2>4
  <1>4. CASE UserStep
    <2>1. PICK u \in Usernames :
            \/ \E s \in BOOLEAN : CreateUser(u, s)
            \/ DeleteUser(u)
            \/ \E s \in Optional(BOOLEAN) : UpdateUser(u, s)
            \/ \E p \in Optional(Passwords) : SetPassword(u, p)
            \/ \E pattern \in Patterns :
                   SetMountGrant(u, pattern) \/ DeleteMountGrant(u, pattern)
      BY <1>4 DEF UserStep
    <2>2. ASSUME NEW s \in BOOLEAN, CreateUser(u, s)
          PROVE  KeyAt(w, l)' = KeyAt(w, l) \/ KeyAt(w, l)' = None
      BY <2>2 DEF CreateUser, KeyAt, UserExists, NoKeys, TypeOK
    <2>3. CASE DeleteUser(u)
      BY <2>3 DEF DeleteUser, KeyAt, UserExists, TypeOK
    <2>4. ASSUME NEW s \in Optional(BOOLEAN), UpdateUser(u, s)
          PROVE  KeyAt(w, l)' = KeyAt(w, l) \/ KeyAt(w, l)' = None
      <3>1. users[u] \in UserRecord /\ UserExists(u)
        BY <2>4, UserRecordFound DEF UpdateUser, UserErr
      <3> DEFINE superuser == UpdatedSuperuser(users[u].superuser, s)
      <3>2. users' = [users EXCEPT ![u].superuser = superuser]
        BY <2>4 DEF UpdateUser
      <3> HIDE DEF superuser
      <3>3. /\ users'[w].keys[l] = users[w].keys[l]
            /\ w = u \/ (users'[w] = None => users[w] = None)
        BY <3>1, <3>2 DEF TypeOK, UserRecord
      <3> QED BY <3>1, <3>3, <3>2 DEF KeyAt, UserExists, TypeOK
    <2>5. ASSUME NEW p \in Optional(Passwords), SetPassword(u, p)
          PROVE  KeyAt(w, l)' = KeyAt(w, l) \/ KeyAt(w, l)' = None
      <3>1. users[u] \in UserRecord /\ UserExists(u)
        BY <2>5, UserRecordFound DEF SetPassword, UserErr
      <3>2. PICK hash : users' = [users EXCEPT ![u].passwordHash = hash]
        BY <2>5 DEF SetPassword
      <3>3. /\ users'[w].keys[l] = users[w].keys[l]
            /\ w = u \/ (users'[w] = None => users[w] = None)
        BY <3>1, <3>2 DEF TypeOK, UserRecord
      <3> QED BY <3>1, <3>3, <3>2 DEF KeyAt, UserExists, TypeOK
    <2>6. ASSUME NEW pattern \in Patterns,
                 SetMountGrant(u, pattern) \/ DeleteMountGrant(u, pattern)
          PROVE  KeyAt(w, l)' = KeyAt(w, l) \/ KeyAt(w, l)' = None
      BY <2>6, <1>1 DEF SetMountGrant, DeleteMountGrant
    <2> QED BY <2>1, <2>2, <2>3, <2>4, <2>5, <2>6
  <1> QED BY <1>2, <1>3, <1>4

\* CreateKey files one key with the prefix and digest of the raw key, and
\* changes no other.
LEMMA KeyAdded ==
    ASSUME TypeOK, NEW u \in Usernames, NEW k \in KeyIDs, NEW raw \in RawKeys,
           NEW t \in Optional(Times), NEW g \in KeyScopes, CreateKey(u, k, raw, t, g)
    PROVE  /\ KeyAt(u, k)'.prefix = Hash(raw).prefix
           /\ KeyAt(u, k)'.digest = Hash(raw).digest
           /\ \A w \in Usernames, l \in KeyIDs :
                  w # u \/ l # k => KeyAt(w, l)' = KeyAt(w, l)
  <1> DEFINE new == [prefix |-> Hash(raw).prefix, digest |-> Hash(raw).digest,
                     expiresAt |-> t, scopes |-> g]
  <1>1. users[u] \in UserRecord /\ UserExists(u)
    BY UserRecordFound DEF CreateKey, CreateKeyErr
  <1>2. users' = [users EXCEPT ![u].keys[k] = new]
    BY DEF CreateKey
  <1>3. new.prefix = Hash(raw).prefix /\ new.digest = Hash(raw).digest
    OBVIOUS
  <1> HIDE DEF new
  <1>4. users'[u] # None
    BY UserUpdatesKeepUsers
  <1>5. \A l \in KeyIDs : users'[u].keys[l] = IF l = k THEN new ELSE users[u].keys[l]
    BY <1>1, <1>2 DEF TypeOK, UserRecord
  <1>6. \A w \in Usernames \ {u} : users'[w] = users[w]
    BY <1>2 DEF TypeOK
  <1>7. \A l \in KeyIDs : KeyAt(u, l)' = IF l = k THEN new ELSE KeyAt(u, l)
    BY <1>1, <1>4, <1>5 DEF KeyAt, UserExists
  <1>8. \A w \in Usernames \ {u}, l \in KeyIDs : KeyAt(w, l)' = KeyAt(w, l)
    BY <1>6 DEF KeyAt, UserExists
  <1> QED BY <1>3, <1>7, <1>8

\* A raw key opens at most one account: the secret of every key in the store
\* is its own, across all users, so the map iteration of LookupUserByKey
\* cannot matter.
THEOREM KeysAreUnambiguous == Spec => []LookupIsUnambiguous
  <1> DEFINE Inv == TypeOK /\ KeysIdentifyOneUser
  <1>1. Init => Inv
    BY DEF Init, TypeOK, Optional, NoResources, Roles, KeysIdentifyOneUser,
           KeyAt, UserExists
  <1>2. Inv /\ [Next]_vars => Inv'
    <2> SUFFICES ASSUME Inv, [Next]_vars
                 PROVE  TypeOK' /\ KeysIdentifyOneUser'
      OBVIOUS
    <2>1. TypeOK'
      <3>1. TypeOK /\ UNCHANGED vars => TypeOK'
        BY DEF TypeOK, vars
      <3> QED BY <3>1, UserStepType, KeyStepType, NamespaceStepType,
                 ResourceStepType DEF Next
    <2>2. ASSUME NEW u \in Usernames, NEW k \in KeyIDs, NEW raw \in RawKeys,
                 NEW t \in Optional(Times), NEW g \in KeyScopes, CreateKey(u, k, raw, t, g)
          PROVE  KeysIdentifyOneUser'
      <3>1. \A w \in Usernames, l \in KeyIDs :
                KeyAt(w, l) # None =>
                    ~(/\ KeyAt(w, l).prefix = Hash(raw).prefix
                      /\ KeyAt(w, l).digest = Hash(raw).digest)
        BY <2>2 DEF CreateKey, CreateKeyErr, SecretTaken
      <3> HIDE DEF Inv
      <3> SUFFICES ASSUME NEW v \in Usernames, NEW w \in Usernames,
                          NEW i \in KeyIDs, NEW j \in KeyIDs,
                          KeyAt(v, i)' # None, KeyAt(w, j)' # None,
                          KeyAt(v, i)'.prefix = KeyAt(w, j)'.prefix,
                          KeyAt(v, i)'.digest = KeyAt(w, j)'.digest
                   PROVE  v = w /\ i = j
        BY DEF KeysIdentifyOneUser
      <3>2. /\ KeyAt(u, k)'.prefix = Hash(raw).prefix
            /\ KeyAt(u, k)'.digest = Hash(raw).digest
            /\ \A a \in Usernames, l \in KeyIDs :
                   a # u \/ l # k => KeyAt(a, l)' = KeyAt(a, l)
        BY <2>2, KeyAdded DEF Inv
      <3>3. CASE v = u /\ i = k
        BY <3>1, <3>2, <3>3
      <3>4. CASE w = u /\ j = k
        BY <3>1, <3>2, <3>4
      <3>5. CASE (v # u \/ i # k) /\ (w # u \/ j # k)
        BY <3>2, <3>5 DEF Inv, KeysIdentifyOneUser
      <3> QED BY <3>3, <3>4, <3>5
    <2>3. CASE \/ UserStep
               \/ \E u \in Usernames, k \in KeyIDs : RevokeKey(u, k)
               \/ NamespaceStep
               \/ ResourceStep
               \/ UNCHANGED vars
      <3>1. \A w \in Usernames, l \in KeyIDs :
                KeyAt(w, l)' = KeyAt(w, l) \/ KeyAt(w, l)' = None
        BY <2>3, KeysOnlyLost
      <3> QED BY <2>1, <3>1 DEF KeysIdentifyOneUser
    <2> QED BY <2>1, <2>2, <2>3 DEF Next, KeyStep
  <1>3. Inv => LookupIsUnambiguous
    <2> SUFFICES ASSUME KeysIdentifyOneUser, NEW raw \in RawKeys,
                        NEW x \in LookupUserByKey(raw), NEW y \in LookupUserByKey(raw)
                 PROVE  x = y
      BY DEF LookupIsUnambiguous
    <2>1. /\ x \in Usernames \X KeyIDs
          /\ y \in Usernames \X KeyIDs
      BY DEF LookupUserByKey
    <2>2. /\ KeyAt(x[1], x[2]) # None
          /\ KeyAt(y[1], y[2]) # None
          /\ KeyAt(x[1], x[2]).prefix = KeyAt(y[1], y[2]).prefix
          /\ KeyAt(x[1], x[2]).digest = KeyAt(y[1], y[2]).digest
      BY DEF LookupUserByKey, Verify
    <2>3. x[1] = y[1] /\ x[2] = y[2]
      BY <2>1, <2>2 DEF KeysIdentifyOneUser
    <2> QED BY <2>1, <2>3
  <1> QED BY <1>1, <1>2, <1>3, PTL DEF Spec

-----------------------------------------------------------------------------
(* What no step may do *)

\* A resource operation keeps the PIDs that are there.
LEMMA ResourceStepKeepsPIDs == TypeOK /\ ResourceStep => KeepsPIDs
  <1> SUFFICES ASSUME TypeOK, ResourceStep PROVE KeepsPIDs
    OBVIOUS
  <1>1. PICK n \in NamespaceIDs, now \in Times :
            \/ \E p \in PIDs, c \in Contents : CreateResource(n, p, c, now)
            \/ \E pids \in Batches : \E cs \in [DOMAIN pids -> Contents] :
                   BatchCreateResources(n, pids, cs, now)
            \/ \E p \in PIDs, c \in Optional(Contents),
                  d \in Optional(BOOLEAN) : UpdateResource(n, p, c, d, now)
    BY DEF ResourceStep
  <1>2. namespaces' = namespaces
    BY <1>1 DEF CreateResource, BatchCreateResources, UpdateResource
  <1>3. SUFFICES ASSUME NEW m \in NamespaceIDs, NEW q \in PIDs,
                        resources[m][q] # None
                 PROVE  /\ resources'[m][q] # None
                        /\ resources'[m][q].dateCreated = resources[m][q].dateCreated
    BY <1>2 DEF KeepsPIDs, NamespaceExists
  <1>4. ASSUME NEW p \in PIDs, NEW c \in Contents, CreateResource(n, p, c, now)
        PROVE  resources'[m][q] = resources[m][q]
    BY <1>4, <1>3 DEF CreateResource, CreateResourceErr, TypeOK
  <1>5. ASSUME NEW pids \in Batches, NEW cs \in [DOMAIN pids -> Contents],
               BatchCreateResources(n, pids, cs, now)
        PROVE  resources'[m][q] = resources[m][q]
    BY <1>3, <1>5, BatchEffect
  <1>6. ASSUME NEW p \in PIDs, NEW c \in Optional(Contents),
               NEW d \in Optional(BOOLEAN), UpdateResource(n, p, c, d, now)
        PROVE  /\ resources'[m][q] # None
               /\ resources'[m][q].dateCreated = resources[m][q].dateCreated
    <2>1. PICK new \in ResourceRecord :
              /\ resources' = [resources EXCEPT ![n][p] = new]
              /\ new.dateCreated = resources[n][p].dateCreated
      BY <1>6, UpdateEffect
    <2>2. new # None
      BY NoneIsNoRecord DEF NoneIsNoRecord
    <2>3. resources'[m][q] = IF m = n /\ q = p THEN new ELSE resources[m][q]
      BY <2>1 DEF TypeOK
    <2> QED BY <1>3, <2>1, <2>2, <2>3
  <1> QED BY <1>1, <1>3, <1>4, <1>5, <1>6

\* A namespace operation keeps all PIDs and formats: the resource map it
\* resets on creation is that of a namespace nobody could file PIDs under.
LEMMA NamespaceStepKeepsPIDs == Integrity /\ NamespaceStep => KeepsPIDs
  <1> SUFFICES ASSUME Integrity, NamespaceStep PROVE KeepsPIDs
    OBVIOUS
  <1> USE DEF Integrity
  <1>1. PICK n \in NamespaceIDs :
            \/ \E owner \in Optional(Usernames), f \in Formats,
                  c \in Contents, now \in Times :
                   CreateNamespace(n, owner, f, c, now)
            \/ \E c \in Optional(Contents), now \in Times :
                   UpdateNamespace(n, c, now)
            \/ \E u \in Usernames :
                   \/ \E role \in Roles : SetNamespaceRole(n, u, role)
                   \/ DeleteNamespaceRole(n, u)
            \/ \E b \in BaseURIs : SetMount(b, n) \/ DeleteMount(b)
    BY DEF NamespaceStep
  <1>2. ASSUME NEW owner \in Optional(Usernames), NEW f \in Formats,
               NEW c \in Contents, NEW now \in Times,
               CreateNamespace(n, owner, f, c, now)
        PROVE  KeepsPIDs
    <2>1. namespaces[n] = None
      BY <1>2 DEF CreateNamespace, CreateNamespaceErr, NamespaceExists
    <2>2. \A p \in PIDs : resources[n][p] = None
      BY <2>1 DEF FiledUnderNamespaces, NamespaceExists, NoResources
    <2>3. \A m \in NamespaceIDs \ {n} :
              namespaces'[m] = namespaces[m] /\ resources'[m] = resources[m]
      BY <1>2 DEF CreateNamespace, TypeOK
    <2> QED BY <2>1, <2>2, <2>3 DEF KeepsPIDs, NamespaceExists
  <1>3. ASSUME NEW c \in Optional(Contents), NEW now \in Times,
               UpdateNamespace(n, c, now)
        PROVE  KeepsPIDs
    <2> DEFINE new == UpdatedNamespace(namespaces[n], c, now)
    <2>1. namespaces[n] \in NamespaceRecord
      BY <1>3 DEF TypeOK, UpdateNamespace, NamespaceErr, NamespaceExists, Optional
    <2>2. new \in NamespaceRecord
      BY <2>1 DEF UpdatedNamespace, NamespaceRecord, Optional
    <2>3. new # None
      BY <2>2, NoneIsNoRecord DEF NoneIsNoRecord
    <2>4. /\ new.pidFormat = namespaces[n].pidFormat
          /\ new.dateCreated = namespaces[n].dateCreated
      BY DEF UpdatedNamespace
    <2>5. namespaces' = [namespaces EXCEPT ![n] = new] /\ resources' = resources
      BY <1>3 DEF UpdateNamespace
    <2> HIDE DEF new
    <2>6. \A m \in NamespaceIDs :
              namespaces'[m] = IF m = n THEN new ELSE namespaces[m]
      BY <2>5 DEF TypeOK
    <2> QED BY <2>3, <2>4, <2>5, <2>6 DEF KeepsPIDs, NamespaceExists
  <1>4. ASSUME UNCHANGED <<namespaces, resources>> PROVE KeepsPIDs
    BY <1>4 DEF KeepsPIDs, NamespaceExists
  <1> QED BY <1>1, <1>2, <1>3, <1>4 DEF SetNamespaceRole, DeleteNamespaceRole,
             SetMount, DeleteMount

\* A PID, once created, is never removed, reused or redated, and the format
\* of its namespace stays what it was.
THEOREM PIDsStay == Spec => PIDsArePermanent
  <1>1. Integrity /\ [Next]_vars => [KeepsPIDs]_vars
    <2> SUFFICES ASSUME Integrity, Next PROVE KeepsPIDs
      OBVIOUS
    <2>1. ASSUME UserStep \/ KeyStep PROVE KeepsPIDs
      <3>1. UNCHANGED <<namespaces, resources>>
        BY <2>1 DEF UserStep, KeyStep, CreateUser, DeleteUser, UpdateUser,
           SetPassword, SetMountGrant, DeleteMountGrant, CreateKey, RevokeKey
      <3> QED BY <3>1 DEF KeepsPIDs, NamespaceExists
    <2> QED BY <2>1, NamespaceStepKeepsPIDs, ResourceStepKeepsPIDs DEF Next, Integrity
  <1>2. Integrity <=> TypeOK /\ (GrantsBelongToUsers /\ FiledUnderNamespaces)
    BY DEF Integrity
  <1> QED BY <1>1, <1>2, TypeCorrect, StoreIntegrity, PTL DEF Spec, PIDsArePermanent

\* Whoever registers a name, new or used before, starts without passwords,
\* keys or mount grants.
THEOREM AccountsStartClean == Spec => NewAccountsAreClean
  <1>1. Integrity /\ [Next]_vars => [StartsClean]_vars
    <2> SUFFICES ASSUME Integrity, Next, NEW u \in Usernames,
                        ~UserExists(u), users'[u] # None
                 PROVE  /\ users'[u].passwordHash = None
                        /\ users'[u].keys = NoKeys
                        /\ mountGrants'[u] = {}
      BY DEF StartsClean
    <2> USE DEF Integrity
    <2>1. users' # users
      BY DEF UserExists
    <2>2. UserStep \/ KeyStep
      BY <2>1 DEF Next, NamespaceStep, ResourceStep, CreateNamespace,
         UpdateNamespace, SetNamespaceRole, DeleteNamespaceRole, SetMount,
         DeleteMount, CreateResource, BatchCreateResources, UpdateResource
    <2>3. PICK w \in Usernames, s \in BOOLEAN : CreateUser(w, s)
      <3>1. ASSUME NEW w \in Usernames,
                   \/ \E s \in Optional(BOOLEAN) : UpdateUser(w, s)
                   \/ \E p \in Optional(Passwords) : SetPassword(w, p)
                   \/ \E k \in KeyIDs, raw \in RawKeys, t \in Optional(Times), g \in KeyScopes :
                          CreateKey(w, k, raw, t, g)
                   \/ \E k \in KeyIDs : RevokeKey(w, k)
            PROVE  FALSE
        <4>1. UserExists(w)
          BY <3>1 DEF UpdateUser, SetPassword, CreateKey, RevokeKey,
             CreateKeyErr, RevokeKeyErr, UserErr
        <4>2. \A v \in Usernames \ {w} : users'[v] = users[v]
          BY <3>1, UserUpdatesKeepUsers
        <4> QED BY <4>1, <4>2 DEF UserExists
      <3>2. ASSUME NEW w \in Usernames, DeleteUser(w) PROVE FALSE
        BY <3>2 DEF DeleteUser, UserExists, TypeOK
      <3>3. ASSUME NEW w \in Usernames, NEW pattern \in Patterns,
                   SetMountGrant(w, pattern) \/ DeleteMountGrant(w, pattern)
            PROVE  FALSE
        BY <2>1, <3>3 DEF SetMountGrant, DeleteMountGrant
      <3> QED BY <2>2, <3>1, <3>2, <3>3 DEF UserStep, KeyStep
    <2>4. w = u
      BY <2>3 DEF CreateUser, UserExists, TypeOK
    <2>5. users'[u] = [superuser |-> s, passwordHash |-> None, keys |-> NoKeys]
      BY <2>3, <2>4 DEF CreateUser, TypeOK
    <2>6. mountGrants'[u] = {}
      BY <2>3 DEF CreateUser, GrantsBelongToUsers
    <2> QED BY <2>5, <2>6
  <1>2. Integrity <=> TypeOK /\ (GrantsBelongToUsers /\ FiledUnderNamespaces)
    BY DEF Integrity
  <1> QED BY <1>1, <1>2, TypeCorrect, StoreIntegrity, PTL DEF Spec, NewAccountsAreClean
=============================================================================
