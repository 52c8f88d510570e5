-------------------------------- MODULE Gorm --------------------------------
(***************************************************************************)
(* The backend on a database: every operation of backend.Backend that      *)
(* writes is a transaction of several statements, and the transactions of  *)
(* concurrent requests and servers interleave statement by statement.      *)
(*                                                                         *)
(* An operation is the program of the statements its function sends, in    *)
(* the order of the code and with the error each one ends it with.  The    *)
(* database is external and is PostgreSQL as the code opens it, at READ    *)
(* COMMITTED: a statement sees what is committed and what its transaction  *)
(* wrote, a row written by an open transaction is locked until its end, a  *)
(* new row locks the row its foreign key names against deletion, a cycle   *)
(* of waits costs one of its transactions an error, and any statement may  *)
(* fail.  SQLite lets fewer interleavings happen.                          *)
(*                                                                         *)
(* A row is named by its table and primary key.  The tag rows of one owner *)
(* count as one row, absent when there are no tags; the scopes of a key,   *)
(* inserted and deleted with it, are part of its row.                      *)
(***************************************************************************)
EXTENDS Naturals, Sequences, FiniteSets

CONSTANTS
    Usernames, NamespaceIDs, PIDs, BaseURIs, Patterns, KeyIDs, Prefixes,
    Suffixes, KeyScopes, Passwords, Times, Contents, Formats, MaxBatch, None,
    Plain,       \* the content without tags
    SomeRoles,   \* the roles that requests set
    Sessions,    \* database connections
    MaxOps       \* bound: operations begun

ASSUME GormAssumption ==
    /\ Plain \in Contents
    /\ MaxOps \in Nat /\ MaxBatch \in Nat \ {0}
    /\ None \notin Sessions \cup NamespaceIDs \cup Contents
    /\ None \notin SomeRoles \cup {"granted", "manager", "none"}

\* The time of a request is always given.
ASSUME TimesAssumption == None \notin Times

Optional(S) == S \cup {None}

\* The columns of the tables.
UserValue == [superuser : BOOLEAN]
PasswordValue == [bcrypt : Passwords]
KeyValue ==
    [prefix : Prefixes, digest : [sha256 : Suffixes], expiresAt : Optional(Times),
     scopes : KeyScopes]
NamespaceValue == [pidFormat : Formats, dateCreated : Times, dateUpdated : Times]
ResourceValue ==
    [content : Contents, deleted : BOOLEAN, dateCreated : Times, dateUpdated : Times]

\* NULL is told apart from every row.
ASSUME NoneIsNoValue ==
    /\ None \notin UserValue /\ None \notin PasswordValue /\ None \notin KeyValue
    /\ None \notin NamespaceValue /\ None \notin ResourceValue

VARIABLES
    db,          \* the committed rows
    op,          \* the operation of each connection, None between them
    at,          \* the statement it executes next
    pending,     \* rows its transaction has written
    shared,      \* rows its transaction locks against deletion
    scan,        \* rows its DELETE found and waits for, None before it waits
    loaded,      \* the row it has read to change it
    result,      \* the error returned, "nil" for none
    overlapped,  \* another transaction has committed writes meanwhile
    begun        \* operations so far

sessionVars == <<op, at, pending, shared, scan, loaded, result, overlapped>>
gormVars == <<db, sessionVars, begun>>

-----------------------------------------------------------------------------
(* Tables *)

UserRow(u) == <<"users", u>>
PasswordRow(u) == <<"user_passwords", u>>
KeyRow(u, k) == <<"user_api_keys", u, k>>
GrantRow(u, g) == <<"user_mount_grants", u, g>>
NamespaceRow(n) == <<"namespaces", n>>
NamespaceTagRow(n) == <<"namespace_tags", n>>
RoleRow(n, u) == <<"namespace_roles", n, u>>
MountRow(b) == <<"mounts", b>>
ResourceRow(n, p) == <<"resources", n, p>>
ResourceTagRow(n, p) == <<"resource_tags", n, p>>

KeysOf(u) == {KeyRow(u, k) : k \in KeyIDs}
GrantsOf(u) == {GrantRow(u, g) : g \in Patterns}
RolesOf(u) == {RoleRow(n, u) : n \in NamespaceIDs}

RowsOfUser(u) ==
    {UserRow(u), PasswordRow(u)} \cup KeysOf(u) \cup GrantsOf(u) \cup RolesOf(u)
RowsOfNamespace(n) ==
    {NamespaceRow(n), NamespaceTagRow(n)}
    \cup {ResourceRow(n, p) : p \in PIDs} \cup {ResourceTagRow(n, p) : p \in PIDs}

Rows ==
    (UNION {RowsOfUser(u) : u \in Usernames})
    \cup (UNION {RowsOfNamespace(n) : n \in NamespaceIDs})
    \cup {MountRow(b) : b \in BaseURIs}

\* Mutant of Parents: the keys of a user have no foreign key.
ParentsButKeys(row, value) ==
    CASE row[1] = "user_passwords" -> {UserRow(row[2])}
      [] row[1] \in {"namespace_tags", "namespace_roles", "resources"} ->
             {NamespaceRow(row[2])}
      [] row[1] = "resource_tags" -> {ResourceRow(row[2], row[3])}
      [] row[1] = "mounts" -> {NamespaceRow(value)}
      [] OTHER -> {}

\* The row a foreign key refers to.  Roles and grants refer to no user.
Parents(row, value) ==
    CASE row[1] \in {"user_passwords", "user_api_keys"} -> {UserRow(row[2])}
      [] row[1] \in {"namespace_tags", "namespace_roles", "resources"} ->
             {NamespaceRow(row[2])}
      [] row[1] = "resource_tags" -> {ResourceRow(row[2], row[3])}
      [] row[1] = "mounts" -> {NamespaceRow(value)}
      [] OTHER -> {}

-----------------------------------------------------------------------------
(* Statements *)

\* SELECT count(*): ends the operation with err when there is no row.
Ensure(row, err) == <<[do |-> "ensure", row |-> row, err |-> err]>>

\* First: also keeps the row.
First(row, err) == <<[do |-> "first", row |-> row, err |-> err]>>

\* Create: err is what a violated unique constraint is translated to.
Create(row, value, err) ==
    <<[do |-> "create", row |-> row, value |-> value, err |-> err]>>

\* Save of a new struct: UPDATE, and INSERT ... ON CONFLICT when nothing was
\* updated.
Save(row, value) == <<[do |-> "save", row |-> row, value |-> value]>>

\* Save of the struct that First filled, after setting some fields: all
\* columns are written.
SaveLoaded(row, set) == <<[do |-> "save loaded", row |-> row, set |-> set]>>

\* Update of one column where there is a row.
Update(row, set) == <<[do |-> "update", row |-> row, set |-> set]>>

\* Delete: ends the operation with err, unless that is nil, when no row
\* was affected.
Delete(rows, err) == <<[do |-> "delete", rows |-> rows, err |-> err]>>

When(condition, statements) == IF condition THEN statements ELSE <<>>

ensureUserExists(u) == Ensure(UserRow(u), "ErrUserNotFound")
ensureNamespaceExists(n) == Ensure(NamespaceRow(n), "ErrNamespaceNotFound")

\* Fields of a request that are not None.
Given(fields) ==
    [f \in {f \in DOMAIN fields : fields[f] # None} |-> fields[f]]

-----------------------------------------------------------------------------
(* Programs: gorm_user.go and gorm_mount_grants.go *)

CreateUser(o) ==
    Create(UserRow(o.user), [superuser |-> o.superuser], "ErrDuplicateUsername")

\* Mutant of DeleteUser: only what has a foreign key is deleted.
DeleteUserOnly(o) ==
    ensureUserExists(o.user) \o
    Delete({PasswordRow(o.user)}, "nil") \o
    Delete(KeysOf(o.user), "nil") \o
    Delete({UserRow(o.user)}, "nil")

\* cascadingDelete deletes the associations first, in the order of a Go map;
\* one of its orders stands for both, since Rivals admits what either locks.
DeleteUser(o) ==
    ensureUserExists(o.user) \o
    Delete(RolesOf(o.user), "nil") \o
    Delete(GrantsOf(o.user), "nil") \o
    Delete({PasswordRow(o.user)}, "nil") \o
    Delete(KeysOf(o.user), "nil") \o
    Delete({UserRow(o.user)}, "nil")

\* Mutant of UpdateUser: a field that is absent is written as well.
UpdateUserNil(o) ==
    First(UserRow(o.user), "ErrUserNotFound") \o
    Update(UserRow(o.user), [superuser |-> o.superuser])

\* Mutant of UpdateUser: the loaded struct is saved with its password.
UpdateUserSave(o) ==
    First(UserRow(o.user), "ErrUserNotFound") \o
    When(o.superuser # None,
         Update(UserRow(o.user), [superuser |-> o.superuser]) \o
         Save(PasswordRow(o.user), [bcrypt |-> None]))

UpdateUser(o) ==
    First(UserRow(o.user), "ErrUserNotFound") \o
    When(o.superuser # None,
         Update(UserRow(o.user), [superuser |-> o.superuser]))

SetMountGrant(o) ==
    ensureUserExists(o.user) \o Save(GrantRow(o.user, o.pattern), "granted")

DeleteMountGrant(o) ==
    ensureUserExists(o.user) \o
    Delete({GrantRow(o.user, o.pattern)}, "ErrMountGrantNotFound")

-----------------------------------------------------------------------------
(* gorm_credentials.go *)

PasswordHash(password) == [bcrypt |-> password]
Digest(suffix) == [sha256 |-> suffix]

SetPassword(o) ==
    ensureUserExists(o.user) \o
    IF o.password = None THEN Delete({PasswordRow(o.user)}, "nil")
    ELSE Save(PasswordRow(o.user), PasswordHash(o.password))

NewKey(o) ==
    [prefix |-> o.raw[1], digest |-> Digest(o.raw[2]),
     expiresAt |-> o.expiresAt, scopes |-> o.scopes]

\* Only the id of a key is unique, and only among the keys of its user.
CreateKey(o) ==
    ensureUserExists(o.user) \o
    Create(KeyRow(o.user, o.key), NewKey(o), "ErrKeyCollision")

RevokeKey(o) ==
    ensureUserExists(o.user) \o
    Ensure(KeyRow(o.user, o.key), "ErrKeyNotFound") \o
    Delete({KeyRow(o.user, o.key)}, "nil")

-----------------------------------------------------------------------------
(* gorm_namespaces.go, gorm_roles.go and gorm_mounts.go *)

CreateNamespace(o) ==
    When(o.owner # None, ensureUserExists(o.owner)) \o
    Create(NamespaceRow(o.ns),
           [pidFormat |-> o.format, dateCreated |-> o.now, dateUpdated |-> o.now],
           "ErrDuplicateNamespaceID") \o
    When(o.tags # Plain, Create(NamespaceTagRow(o.ns), o.tags, "ErrDuplicateNamespaceID")) \o
    When(o.owner # None, Create(RoleRow(o.ns, o.owner), "manager", "DatabaseError"))

UpdateNamespace(o) ==
    First(NamespaceRow(o.ns), "ErrNamespaceNotFound") \o
    When(o.tags # None, Delete({NamespaceTagRow(o.ns)}, "nil")) \o
    When(o.tags \notin {None, Plain},
         Create(NamespaceTagRow(o.ns), o.tags, "DatabaseError")) \o
    SaveLoaded(NamespaceRow(o.ns), [dateUpdated |-> o.now])

SetNamespaceRole(o) ==
    ensureNamespaceExists(o.ns) \o
    IF o.role = "none" THEN Delete({RoleRow(o.ns, o.user)}, "nil")
    ELSE Save(RoleRow(o.ns, o.user), o.role)

DeleteNamespaceRole(o) == Delete({RoleRow(o.ns, o.user)}, "ErrRoleNotFound")

SetMount(o) == ensureNamespaceExists(o.ns) \o Save(MountRow(o.base), o.ns)

DeleteMount(o) == Delete({MountRow(o.base)}, "ErrMountNotFound")

-----------------------------------------------------------------------------
(* gorm_resources.go *)

NewRow(content, now) ==
    [content |-> content, deleted |-> FALSE, dateCreated |-> now, dateUpdated |-> now]

\* Mutant of InsertRow: Save instead of Create.
SaveRow(o, p) == Save(ResourceRow(o.ns, p), NewRow(o.content, o.now))

InsertRow(o, p) ==
    Create(ResourceRow(o.ns, p), NewRow(o.content, o.now), "ErrPIDAllocationFailed")

InsertTags(o, p) ==
    When(o.content # Plain,
         Create(ResourceTagRow(o.ns, p), o.content, "ErrPIDAllocationFailed"))

CreateResource(o) ==
    ensureNamespaceExists(o.ns) \o InsertRow(o, o.pid) \o InsertTags(o, o.pid)

\* The rows one after the other, then their tags; here the items of a batch
\* are alike and fit into one INSERT.
BatchCreateResources(o) ==
    ensureNamespaceExists(o.ns) \o
    [i \in DOMAIN o.pids |-> InsertRow(o, o.pids[i])[1]] \o
    When(o.content # Plain, [i \in DOMAIN o.pids |-> InsertTags(o, o.pids[i])[1]])

UpdateResource(o) ==
    ensureNamespaceExists(o.ns) \o
    First(ResourceRow(o.ns, o.pid), "ErrResourceNotFound") \o
    SaveLoaded(ResourceRow(o.ns, o.pid),
               Given([content |-> o.content, deleted |-> o.deleted, dateUpdated |-> o.now])) \o
    When(o.content # None, Delete({ResourceTagRow(o.ns, o.pid)}, "nil")) \o
    When(o.content \notin {None, Plain},
         Create(ResourceTagRow(o.ns, o.pid), o.content, "DatabaseError"))
-----------------------------------------------------------------------------
(* Operations *)

Program(o) ==
    CASE o.kind = "CreateUser"           -> CreateUser(o)
      [] o.kind = "DeleteUser"           -> DeleteUser(o)
      [] o.kind = "UpdateUser"           -> UpdateUser(o)
      [] o.kind = "SetMountGrant"        -> SetMountGrant(o)
      [] o.kind = "DeleteMountGrant"     -> DeleteMountGrant(o)
      [] o.kind = "SetPassword"          -> SetPassword(o)
      [] o.kind = "CreateKey"            -> CreateKey(o)
      [] o.kind = "RevokeKey"            -> RevokeKey(o)
      [] o.kind = "CreateNamespace"      -> CreateNamespace(o)
      [] o.kind = "UpdateNamespace"      -> UpdateNamespace(o)
      [] o.kind = "SetNamespaceRole"     -> SetNamespaceRole(o)
      [] o.kind = "DeleteNamespaceRole"  -> DeleteNamespaceRole(o)
      [] o.kind = "SetMount"             -> SetMount(o)
      [] o.kind = "DeleteMount"          -> DeleteMount(o)
      [] o.kind = "CreateResource"       -> CreateResource(o)
      [] o.kind = "BatchCreateResources" -> BatchCreateResources(o)
      [] o.kind = "UpdateResource"       -> UpdateResource(o)

AccountOps ==
    [kind : {"CreateUser"}, user : Usernames, superuser : BOOLEAN]
    \cup [kind : {"DeleteUser"}, user : Usernames]
    \cup [kind : {"UpdateUser"}, user : Usernames, superuser : Optional(BOOLEAN)]
    \cup [kind : {"SetMountGrant", "DeleteMountGrant"}, user : Usernames, pattern : Patterns]
    \cup [kind : {"SetPassword"}, user : Usernames, password : Optional(Passwords)]
    \cup [kind : {"CreateKey"}, user : Usernames, key : KeyIDs, raw : Prefixes \X Suffixes,
          expiresAt : Optional(Times), scopes : KeyScopes]
    \cup [kind : {"RevokeKey"}, user : Usernames, key : KeyIDs]

NamespaceOps ==
    [kind : {"CreateNamespace"}, ns : NamespaceIDs, owner : Optional(Usernames),
     format : Formats, tags : Contents, now : Times]
    \cup [kind : {"UpdateNamespace"}, ns : NamespaceIDs, tags : Optional(Contents), now : Times]
    \cup [kind : {"SetNamespaceRole"}, ns : NamespaceIDs, user : Usernames, role : SomeRoles]
    \cup [kind : {"DeleteNamespaceRole"}, ns : NamespaceIDs, user : Usernames]
    \cup [kind : {"SetMount"}, base : BaseURIs, ns : NamespaceIDs]
    \cup [kind : {"DeleteMount"}, base : BaseURIs]

ResourceOps ==
    [kind : {"CreateResource"}, ns : NamespaceIDs, pid : PIDs, content : Contents, now : Times]
    \cup [kind : {"BatchCreateResources"}, ns : NamespaceIDs,
          pids : UNION {[1..len -> PIDs] : len \in 1..MaxBatch},
          content : Contents, now : Times]
    \cup [kind : {"UpdateResource"}, ns : NamespaceIDs, pid : PIDs,
          content : Optional(Contents), deleted : Optional(BOOLEAN), now : Times]

Operations == AccountOps \cup NamespaceOps \cup ResourceOps

-----------------------------------------------------------------------------
(* What a transaction sees and waits for *)

Open(t) == op[t] # None
Statement(t) == Program(op[t])[at[t]]
AtEnd(t) == at[t] > Len(Program(op[t]))

View(t, row) == IF row \in DOMAIN pending[t] THEN pending[t][row].to ELSE db[row]

\* The rows a DELETE is about: those it found, as far as they are still there.
Targets(t) ==
    {row \in IF scan[t] = None THEN Statement(t).rows ELSE scan[t] : View(t, row) # None}

\* ON DELETE CASCADE
Cascade(t, rows) ==
    {row \in Rows : View(t, row) # None /\ Parents(row, View(t, row)) \cap rows # {}}

Writers(t, rows) == {s \in Sessions \ {t} : DOMAIN pending[s] \cap rows # {}}
Sharers(t, rows) == {s \in Sessions \ {t} : shared[s] \cap rows # {}}
Deleters(t, rows) ==
    {s \in Sessions \ {t} : \E row \in rows \cap DOMAIN pending[s] : pending[s][row].to = None}

WaitsFor(t) ==
    IF ~Open(t) THEN {}
    ELSE IF AtEnd(t) THEN {}
    ELSE LET st == Statement(t)
         IN  CASE st.do \in {"ensure", "first"} -> {}
               [] st.do \in {"create", "save"} ->
                      Writers(t, {st.row}) \cup Deleters(t, Parents(st.row, st.value))
               [] st.do = "save loaded" -> Writers(t, {st.row})
               [] st.do = "update" ->
                      IF View(t, st.row) = None THEN {} ELSE Writers(t, {st.row})
               [] st.do = "delete" ->
                      LET rows == Targets(t) \cup Cascade(t, Targets(t))
                      IN  Writers(t, rows) \cup Sharers(t, rows)

\* Everyone in C waits for somebody in C and is waited for by somebody in C.
Deadlock(C) ==
    \A t \in C : WaitsFor(t) \cap C # {} /\ \E s \in C : t \in WaitsFor(s)

-----------------------------------------------------------------------------
(* Transactions *)

Nothing == [row \in {} |-> None]

\* What is left of the transaction of t when it has ended.
Forget(t) ==
    /\ op' = [op EXCEPT ![t] = None]
    /\ at' = [at EXCEPT ![t] = 1]
    /\ pending' = [pending EXCEPT ![t] = Nothing]
    /\ shared' = [shared EXCEPT ![t] = {}]
    /\ loaded' = [loaded EXCEPT ![t] = None]
    /\ UNCHANGED begun

\* withTx2: an error rolls everything back.
Rollback(t, code) ==
    /\ Forget(t)
    /\ result' = [result EXCEPT ![t] = code]
    /\ scan' = [scan EXCEPT ![t] = None]
    /\ UNCHANGED <<db, overlapped>>

\* Continues with the next statement.
Advance(t) ==
    /\ at' = [at EXCEPT ![t] = @ + 1]
    /\ UNCHANGED <<db, op, result, overlapped, begun>>

Read(t) == Advance(t) /\ UNCHANGED <<pending, shared, scan>>

Write(t, changes) ==
    /\ pending' = [pending EXCEPT ![t] =
                      [row \in DOMAIN changes \cup DOMAIN @ |->
                          IF row \in DOMAIN changes THEN changes[row] ELSE @[row]]]
    /\ Advance(t)

\* A row set to value; created tells a new row from a new version of one.
Put(row, value, created) ==
    [r \in {row} |-> [to |-> value, created |-> created]]

Begin(t, o) ==
    /\ ~Open(t)
    /\ begun < MaxOps
    /\ begun' = begun + 1
    /\ op' = [op EXCEPT ![t] = o]
    /\ result' = [result EXCEPT ![t] = None]
    /\ overlapped' = [overlapped EXCEPT ![t] = FALSE]
    /\ UNCHANGED <<db, at, pending, shared, scan, loaded>>

Ready(t, do) ==
    /\ Open(t) /\ ~AtEnd(t)
    /\ Statement(t).do = do
    /\ WaitsFor(t) = {}

ExecEnsure(t) ==
    /\ Ready(t, "ensure")
    /\ IF View(t, Statement(t).row) = None THEN Rollback(t, Statement(t).err)
       ELSE Read(t) /\ UNCHANGED loaded

ExecFirst(t) ==
    /\ Ready(t, "first")
    /\ IF View(t, Statement(t).row) = None THEN Rollback(t, Statement(t).err)
       ELSE Read(t) /\ loaded' = [loaded EXCEPT ![t] = View(t, Statement(t).row)]

\* INSERT; the foreign keys are checked with it.
Insert(t, row, value) ==
    IF \E parent \in Parents(row, value) : View(t, parent) = None
    THEN Rollback(t, "DatabaseError")
    ELSE /\ Write(t, Put(row, value, TRUE))
         /\ shared' = [shared EXCEPT ![t] = @ \cup Parents(row, value)]
         /\ UNCHANGED <<scan, loaded>>

ExecCreate(t) ==
    /\ Ready(t, "create")
    /\ LET st == Statement(t)
       IN  IF View(t, st.row) # None THEN Rollback(t, st.err)
           ELSE Insert(t, st.row, st.value)

\* An UPDATE that moves a mount refers to a namespace, and none is deleted.
ExecSave(t) ==
    /\ Ready(t, "save")
    /\ LET st == Statement(t)
       IN  IF View(t, st.row) = None THEN Insert(t, st.row, st.value)
           ELSE Write(t, Put(st.row, st.value, FALSE)) /\ UNCHANGED <<shared, scan, loaded>>

With(row, set) == [f \in DOMAIN row |-> IF f \in DOMAIN set THEN set[f] ELSE row[f]]

\* Mutant of SaveLoadedValue: the creation date is set as well.
SaveLoadedStamped(t) ==
    LET st == Statement(t)
    IN  [With(loaded[t], st.set) EXCEPT !.dateCreated = st.set.dateUpdated]

\* All columns come from the struct, also those nobody meant to change.
SaveLoadedValue(t) == With(loaded[t], Statement(t).set)

ExecSaveLoaded(t) ==
    /\ Ready(t, "save loaded")
    /\ Write(t, Put(Statement(t).row, SaveLoadedValue(t), FALSE))
    /\ UNCHANGED <<shared, scan, loaded>>

ExecUpdate(t) ==
    /\ Ready(t, "update")
    /\ LET st == Statement(t)
       IN  IF View(t, st.row) = None THEN Read(t) /\ UNCHANGED loaded
           ELSE /\ Write(t, Put(st.row, With(View(t, st.row), st.set), FALSE))
                /\ UNCHANGED <<shared, scan, loaded>>

\* A DELETE that must wait has chosen its rows.
ScanDelete(t) ==
    /\ Open(t) /\ ~AtEnd(t)
    /\ Statement(t).do = "delete" /\ scan[t] = None /\ WaitsFor(t) # {}
    /\ scan' = [scan EXCEPT ![t] = Targets(t)]
    /\ UNCHANGED <<db, op, at, pending, shared, loaded, result, overlapped, begun>>

ExecDelete(t) ==
    /\ Ready(t, "delete")
    /\ LET st == Statement(t)
           rows == Targets(t)
       IN  IF rows = {} /\ st.err # "nil" THEN Rollback(t, st.err)
           ELSE /\ Write(t, [row \in rows \cup Cascade(t, rows) |->
                                [to |-> None, created |-> FALSE]])
                /\ scan' = [scan EXCEPT ![t] = None]
                /\ UNCHANGED <<shared, loaded>>

\* COMMIT.  When the answer to it is lost, the caller is told of an error
\* although everything is stored.  What waits to delete a row that is gone
\* now, or is a new one of the same key, no longer deletes it.
Commit(t) ==
    /\ Open(t) /\ AtEnd(t)
    /\ LET new == pending[t]
           gone == {row \in DOMAIN new : new[row].to = None \/ new[row].created}
       IN  /\ db' = [row \in Rows |-> IF row \in DOMAIN new THEN new[row].to ELSE db[row]]
           /\ scan' = [s \in Sessions |->
                          IF s = t \/ scan[s] = None THEN None ELSE scan[s] \ gone]
           /\ overlapped' = [s \in Sessions |->
                                overlapped[s] \/ (s # t /\ Open(s) /\ new # Nothing)]
    /\ \E code \in {"nil", "DatabaseError"} : result' = [result EXCEPT ![t] = code]
    /\ Forget(t)

\* A statement fails, the database ends a transaction that waits in a cycle,
\* the context is cancelled, or the server is gone.
Fails(t) == Open(t) /\ Rollback(t, "DatabaseError")

Execute(t) ==
    \/ ExecEnsure(t) \/ ExecFirst(t) \/ ExecCreate(t) \/ ExecSave(t)
    \/ ExecSaveLoaded(t) \/ ExecUpdate(t) \/ ScanDelete(t) \/ ExecDelete(t)
    \/ Commit(t)

GormNext ==
    \E t \in Sessions :
        \/ \E o \in Operations : Begin(t, o)
        \/ Execute(t) \/ Fails(t)

\* Nothing is written, locked or read.
IdleSessions ==
    /\ pending = [t \in Sessions |-> Nothing]
    /\ shared = [t \in Sessions |-> {}]
    /\ scan = [t \in Sessions |-> None]
    /\ loaded = [t \in Sessions |-> None]
    /\ result = [t \in Sessions |-> None]
    /\ overlapped = [t \in Sessions |-> FALSE]
    /\ begun = 0

SessionsInit ==
    /\ op = [t \in Sessions |-> None]
    /\ at = [t \in Sessions |-> 1]
    /\ IdleSessions

\* Migrate: the tables are there, and empty.
GormInit == db = [row \in Rows |-> None] /\ SessionsInit

GormSpec == GormInit /\ [][GormNext]_gormVars

-----------------------------------------------------------------------------
(* Properties *)

\* User and resource rows hold values of their tables, and a connection is
\* inside the program of its operation and has locked and written rows only.
GormTypeOK ==
    /\ DOMAIN db = Rows
    /\ \A u \in Usernames : db[UserRow(u)] \in Optional(UserValue)
    /\ \A n \in NamespaceIDs, p \in PIDs :
           db[ResourceRow(n, p)] # None => db[ResourceRow(n, p)].deleted \in BOOLEAN
    /\ op \in [Sessions -> Optional(Operations)]
    /\ begun \in 0..MaxOps
    /\ \A t \in Sessions :
           /\ Open(t) => at[t] \in 1..(Len(Program(op[t])) + 1)
           /\ DOMAIN pending[t] \subseteq Rows /\ shared[t] \subseteq Rows
           /\ scan[t] \in Optional(SUBSET Rows)
           /\ overlapped[t] \in BOOLEAN

\* What the committed rows are to the storage contract.
StoredUsers ==
    [u \in Usernames |->
        IF db[UserRow(u)] = None THEN None
        ELSE [superuser    |-> db[UserRow(u)].superuser,
              passwordHash |-> db[PasswordRow(u)],
              keys         |-> [k \in KeyIDs |-> db[KeyRow(u, k)]]]]

StoredNamespaces ==
    [n \in NamespaceIDs |->
        IF db[NamespaceRow(n)] = None THEN None
        ELSE [pidFormat   |-> db[NamespaceRow(n)].pidFormat,
              tags        |-> IF db[NamespaceTagRow(n)] = None THEN Plain
                              ELSE db[NamespaceTagRow(n)],
              dateCreated |-> db[NamespaceRow(n)].dateCreated,
              dateUpdated |-> db[NamespaceRow(n)].dateUpdated]]

Contract == INSTANCE Store WITH
    users       <- StoredUsers,
    namespaces  <- StoredNamespaces,
    resources   <- [n \in NamespaceIDs |-> [p \in PIDs |-> db[ResourceRow(n, p)]]],
    roles       <- [n \in NamespaceIDs |-> [u \in Usernames |->
                       IF db[RoleRow(n, u)] = None THEN "none" ELSE db[RoleRow(n, u)]]],
    mounts      <- [b \in BaseURIs |-> db[MountRow(b)]],
    mountGrants <- [u \in Usernames |-> {g \in Patterns : db[GrantRow(u, g)] # None}]

\* What is stored is never taken for an absent entry of the contract.
ASSUME NoneIsNoRecord ==
    None \notin Contract!UserRecord /\ None \notin Contract!NamespaceRecord

\* The contract returns err, and when that is nil has this effect.
Returns(code, err, Effect) == code = err /\ IF code = "nil" THEN Effect ELSE db' = db

\* The contract refuses a secret that is in use; the tables have no such
\* constraint, and the key is stored.
OnlySecretTaken(o) ==
    /\ Contract!UserExists(o.user)
    /\ Contract!KeyAt(o.user, o.key) = None
    /\ Contract!SecretTaken(o.user, Contract!Hash(o.raw))
    /\ db' = [db EXCEPT ![KeyRow(o.user, o.key)] = NewKey(o)]

AccountStep(o, code) ==
    CASE o.kind = "CreateUser" ->
           Returns(code, Contract!CreateUserErr(o.user), Contract!CreateUser(o.user, o.superuser))
      [] o.kind = "DeleteUser" ->
           Returns(code, Contract!UserErr(o.user), Contract!DeleteUser(o.user))
      [] o.kind = "UpdateUser" ->
           Returns(code, Contract!UserErr(o.user), Contract!UpdateUser(o.user, o.superuser))
      [] o.kind = "SetPassword" ->
           Returns(code, Contract!UserErr(o.user), Contract!SetPassword(o.user, o.password))
      [] o.kind = "SetMountGrant" ->
           Returns(code, Contract!UserErr(o.user), Contract!SetMountGrant(o.user, o.pattern))
      [] o.kind = "DeleteMountGrant" ->
           Returns(code, Contract!DeleteMountGrantErr(o.user, o.pattern),
                   Contract!DeleteMountGrant(o.user, o.pattern))
      [] o.kind = "CreateKey" ->
           \/ OnlySecretTaken(o) /\ code = "nil"
           \/ Returns(code, Contract!CreateKeyErr(o.user, o.key, o.raw),
                      Contract!CreateKey(o.user, o.key, o.raw, o.expiresAt, o.scopes))
      [] o.kind = "RevokeKey" ->
           Returns(code, Contract!RevokeKeyErr(o.user, o.key), Contract!RevokeKey(o.user, o.key))

PlaceStep(o, code) ==
    CASE o.kind = "CreateNamespace" ->
           Returns(code, Contract!CreateNamespaceErr(o.ns, o.owner),
                   Contract!CreateNamespace(o.ns, o.owner, o.format, o.tags, o.now))
      [] o.kind = "UpdateNamespace" ->
           Returns(code, Contract!NamespaceErr(o.ns),
                   Contract!UpdateNamespace(o.ns, o.tags, o.now))
      [] o.kind = "SetNamespaceRole" ->
           Returns(code, Contract!NamespaceErr(o.ns),
                   Contract!SetNamespaceRole(o.ns, o.user, o.role))
      [] o.kind = "DeleteNamespaceRole" ->
           Returns(code, Contract!DeleteNamespaceRoleErr(o.ns, o.user),
                   Contract!DeleteNamespaceRole(o.ns, o.user))
      [] o.kind = "SetMount" ->
           Returns(code, Contract!NamespaceErr(o.ns), Contract!SetMount(o.base, o.ns))
      [] o.kind = "DeleteMount" ->
           Returns(code, Contract!MountErr(o.base), Contract!DeleteMount(o.base))

ResourceStep(o, code) ==
    CASE o.kind = "CreateResource" ->
           Returns(code, Contract!CreateResourceErr(o.ns, o.pid),
                   Contract!CreateResource(o.ns, o.pid, o.content, o.now))
      [] o.kind = "BatchCreateResources" ->
           Returns(code, Contract!BatchCreateResourcesErr(o.ns, o.pids),
                   Contract!BatchCreateResources(o.ns, o.pids,
                       [i \in DOMAIN o.pids |-> o.content], o.now))
      [] o.kind = "UpdateResource" ->
           Returns(code, Contract!ResourceErr(o.ns, o.pid),
                   Contract!UpdateResource(o.ns, o.pid, o.content, o.deleted, o.now))

ContractStep(o, code) ==
    CASE o \in AccountOps   -> AccountStep(o, code)
      [] o \in NamespaceOps -> PlaceStep(o, code)
      [] o \in ResourceOps  -> ResourceStep(o, code)

\* Operations whose outcome does not depend on others committing between
\* their statements.  Setting no role is not among them: when there is no row
\* to delete it locks none, and a role set meanwhile stays.  Nor is a DELETE
\* whose row another one takes while it waits: it finds nothing, also when
\* there is a new row by then.
Atomic(o, code) ==
    \/ o.kind \in {"CreateUser", "CreateKey", "SetMount", "CreateResource",
                   "BatchCreateResources"}
    \/ o.kind = "SetNamespaceRole" /\ o.role # "none"
    \/ o.kind \in {"DeleteNamespaceRole", "DeleteMount"} /\ code \in {"nil", "DatabaseError"}

Ended(t) == Open(t) /\ op'[t] = None

\* The transaction has taken effect, or ended, like one step of the contract.
KeepsContract(t) ==
    \/ ContractStep(op[t], result'[t])
    \/ result'[t] = "DatabaseError" /\ (db' = db \/ ContractStep(op[t], "nil"))

\* A transaction that no other one overlaps does what the memory backend does
\* in one locked step, error for error, and one that creates something or
\* changes a mount or role does so whatever overlaps it, except that a secret
\* in use is accepted for a new key.  An error of the database leaves
\* everything or nothing of it.
ImplementsContract ==
    [][\A t \in Sessions :
           Ended(t) /\ (Atomic(op[t], result'[t]) \/ ~overlapped[t])
               => KeepsContract(t)]_gormVars

\* No interleaving leaves a password, key, role, tag, resource or mount
\* behind whose owner is not stored: what DeleteUser did not see when it
\* deleted the associations goes with the row of the user.
RowsHaveOwners ==
    /\ \A u \in Usernames :
           db[UserRow(u)] = None =>
               \A row \in {PasswordRow(u)} \cup KeysOf(u) : db[row] = None
    /\ \A n \in NamespaceIDs :
           db[NamespaceRow(n)] = None =>
               /\ db[NamespaceTagRow(n)] = None
               /\ \A u \in Usernames : db[RoleRow(n, u)] = None
               /\ \A b \in BaseURIs : db[MountRow(b)] # n
               /\ \A p \in PIDs : db[ResourceRow(n, p)] = None
    /\ \A n \in NamespaceIDs, p \in PIDs :
           db[ResourceRow(n, p)] = None => db[ResourceTagRow(n, p)] = None

\* No transaction, however interleaved and also when it writes back all the
\* columns it read earlier, takes a PID back, dates a resource or namespace
\* anew or changes a format.
StoredPIDsStay == [][Contract!KeepsPIDs]_gormVars

\* Batches in one namespace, and deletions of one user.
Rivals(s, t) ==
    \/ /\ op[s].kind = "BatchCreateResources" /\ op[t].kind = "BatchCreateResources"
       /\ op[s].ns = op[t].ns
       /\ Len(op[s].pids) > 1 /\ Len(op[t].pids) > 1
    \/ op[s].kind = "DeleteUser" /\ op[s] = op[t]

\* Transactions wait for each other in a cycle only when they are batches that
\* insert the same PIDs in different orders, or deletions of the same user of
\* which one meets, by the foreign key of the user, a password or key that was
\* added after it deleted those.  Everything else locks its rows in one order.
OnlyRivalsDeadlock ==
    \A C \in SUBSET Sessions :
        Deadlock(C) => \A t \in C : \A s \in C \cap WaitsFor(t) : Rivals(s, t)

\* The API documents that fields omitted from an update of a resource are not
\* changed.
OmittedFieldsStay ==
    [][\A t \in Sessions :
           Ended(t) /\ op[t].kind = "UpdateResource" /\ result'[t] = "nil" =>
               LET row == ResourceRow(op[t].ns, op[t].pid)
               IN  /\ op[t].deleted = None => db'[row].deleted = db[row].deleted
                   /\ op[t].content = None => db'[row].content = db[row].content]_gormVars

=============================================================================
